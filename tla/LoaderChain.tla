----------------------------- MODULE LoaderChain -----------------------------
(***************************************************************************)
(* The staged hand-off on the BSP, from the entry stub to startap:         *)
(*   starter_main        src/pre_os/starter/starter_main.c                 *)
(*   run_xmon_loader     src/pre_os/starter/run_xmon_loader.c              *)
(*   xmon_loader         src/pre_os/xmon_loader/xmon_loader.c              *)
(*   get_e820_table_from_multiboot   src/pre_os/xmon_loader/e820.c         *)
(* over the loader heap of Heap and the addresses of Layout.  One          *)
(* processor runs the chain, so each step is an action in code order and a *)
(* failure at any step is its own disjunct leading to the error path of    *)
(* starter_main.  Image decoding (get_image_info, load_image) is outside   *)
(* src/: its verdict is a nondeterministic choice.                         *)
(***************************************************************************)
EXTENDS Integers, Sequences, Bitwise, Heap, Layout, CpuState

CONSTANTS
  Descs,          \* boot descriptors: [base, guest1_start, guest1_count,
                  \*   xmon_loader_start, xmon_mem_in_mb]
  Mbis,           \* multiboot info: [flags, mmap_length, entry_size]
  Cpus,           \* the BSP as the multiboot loader leaves it (CpuState)
  LogicalCounts,  \* CPUID.1 EBX[23:16], the logical processor count
  E820Sources,    \* what get_e820_table is #defined to in the build
  Sfis            \* SFI tables: [syst, syst_len, mmap_slot, mmap,
                  \*   mmap_len] (see SfiSig)

ASSUME W = W32 /\ PAGE_SIZE = PAGE
ASSUME E820Sources \subseteq {"multiboot", "efi", "sfi"}

\* Bytes of one int15_e820_memory_map_entry_ext_t, and of the page.
E820_ENTRY_BYTES == 24
E820_HEADER_BYTES == 4
PAGE_BYTES == 4096

VARIABLES
  pc,          \* where the BSP is in the chain
  desc,        \* the boot descriptor td
  mbi,         \* the multiboot info block s->gp.reg[RBX] points to
  cpu,         \* the BSP's registers, GDT and MSRs at entry
  startup,     \* the startup state at GUEST1_BASE: segments, RIP/RCX/RBX
  cpus,        \* CPUID.1 EBX[23:16] on this machine
  source,      \* the e820 builder get_e820_table stands for
  sfi,         \* the machine's SFI tables
  e820,        \* the page get_e820_table wrote, NULL if none
  e820Count,   \* entries the builder wrote into it
  vmem,        \* mon_memory_layout of setup_env: thunk and mon regions
  numAps,      \* num_of_aps
  esp,         \* init32.i32_esp[0 .. i-1]
  scrub        \* the range the error path cleared, [start, len]

\* What the build and the machine fix for the whole boot.
fixed == <<desc, mbi, cpu, cpus, source, sfi>>

vars == <<heapVars, pc, fixed, startup, e820, e820Count, vmem, numAps, esp, scrub>>

NoRegion == [base |-> 0, size |-> 0]

Init ==
  /\ HeapInit
  /\ pc = "starter"
  /\ desc \in Descs
  /\ mbi \in Mbis
  /\ cpu \in Cpus
  /\ startup = ZeroState
  /\ cpus \in LogicalCounts
  /\ source \in E820Sources
  /\ sfi \in Sfis
  /\ e820 = NULL
  /\ e820Count = 0
  /\ vmem = [thunk |-> NoRegion, mon |-> NoRegion]
  /\ numAps = 0
  /\ esp = <<>>
  /\ scrub = [start |-> 0, len |-> 0]

Goto(l) == pc' = l

(***************************************************************************)
(* starter_main: clear the startup state area, save the registers and the  *)
(* CPU state into it (save_cpu_state), then check_vmx_support; on failure  *)
(* go to the error label, else call run_xmon_loader.                       *)
(***************************************************************************)
\* The entry frame starter_main saves into s->gp: the return address eip0,
\* ECX, and EBX, where the multiboot loader passes the multiboot info.
EntryRegisters == [RIP |-> "eip0", RCX |-> "ecx", RBX |-> "mbi"]

StarterMain ==
  /\ pc = "starter"
  /\ startup' = SaveCpuState(cpu, [ZeroState EXCEPT !.gp = EntryRegisters])
  /\ Goto(IF CheckVmxSupport(cpu) THEN "run_loader" ELSE "error")
  /\ UNCHANGED <<heapVars, fixed, e820, e820Count, vmem,
                 numAps, esp, scrub>>

(***************************************************************************)
(* run_xmon_loader: load_image of the loader image into XMON_LOADER_BASE;  *)
(* on failure it returns -1 and starter_main falls into its error label.   *)
(***************************************************************************)
RunXmonLoader ==
  /\ pc = "run_loader"
  /\ \E ok \in BOOLEAN : Goto(IF ok THEN "loader" ELSE "error")
  /\ UNCHANGED <<heapVars, fixed, startup, e820, e820Count, vmem,
                 numAps, esp, scrub>>

(***************************************************************************)
(* xmon_loader: the heap is XMON_LOADER_HEAP_BASE(td) with                 *)
(* XMON_LOADER_HEAP_SIZE bytes; setup_idt has no modelled effect.          *)
(***************************************************************************)
XmonLoaderInit ==
  /\ pc = "loader"
  /\ InitializeMemoryManager(XMON_LOADER_HEAP_BASE(desc), XMON_LOADER_HEAP_SIZE)
  /\ Goto("e820")
  /\ UNCHANGED <<fixed, startup, e820, e820Count, vmem, numAps, esp,
                 scrub>>

\* Iterations of: for (next = start; next < end; next += size + 4).
MmapEntries(m) == (m.mmap_length + m.entry_size + 3) \div (m.entry_size + 4)

\* Mutant: the mmap_length bound is missing.
MbiRejectedNoBound(m) == (m.flags & 3) = 0

\* The multiboot checks of get_e820_table_from_multiboot.
MbiRejected(m) == (m.flags & 3) = 0 \/ m.mmap_length > PAGE_BYTES

(***************************************************************************)
(* get_e820_table_from_multiboot: -1 when the MBI fails its checks or      *)
(* mon_page_alloc(1) returns NULL (xmon_loader then returns); else one     *)
(* entry per walked multiboot record.                                      *)
(***************************************************************************)
GetE820TableFromMultiboot ==
  /\ pc = "e820"
  /\ source = "multiboot"
  /\ \/ /\ MbiRejected(mbi)
        /\ Goto("error")
        /\ UNCHANGED <<heapVars, e820, e820Count>>
     \/ /\ ~MbiRejected(mbi)
        /\ MonPageAlloc(1)
        /\ e820' = ret'
        /\ e820Count' = IF ret' = NULL THEN 0 ELSE MmapEntries(mbi)
        /\ Goto(IF ret' = NULL THEN "error" ELSE "xmon")
  /\ UNCHANGED <<fixed, startup, vmem, numAps, esp, scrub>>

\* Entries of 24 bytes that fit in a page behind the 4-byte size.
E820_PAGE_ENTRIES == (PAGE_BYTES - E820_HEADER_BYTES) \div E820_ENTRY_BYTES

(***************************************************************************)
(* copy_e820_table_from_efi: mon_page_alloc(1) and a copy of 4096 bytes    *)
(* from the block RBX points to, which fills the page: its size word and   *)
(* as many entries as the page holds.                                      *)
(***************************************************************************)
CopyE820TableFromEfi ==
  /\ pc = "e820"
  /\ source = "efi"
  /\ MonPageAlloc(1)
  /\ e820' = ret'
  /\ e820Count' = IF ret' = NULL THEN 0 ELSE E820_PAGE_ENTRIES
  /\ Goto(IF ret' = NULL THEN "error" ELSE "xmon")
  /\ UNCHANGED <<fixed, startup, vmem, numAps, esp, scrub>>

(***************************************************************************)
(* The SFI tables of the machine, in bytes.  sfi.syst is the address of    *)
(* the SYST header (0: none); its body, after the 24-byte sfi_header_t,    *)
(* is an array of 8-byte table pointers, of which slot sfi.mmap_slot (-1:  *)
(* none) holds sfi.mmap, the address of the MMAP header.  Every other slot *)
(* points to another table or is 0.                                        *)
(***************************************************************************)
SFI_HEADER_BYTES == 24
SFI_MEM_DSC_BYTES == 36   \* sizeof(sfi_mem_dsc_t), uint64 4-aligned on i386

\* The signature of the header at addr (level 0), or of the header the
\* pointer at addr points to (level 1); "" for anything else.
SfiSig(addr, level) ==
  IF level = 0
  THEN IF addr = sfi.syst /\ sfi.syst # 0 THEN "SYST" ELSE ""
  ELSE IF sfi.mmap_slot >= 0
          /\ addr = sfi.syst + SFI_HEADER_BYTES + 8 * sfi.mmap_slot
       THEN "MMAP" ELSE ""

SfiLen(sig) == IF sig = "SYST" THEN sfi.syst_len ELSE sfi.mmap_len

(***************************************************************************)
(* find_sfi_table(start, end, step, level, sig): the first addr = start +  *)
(* k * step <= end whose header has signature sig gives the table after    *)
(* the header and its size len - 24.  The size is a uint32: a len below 24 *)
(* is kept as the negative difference it wraps from.                       *)
(***************************************************************************)
FindSfiTable(start, end, step, level, sig) ==
  LET probes == {start + k * step : k \in 0..((end - start) \div step)}
      hits == {a \in probes : SfiSig(a, level) = sig}
  IN IF hits = {}
     THEN [r |-> -1, table |-> 0, size |-> 0]
     ELSE [r |-> 0,
           table |-> IF level = 0 THEN sfi.syst + SFI_HEADER_BYTES
                     ELSE sfi.mmap + SFI_HEADER_BYTES,
           size |-> SfiLen(sig) - SFI_HEADER_BYTES]

\* 2^32 = 36 * 119304647 + 4: size / sizeof(sfi_mem_dsc_t) in uint32.
SfiDscCount(size) ==
  IF size >= 0 THEN size \div SFI_MEM_DSC_BYTES
  ELSE 119304647 + (4 + size) \div SFI_MEM_DSC_BYTES

(***************************************************************************)
(* get_e820_table_from_sfi: SYST is searched in 0xe0000..0xfffff at        *)
(* 16-byte steps, MMAP among SYST's pointers at 8-byte steps; either       *)
(* missing, or mon_page_alloc(1) failing, returns -1.  Then one entry per  *)
(* descriptor: cnt = size / 36, with no bound.                             *)
(***************************************************************************)
GetE820TableFromSfi ==
  LET syst == FindSfiTable(917504, 1048575, 16, 0, "SYST")
      mmap == FindSfiTable(syst.table, syst.table + syst.size - 1, 8, 1, "MMAP")
  IN /\ pc = "e820"
     /\ source = "sfi"
     /\ \/ /\ syst.r # 0 \/ mmap.r # 0
           /\ Goto("error")
           /\ UNCHANGED <<heapVars, e820, e820Count>>
        \/ /\ syst.r = 0 /\ mmap.r = 0
           /\ MonPageAlloc(1)
           /\ e820' = ret'
           /\ e820Count' = IF ret' = NULL THEN 0 ELSE SfiDscCount(mmap.size)
           /\ Goto(IF ret' = NULL THEN "error" ELSE "xmon")
     /\ UNCHANGED <<fixed, startup, vmem, numAps, esp, scrub>>

(***************************************************************************)
(* get_image_info and load_image of the monitor (EM64T, into XMON_BASE,    *)
(* XMON_SIZE bytes) and then of startap (x86, into STARTAP_BASE,           *)
(* STARTAP_SIZE bytes): any verdict of the decoder other than success,     *)
(* a wrong machine type or a zero load size makes xmon_loader return.      *)
(***************************************************************************)
LoadXmon ==
  /\ pc = "xmon"
  /\ \E ok \in BOOLEAN : Goto(IF ok THEN "startap" ELSE "error")
  /\ UNCHANGED <<heapVars, fixed, startup, e820, e820Count, vmem,
                 numAps, esp, scrub>>

LoadStartap ==
  /\ pc = "startap"
  /\ \E ok \in BOOLEAN : Goto(IF ok THEN "env" ELSE "error")
  /\ UNCHANGED <<heapVars, fixed, startup, e820, e820Count, vmem,
                 numAps, esp, scrub>>

\* setup_env: the thunk (startap) and mon entries of mon_memory_layout.
SetupEnvLayout(d) ==
  [thunk |-> [base |-> STARTAP_BASE(d), size |-> STARTAP_SIZE],
   mon   |-> [base |-> XMON_BASE(d), size |-> XMON_SIZE(d)]]

(***************************************************************************)
(* setup_primary_guest_env: the primary guest is to resume at              *)
(* primary_guest_entry with td, the xmon descriptor, in RCX; RBX keeps    *)
(* the multiboot info.                                                     *)
(***************************************************************************)
SetupPrimaryGuestEnv(st, d) ==
  [st EXCEPT !.gp.RIP = "primary_guest_entry", !.gp.RCX = "xmon_desc"]

\* Mutant: a CPUID count of 0 is not clamped (num_of_aps = -1).
SetupEnvNoClamp ==
  /\ pc = "env"
  /\ startup' = SetupPrimaryGuestEnv(startup, desc)
  /\ vmem' = SetupEnvLayout(desc)
  /\ numAps' = (cpus & 255) - 1
  /\ Goto("stacks")
  /\ UNCHANGED <<heapVars, fixed, e820, e820Count, esp, scrub>>

\* Mutant of SetupEnv: the BSP is subtracted twice from the CPUID count.
SetupEnvMinusTwo ==
  /\ pc = "env"
  /\ startup' = SetupPrimaryGuestEnv(startup, desc)
  /\ vmem' = SetupEnvLayout(desc)
  /\ numAps' = IF (cpus & 255) - 2 < 0 THEN 0 ELSE (cpus & 255) - 2
  /\ Goto("stacks")
  /\ UNCHANGED <<heapVars, fixed, e820, e820Count, esp, scrub>>

(***************************************************************************)
(* setup_primary_guest_env, setup_env (the thunk and mon regions of the   *)
(* monitor's memory layout), then num_of_aps from CPUID, at least 0.       *)
(***************************************************************************)
SetupEnv ==
  /\ pc = "env"
  /\ startup' = SetupPrimaryGuestEnv(startup, desc)
  /\ vmem' = SetupEnvLayout(desc)
  /\ numAps' = IF (cpus & 255) - 1 < 0 THEN 0 ELSE (cpus & 255) - 1
  /\ Goto("stacks")
  /\ UNCHANGED <<heapVars, fixed, e820, e820Count, esp, scrub>>

(***************************************************************************)
(* One iteration of the AP stack loop: mon_page_alloc(2); NULL makes       *)
(* xmon_loader return, else i32_esp[i] is the end of the two pages.        *)
(***************************************************************************)
AllocApStack ==
  /\ pc = "stacks"
  /\ Len(esp) < numAps
  /\ MonPageAlloc(2)
  /\ \/ ret' = NULL /\ Goto("error") /\ UNCHANGED esp
     \/ ret' # NULL /\ esp' = Append(esp, U32(ret' + 2 * PAGE)) /\ UNCHANGED pc
  /\ UNCHANGED <<fixed, startup, e820, e820Count, vmem, numAps, scrub>>

(***************************************************************************)
(* The loop is done: gdt64 and paging are set up (not modelled) and        *)
(* call_startap_entry hands over init32 (or 0 when there are no APs),      *)
(* init64, the monitor environment and the monitor entry.                  *)
(***************************************************************************)
CallStartapEntry ==
  /\ pc = "stacks"
  /\ Len(esp) = numAps
  /\ Goto("startap_entry")
  /\ UNCHANGED <<heapVars, fixed, startup, e820, e820Count, vmem,
                 numAps, esp, scrub>>

(***************************************************************************)
(* The error label of starter_main: clear the loader's memory, then spin.  *)
(***************************************************************************)
StarterError ==
  /\ pc = "error"
  /\ scrub' = [start |-> ScrubStart(desc), len |-> ScrubLength(desc)]
  /\ Goto("halt")
  /\ UNCHANGED <<heapVars, fixed, startup, e820, e820Count, vmem,
                 numAps, esp>>

Next ==
  \/ StarterMain
  \/ RunXmonLoader
  \/ XmonLoaderInit
  \/ GetE820TableFromMultiboot
  \/ CopyE820TableFromEfi
  \/ GetE820TableFromSfi
  \/ LoadXmon
  \/ LoadStartap
  \/ SetupEnv
  \/ AllocApStack
  \/ CallStartapEntry
  \/ StarterError

Spec == Init /\ [][Next]_vars

-----------------------------------------------------------------------------
Pcs == {"starter", "run_loader", "loader", "e820", "xmon", "startap", "env",
        "stacks", "startap_entry", "error", "halt"}

Region == [base : 0..(W32 - 1), size : 0..(W32 - 1)]

TypeOK ==
  /\ HeapTypeOK
  /\ pc \in Pcs
  /\ e820 \in 0..(W32 - 1)
  /\ e820Count \in Nat
  /\ vmem \in [thunk : Region, mon : Region]
  /\ numAps \in 0..254
  /\ esp \in Seq(0..(W32 - 1)) /\ Len(esp) <= numAps
  /\ scrub \in [start : 0..(W32 - 1), len : 0..(W32 - 1)]
  /\ startup.seg \in [SegRegs -> [selector : Nat, base : Nat, limit : Nat,
                                   attributes : 0..65535]]

HandedOff == pc = "startap_entry"

(***************************************************************************)
(* Once setup_env has filled the monitor's memory layout, the regions of   *)
(* xmon_desc.h follow one another without overlap: the startup states,     *)
(* the 4 KiB aligned loader, the heap xmon_loader initialised, startap and *)
(* the monitor, whose region ends where the reservation of                 *)
(* xmon_mem_in_mb MiB from td ends.  The monitor is told it owns exactly   *)
(* the memory left to it.                                                  *)
(***************************************************************************)
LoaderRegionsOrdered ==
  pc \in {"stacks", "startap_entry"} =>
    /\ XMON_LOADER_BASE(desc) % PAGE = 0
    /\ desc.base <= GUEST1_BASE(desc)
    /\ GUEST1_BASE(desc) + GUEST1_SIZE <= XMON_LOADER_BASE(desc)
    /\ XMON_LOADER_BASE(desc) + XMON_LOADER_SIZE <= heapBase
    /\ heapTops <= vmem.thunk.base
    /\ vmem.thunk.base + vmem.thunk.size <= vmem.mon.base
    /\ vmem.mon.base + vmem.mon.size = desc.base + desc.xmon_mem_in_mb * MIB

(***************************************************************************)
(* When xmon_loader calls startap, each of the num_of_aps stack pointers   *)
(* in init32 is the top of its own two pages taken from the loader heap,   *)
(* below startap's image, sharing no byte with another AP's stack or with  *)
(* the e820 page.  On a machine whose CPUID count needs more pages than    *)
(* the heap has, the loop must stop instead.                               *)
(***************************************************************************)
StacksOwned ==
  HandedOff =>
    LET Stack(i) == [addr |-> esp[i] - 2 * PAGE, size |-> 2 * PAGE]
        Apart(b1, b2) == b1.addr + b1.size <= b2.addr \/ b2.addr + b2.size <= b1.addr
    IN /\ Len(esp) = numAps
       /\ \A i \in 1..Len(esp) :
            /\ Stack(i) \in blocks
            /\ heapBase <= Stack(i).addr
            /\ esp[i] <= vmem.thunk.base
            /\ Apart(Stack(i), [addr |-> e820, size |-> PAGE])
       /\ \A i, j \in 1..Len(esp) : i # j => Apart(Stack(i), Stack(j))

(***************************************************************************)
(* The entries get_e820_table_from_multiboot copies from the multiboot     *)
(* map, behind the 4-byte size header, fit in the single page it got from  *)
(* mon_page_alloc(1): the mmap_length bound of 4096 bytes is tight enough. *)
(***************************************************************************)
E820PageFits ==
  e820 # NULL => E820_HEADER_BYTES + e820Count * E820_ENTRY_BYTES <= PAGE_BYTES

(***************************************************************************)
(* The error path of starter_main clears only the loader's own transient   *)
(* memory: from the loader image in the package up to the end of the      *)
(* loader heap, STARTAP_BASE(td) (spec section 7: "best-effort memory      *)
(* scrubbing of its own transient region").                                *)
(***************************************************************************)
ScrubWithinLoader ==
  pc = "halt" =>
    /\ scrub.start = ScrubStart(desc)
    /\ scrub.start + scrub.len <= STARTAP_BASE(desc)

(***************************************************************************)
(* get_e820_table_from_multiboot builds the table only from a multiboot    *)
(* block whose MBI_MEMMAP bit (flags bit 6) says mmap_addr and mmap_length *)
(* are valid.                                                              *)
(***************************************************************************)
E820FromMemmap == e820 # NULL => (mbi.flags & 64) # 0

(***************************************************************************)
(* Once save_cpu_state has run, the startup state holds, for every segment *)
(* register, the descriptor its selector names, decoded to the byte base,  *)
(* byte limit and attributes the IA-32 format gives it, exactly when the   *)
(* GDTR limit covers that descriptor and validate_descriptor accepts it    *)
(* (and LDTR is null); otherwise the entry stays as the memset left it.    *)
(* The monitor seeds the first virtual processor from this state.          *)
(***************************************************************************)
CpuStateCaptured ==
  pc # "starter" => \A r \in SegRegs : startup.seg[r] = ExpectedSegment(cpu, r)
=============================================================================
