----------------------------- MODULE GuestBoot ------------------------------
(***************************************************************************)
(* The primary-guest boot path, run once the monitor is up:                *)
(* load_primary_guest_kernel (src/pre_os/xmon_loader/primary_guest.c)      *)
(* hides the monitor's memory from the multiboot map, then                 *)
(* launch_linux_kernel (linux_loader.c) finds the kernel and initrd        *)
(* modules, expand_linux_image validates the bzImage setup header,         *)
(* allocates boot_params + command line from the loader heap, places the   *)
(* initrd, copies the command line and fills boot_params                   *)
(* (setup_boot_params), and jump_linux_image enters the kernel.            *)
(*                                                                         *)
(* Addresses and sizes are in 512-byte sectors, scaled: W stands for 2^32  *)
(* (also the 4 GiB mem_limit), PAGE_SIZE for 4 KiB.  The heap is the Heap  *)
(* module; the hide transform is E820's walk.  Memory contents are not     *)
(* modelled, only where each object is put.                                *)
(***************************************************************************)
EXTENDS Integers, Sequences, FiniteSets, SequencesExt, Heap

CONSTANTS
  SECTOR_SIZE,         \* 512 bytes
  HDR_SIZE,            \* sizeof(linux_kernel_header_t)
  BOOT_PARAMS_SIZE,    \* sizeof(boot_params_t)
  ENTRY_SIZE,          \* sizeof(multiboot_memory_map_t)
  DEFAULT_SECTOR_NUM,  \* setup_sects used when the header says 0
  MAX_SECTOR_NUM,      \* largest setup_sects accepted
  E820MAX,             \* entries of boot_params.e820_map
  MapW,                \* 2^64 scaled: modulus of the map's addr and len
  HideBase,            \* STARTAP_BASE(td)
  HideSize,            \* STARTAP_SIZE + XMON_SIZE(td)
  Maps,                \* multiboot memory maps the firmware may hand over
  Headers,             \* setup headers of the kernel image
  Kernels,             \* kernel modules: [base, size]
  Initrds,             \* initrd modules: [base, size]
  CmdLens,             \* strlen of the kernel module's command line
  ModsCounts,          \* mbi->mods_count
  HeapBaseV,           \* heap_base
  HeapBytesV,          \* XMON_LOADER_HEAP_SIZE
  HeapCurrents         \* heap_current left by xmon_loader

MEM_LIMIT == W                   \* 0x100000000ULL
GRUB_MODULE_COUNT == 2           \* MVMLINUZ and MINITRD
E820_BAD_MEM == 5
E820_RESERVED_MEM == 2

VARIABLES
  pc,          \* "hide", "launch", "expand", "jump", "kernel" or "halted"
  map,         \* mbi->mmap_addr / mmap_length
  memmap,      \* mbi->flags & MBI_MEMMAP
  mods,        \* mbi->mods_count
  kernel,      \* the MVMLINUZ module
  initrd,      \* the MINITRD module
  cmdLen,      \* strlen of the kernel command line
  hdr,         \* the setup header inside the kernel image (mutable)
  bootParams,  \* address of boot_params, NULL until allocated
  bp,          \* boot_params contents: setup header copy and e820 map
  initrdAt,    \* where the initrd was copied, NULL until then
  entry,       \* kernel_entry_point handed to jump_linux_image
  fail,        \* the check expand_linux_image failed on, or "none"
  map0,        \* history: the map before the hide
  hdr0,        \* history: the header before expand_linux_image
  hideOk       \* history: what hide_runtime_memory returned

vars == <<heapVars, pc, map, memmap, mods, kernel, initrd, cmdLen, hdr,
          bootParams, bp, initrdAt, entry, fail, map0, hdr0, hideOk>>

Hide == INSTANCE E820 WITH W64 <- MapW, W32 <- W, InputMaps <- Maps,
          HideAddrs <- {HideBase}, HideSizes <- {HideSize},
          mbiMap <- map, mbiMemmap <- memmap, heapFree <- TRUE,
          hideAddr <- HideBase, hideSize <- HideSize, status <- "idle",
          written <- 0, capacity <- 0, origMap <- map0

AVAILABLE == Hide!MULTIBOOT_MEMORY_AVAILABLE

-----------------------------------------------------------------------------
\* PAGE_ALIGN_4K and "& ~PAGE_4KB_MASK".
PageAlign(x) == ((x + PAGE_SIZE - 1) \div PAGE_SIZE) * PAGE_SIZE
PageFloor(x) == (x \div PAGE_SIZE) * PAGE_SIZE

RealModeSize(ss) == (ss + 1) * SECTOR_SIZE

(***************************************************************************)
(* get_highest_sized_ram(mbi, size, limit): the AVAILABLE record of at     *)
(* least size bytes with the highest base, scanning in map order and       *)
(* stopping at the first AVAILABLE record that ends above limit.           *)
(***************************************************************************)
HighestStepAnySize(acc, e, size, limit) ==
  IF acc.stop \/ e.type # AVAILABLE THEN acc
  ELSE IF e.addr + e.len > limit THEN [acc EXCEPT !.stop = TRUE]
  ELSE IF e.addr > acc.base THEN [acc EXCEPT !.base = e.addr, !.size = e.len]
  ELSE acc

\* Mutant of HighestStep: a record ending exactly at the limit stops the scan.
HighestStepStopAtLimit(acc, e, size, limit) ==
  IF acc.stop \/ e.type # AVAILABLE THEN acc
  ELSE IF e.addr + e.len >= limit THEN [acc EXCEPT !.stop = TRUE]
  ELSE IF size <= e.len /\ e.addr > acc.base
         THEN [acc EXCEPT !.base = e.addr, !.size = e.len]
  ELSE acc

HighestStep(acc, e, size, limit) ==
  IF acc.stop \/ e.type # AVAILABLE THEN acc
  ELSE IF e.addr + e.len > limit THEN [acc EXCEPT !.stop = TRUE]
  ELSE IF size <= e.len /\ e.addr > acc.base
         THEN [acc EXCEPT !.base = e.addr, !.size = e.len]
  ELSE acc

GetHighestSizedRam(m, size, limit) ==
  FoldLeft(LAMBDA acc, e : HighestStep(acc, e, size, limit),
           [stop |-> FALSE, base |-> 0, size |-> 0], m)

\* The e820_map[] setup_boot_params writes: bad memory becomes reserved.
BootE820(m) ==
  [i \in DOMAIN m |->
     [m[i] EXCEPT !.type = IF @ = E820_BAD_MEM THEN E820_RESERVED_MEM ELSE @]]

\* hide_runtime_memory(mbi, STARTAP_BASE(td), STARTAP_SIZE + XMON_SIZE(td))
HideMonitorShort(m) == Hide!HideWalk(m, HideBase, HideSize - 1)
HideMonitor(m) == Hide!HideWalk(m, HideBase, HideSize)

-----------------------------------------------------------------------------
Init ==
  /\ heapBase = HeapBaseV
  /\ heapTops = (HeapBaseV + HeapBytesV) % W
  /\ heapCurrent \in HeapCurrents
  /\ ret = NULL
  /\ blocks = {}
  /\ pc = "hide"
  /\ map \in Maps
  /\ map0 = map
  /\ memmap \in BOOLEAN
  /\ mods \in ModsCounts
  /\ kernel \in Kernels
  /\ initrd \in Initrds
  /\ cmdLen \in CmdLens
  /\ hdr \in Headers
  /\ hdr0 = hdr
  /\ bootParams = NULL
  /\ bp = [setup |-> hdr, e820 |-> <<>>]
  /\ initrdAt = NULL
  /\ entry = NULL
  /\ fail = "none"
  /\ hideOk = FALSE

(***************************************************************************)
(* load_primary_guest_kernel: hide_runtime_memory(mbi, STARTAP_BASE(td),  *)
(* STARTAP_SIZE + XMON_SIZE(td)), whose result is not looked at, then the  *)
(* call of launch_linux_kernel.  The hide fails without allocating when    *)
(* the map is not valid, fails when allocate_memory has no room for        *)
(* num_of_entries records, and otherwise walks the map.                    *)
(***************************************************************************)
LoadPrimaryGuestKernel ==
  /\ pc = "hide"
  /\ pc' = "launch"
  /\ \/ /\ ~memmap
        /\ hideOk' = FALSE
        /\ UNCHANGED <<heapVars, map>>
     \/ /\ memmap
        /\ AllocateMemory(Hide!NumOfEntries(Len(map)) * ENTRY_SIZE)
        /\ LET walk == HideMonitor(map) IN
             /\ hideOk' = (ret' # NULL /\ walk.ok)
             /\ map' = IF hideOk' THEN walk.out ELSE map
  /\ UNCHANGED <<memmap, mods, kernel, initrd, cmdLen, hdr, bootParams, bp,
                 initrdAt, entry, fail, map0, hdr0>>

(***************************************************************************)
(* launch_linux_kernel: get_mbi_module for MVMLINUZ and MINITRD; each      *)
(* returns NULL when mods_count < GRUB_MODULE_COUNT, and the loader then   *)
(* returns to load_primary_guest_kernel, which spins.                      *)
(***************************************************************************)
LaunchLinuxKernel ==
  /\ pc = "launch"
  /\ pc' = IF mods < GRUB_MODULE_COUNT THEN "halted" ELSE "expand"
  /\ fail' = IF mods < GRUB_MODULE_COUNT THEN "modules" ELSE fail
  /\ UNCHANGED <<heapVars, map, memmap, mods, kernel, initrd, cmdLen, hdr,
                 bootParams, bp, initrdAt, entry, map0, hdr0, hideOk>>
(***************************************************************************)
(* expand_linux_image, with setup_boot_params.  The checks of the code, in *)
(* its order; the first that holds makes the function return false, and   *)
(* what was written before it stays written:                              *)
(*   setup_sects defaulted          before "sectors", "magic", "loadhigh" *)
(*   boot_params allocated, cmd_line_ptr set          before "version"    *)
(*   type_of_loader and loadflags written    before "ram" .. "overlap"    *)
(*   initrd copied, ramdisk_*, code32_start set       before "cmdline"    *)
(*   command line copied, setup header copied         before "memmap"     *)
(***************************************************************************)
Reasons == <<"size", "sectors", "magic", "loadhigh", "alloc", "version",
             "ram", "relocatable", "overlap", "cmdline", "memmap">>

FirstHolding(checks) ==
  IF \E i \in DOMAIN checks : checks[i]
    THEN Min({i \in DOMAIN checks : checks[i]})
    ELSE Len(checks) + 1

\* setup_sects, set to DEFAULT_SECTOR_NUM when the header says 0.
SetupSects(h) == IF h.setup_sects = 0 THEN DEFAULT_SECTOR_NUM ELSE h.setup_sects

\* The allocate_memory request: boot_params followed by the command line.
BootParamsBytes(h) == BOOT_PARAMS_SIZE + h.cmdline_size

\* cmd_line_ptr: the command line goes right after boot_params.
CmdLinePtr(bpAddr) == (bpAddr + BOOT_PARAMS_SIZE) % W

\* prot_size of a 2.10+ header: init_size rounded up to 4 KiB.
ProtSize(h) == PageAlign(h.init_size)

\* Mutant of InitrdBase: the initrd goes to the bottom of the record.
InitrdBaseAtRecordBase(ram, size, h) ==
  LET top == PageAlign(ram.base) IN
  IF (top + size) % W > h.initrd_addr_max
    THEN PageFloor((h.initrd_addr_max - size) % W)
    ELSE top

(***************************************************************************)
(* initrd_base: the top of the RAM record get_highest_sized_ram chose,     *)
(* page-aligned down; if the initrd would then end above initrd_addr_max,  *)
(* initrd_addr_max - size, page-aligned down, without a second check.      *)
(***************************************************************************)
InitrdBase(ram, size, h) ==
  LET top == PageFloor((ram.base + ram.size - size) % W) IN
  IF (top + size) % W > h.initrd_addr_max
    THEN PageFloor((h.initrd_addr_max - size) % W)
    ELSE top

\* protected_mode_base of a relocatable kernel: the image, in place, after
\* its real-mode part.
ProtectedModeBase(k, ss) == (k.base + RealModeSize(ss)) % W

\* The overlap test: protected-mode code, rounded up, ends above initrd_base.
InitrdOverlapsKernel(pmBase, prot, ib) == (pmBase + PageAlign(prot)) % W > ib

\* type_of_loader = GRUB_LINUX_BOOT_LOADER_TYPE, FLAG_CAN_USE_HEAP cleared.
SetLoaderFields(h) == [h EXCEPT !.loader_set = TRUE]

\* ramdisk_image, ramdisk_size and code32_start (vid_mode is a constant).
SetRamdiskFields(h, ib, size, pmBase) ==
  [h EXCEPT !.ramdisk_image = ib, !.ramdisk_size = size, !.code32_start = pmBase]

\* The strlen of the command line against cmdline_size.
CmdlineTooLong(len, h) == len > h.cmdline_size

(***************************************************************************)
(* setup_boot_params: the setup header is copied first; with MBI_MEMMAP    *)
(* the map follows, else it returns false with e820_entries still 0.      *)
(***************************************************************************)
SetupBootParams(h, m, mm) ==
  [setup |-> h, e820 |-> IF mm THEN BootE820(m) ELSE <<>>]

ExpandLinuxImage ==
  LET ss == SetupSects(hdr)
      allocOk == (heapCurrent + BootParamsBytes(hdr)) % W <= heapTops
      prot == ProtSize(hdr)
      ram == GetHighestSizedRam(map, initrd.size, MEM_LIMIT)
      initrdBase == InitrdBase(ram, initrd.size, hdr)
      pmBase == ProtectedModeBase(kernel, ss)
      s == FirstHolding(<<kernel.size = 0 \/ kernel.size < HDR_SIZE,
                          ss > MAX_SECTOR_NUM, ~hdr.magic, ~hdr.load_high,
                          ~allocOk, ~hdr.version_ok,
                          ram.base = 0 \/ ram.size = 0, ~hdr.relocatable,
                          InitrdOverlapsKernel(pmBase, prot, initrdBase),
                          CmdlineTooLong(cmdLen, hdr), ~memmap>>)
      h1 == [hdr EXCEPT !.setup_sects = ss]
      h2 == [h1 EXCEPT !.cmd_line_ptr = CmdLinePtr(heapCurrent)]
      h3 == SetLoaderFields(h2)
      h4 == SetRamdiskFields(h3, initrdBase, initrd.size, pmBase)
  IN /\ pc = "expand"
     /\ hdr' = IF s = 1 THEN hdr ELSE IF s <= 5 THEN h1 ELSE IF s = 6 THEN h2
               ELSE IF s <= 9 THEN h3 ELSE h4
     /\ IF s >= 5 THEN AllocateMemory(BootParamsBytes(hdr)) ELSE UNCHANGED heapVars
     /\ bootParams' = IF s >= 6 THEN heapCurrent ELSE NULL
     /\ initrdAt' = IF s >= 10 THEN initrdBase ELSE NULL
     /\ bp' = IF s >= 11 THEN SetupBootParams(h4, map, memmap) ELSE bp
     /\ entry' = IF s = 12 THEN h4.code32_start ELSE NULL
     /\ pc' = IF s = 12 THEN "jump" ELSE "halted"
     /\ fail' = IF s = 12 THEN "none" ELSE Reasons[s]
     /\ UNCHANGED <<map, memmap, mods, kernel, initrd, cmdLen, map0, hdr0, hideOk>>

\* jump_linux_image: load the flat GDT and jump to the kernel.
JumpLinuxImage ==
  /\ pc = "jump"
  /\ pc' = "kernel"
  /\ UNCHANGED <<heapVars, map, memmap, mods, kernel, initrd, cmdLen, hdr,
                 bootParams, bp, initrdAt, entry, fail, map0, hdr0, hideOk>>

Next ==
  \/ LoadPrimaryGuestKernel \/ LaunchLinuxKernel
  \/ ExpandLinuxImage \/ JumpLinuxImage

Spec == Init /\ [][Next]_vars

-----------------------------------------------------------------------------
Span(a, n) == {x \in 0..(W - 1) : a <= x /\ x < a + n}
HiddenSpan == Span(HideBase, HideSize)
InRecord(e, a, n) == e.addr <= a /\ a + n <= e.addr + e.len

TypeOK ==
  /\ pc \in {"hide", "launch", "expand", "jump", "kernel", "halted"}
  /\ HeapTypeOK
  /\ {bootParams, initrdAt, entry} \subseteq 0..(W - 1)
  /\ fail \in {"none", "modules"} \cup {Reasons[i] : i \in DOMAIN Reasons}
  /\ hdr.cmd_line_ptr \in 0..(W - 1)
  /\ hdr.ramdisk_image \in 0..(W - 1)
  /\ hdr.code32_start \in 0..(W - 1)

(***************************************************************************)
(* When the kernel is entered, no address of the monitor and startap      *)
(* (STARTAP_BASE .. + STARTAP_SIZE + XMON_SIZE) is AVAILABLE in the e820   *)
(* map of boot_params: load_primary_guest_kernel must have hidden it       *)
(* before setup_boot_params copies the map.                                *)
(***************************************************************************)
MonitorHiddenAtJump ==
  pc = "kernel" =>
    \A i \in DOMAIN bp.e820 :
      bp.e820[i].type = AVAILABLE =>
        Span(bp.e820[i].addr, bp.e820[i].len) \cap HiddenSpan = {}

(***************************************************************************)
(* The initrd expand_linux_image copies lies inside one AVAILABLE record  *)
(* of the map the kernel gets, and overlaps neither boot_params with the   *)
(* command line, nor the protected-mode kernel, nor the monitor.           *)
(***************************************************************************)
InitrdInFreeRam ==
  pc = "kernel" =>
    LET r == Span(initrdAt, initrd.size) IN
    /\ \E i \in DOMAIN bp.e820 :
         bp.e820[i].type = AVAILABLE /\ InRecord(bp.e820[i], initrdAt, initrd.size)
    /\ r \cap Span(bootParams, BOOT_PARAMS_SIZE + hdr.cmdline_size) = {}
    /\ r \cap Span(entry, PageAlign(hdr.init_size)) = {}
    /\ r \cap HiddenSpan = {}

(***************************************************************************)
(* The initrd of an entered kernel is at the highest 4 KiB-aligned address *)
(* below the 4 GiB ceiling at which it fits inside an AVAILABLE record of  *)
(* the map and ends by initrd_addr_max (spec 8): get_highest_sized_ram     *)
(* and the placement in expand_linux_image together find no higher one.   *)
(***************************************************************************)
InitrdFitsAt(a) ==
  /\ a + initrd.size <= hdr.initrd_addr_max
  /\ a + initrd.size <= MEM_LIMIT
  /\ \E i \in DOMAIN bp.e820 :
       bp.e820[i].type = AVAILABLE /\ InRecord(bp.e820[i], a, initrd.size)

InitrdPlacedHighest ==
  pc = "kernel" =>
    /\ initrdAt % PAGE_SIZE = 0
    /\ ~\E a \in (initrdAt + 1)..(MEM_LIMIT - 1) :
          a % PAGE_SIZE = 0 /\ InitrdFitsAt(a)

(***************************************************************************)
(* A header with a bad magic, a bad setup_sects, no load-high flag or a    *)
(* protocol older than 2.10 is rejected before any side effect: the image  *)
(* header is unchanged and no boot_params block was allocated (spec 7(a), *)
(* 8).                                                                      *)
(***************************************************************************)
MalformedRejectedFirst ==
  fail \in {"size", "sectors", "magic", "loadhigh", "version"} =>
    hdr = hdr0 /\ bootParams = NULL

E820CopyFits == Len(bp.e820) <= E820MAX

(***************************************************************************)
(* expand_linux_image gives up for lack of RAM ("ram") only when no        *)
(* AVAILABLE record of the map below the 4 GiB mem_limit can hold the      *)
(* initrd: get_highest_sized_ram must not miss one (spec 8: "the highest   *)
(* address ... that fits within available memory").                        *)
(***************************************************************************)
RamRefusedOnlyWhenNone ==
  fail = "ram" =>
    ~\E i \in DOMAIN map :
       /\ map[i].type = AVAILABLE
       /\ map[i].addr + map[i].len <= MEM_LIMIT
       /\ map[i].len >= initrd.size

(***************************************************************************)
(* The command line copied after boot_params is NUL-terminated inside the  *)
(* cmdline_size bytes allocated for it.                                    *)
(***************************************************************************)
CmdlineTerminated == pc = "kernel" => cmdLen < hdr.cmdline_size
=============================================================================
