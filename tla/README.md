# TLA+ models of the ikgt-loader boot path

These modules model the pre-OS loader of the repository (`src/`) for the TLC
model checker. Each module is translated from the C source; `PROJECT.json`
maps every definition to the lines it stands for.

## 1. The system

The loader runs once, on one boot CPU (the BSP), before any OS.

| Part | Source | What it does |
|---|---|---|
| Starter and staged image loader | `pre_os/starter/starter_main.c`, `run_xmon_loader.c`, `xmon_loader/xmon_loader.c` | Saves the CPU state, checks VMX, relocates the loader, sets up the heap, builds the memory map, validates and loads the monitor and the startap images, allocates two stack pages per AP and calls startap. Every failure returns to the starter, which scrubs its region. |
| Layout calculator | `pre_os/starter/xmon_desc.h` | Macros for the base and size of every region: loader, heap, startap, monitor. |
| Loader heap | `xmon_loader/utils/memory/memory.c` | A bump allocator (`allocate_memory`, `mon_page_alloc`) over a fixed range. It never frees. |
| Memory map builder | `xmon_loader/e820.c` | Copies the firmware memory map (multiboot, EFI or SFI) into a page. `hide_runtime_memory` rewrites it so the monitor's memory is RESERVED. |
| MP bring-up | `startap/ap_procs_init.c` | The BSP sends INIT and two SIPIs. Each AP runs a trampoline, marks itself in `ap_presence_array` and increments `g_aps_counter`. The BSP waits for a fixed time and then ranks the present APs (`bsp_enumerate_aps`). `ap_procs_run` publishes a continuation and opens the gate (`mp_bootstrap_state`). Each AP increments `g_ready_counter` and calls the continuation. The BSP spins until `g_ready_counter == g_aps_counter`. |
| Linux expander and primary guest | `xmon_loader/linux_loader.c`, `primary_guest.c` | Hides the monitor from the map, validates the bzImage setup header, lays out `boot_params`, the command line, the kernel and the initrd, then jumps to the kernel. |
| CPU state capture | `starter_main.c` | Saves the BSP's control registers, MSRs and the six segment registers (decoded from the GDT the multiboot loader left) into the startup state the monitor reads; checks that VMX is available and not locked off. |

The interactions are:
- **Heap.** The memory map builder, the AP stack allocation and the Linux expander all allocate from the one heap.
- **Hide range.** `hide_runtime_memory` is given a range computed by the layout macros.
- **init32.** `xmon_loader` hands startap `init32`: the low-memory page 0x8000 and one stack per AP it counted with CPUID (or no `init32` at all when it counted none). `ap_procs_startup` gets that `init32`, and each AP of rank r runs on `i32_esp[r-1]`.
- **MP bring-up.** It is the only concurrent part: the BSP and the APs share the globals above, and the APs run assembly that lives outside `src/`.

## 2. Modules

| Module | Models | State | Actions |
|---|---|---|---|
| `ApProcsInit` | `ap_procs_startup`, `ap_intialize_environment`, the INIT/SIPI sequence (broadcast pre-OS, targeted post-OS), `bsp_enumerate_aps`, `ap_procs_run`, `ap_continue_wakeup_code_C`, and the AP trampoline (from the spec) | `bsp` (the BSP's point in the code), `cycle`, `sipis`, `mpState`, `apsCounter`, `ready`, `userFunc`, `presence` (`ap_presence_array`), `ap` (each AP's point), `stack` (the presence value an AP took its stack from), `woke` (history: the APs that answered in this cycle), `enumSlot` and `apNum` (the loop index `i` and `ap_num` of `bsp_enumerate_aps`) | `Startup`, `StartupNullPage`, `SendInit`, `SendSipi`, `StallEnd`, `EnumerateSlot` (one iteration of the loop of `bsp_enumerate_aps`), `StoreApsCounter` (`g_aps_counter = ap_num`), `Run`, `RunReturn`; per AP: `Sipi` (enters the trampoline page), `Wake`, `Gate`, `ApContinueWakeupCodeC` (the `lock inc` of `g_ready_counter`), `CallUserFunc` (the load of `g_user_func` and the call), `ContinuationReturn` |
| `MPBarrier` | What startup/run promises the caller, without IPIs or counters: the processors that join a cycle are fixed once startup returns; run releases exactly them, each enters the continuation once, and run returns when all have | `phase`, `members`, `called` | `Startup`, `Join`, `Enumerate`, `Release`, `Call`, `Return` |
| `MC_ApProcsInit` | Which APs answer in which cycle | | |
| `MPBoot` | The composition: `LoaderChain` (as the instance `L`) runs to `call_startap_entry`, then the `ApProcsInit` bring-up runs with the `init32` the loader built. It extends `ApProcsInit`. | the variables of both | `LoaderStep` (`L!Next`), `StartapStartup` (`ap_procs_startup` with `Init32Page`: page 0 when `num_of_aps` is 0), `StartapStep` (every other bring-up action) |
| `MC_MPBoot` | One machine: a boot package, a multiboot map, a flat GDT, CPUID counts, and the APs of `MC_ApProcsInit` | | |
| `StartapStall` | `startap_calibrate_tsc_ticks_per_msec` and `startap_stall_using_tsc`, run for the BSP's sequence of stalls (10 ms, 200 ms, 200 ms, the enumeration wait) | `tsc` (the truncated counter), `now` (real time), `pc`, `k` (which stall), `tpm` (`startap_tsc_ticks_per_msec`), `start`, `end`, `began`, `elapsed` (history) | `StallEntry`, `Calibrate`, `Loop1Iterate`, `Loop1Exit`, `Loop2Iterate`, `StallReturn` |
| `Heap` | `initialize_memory_manager`, `allocate_memory`, `mon_page_alloc` as operators other modules compose | `heapBase`, `heapCurrent`, `heapTops`, `ret`, `blocks` (history of blocks handed out) | |
| `Allocator` | What the heap promises its callers (spec §7): once the arena is set, a call returns NULL or a new block inside the arena that overlaps no earlier block; nothing is freed | `arena`, `owned`, `result` | `Setup`, `Refuse`, `Grant` |
| `HeapClient` | The heap under any sequence of calls: one initialisation, then up to `MaxCalls` allocations | `started`, `calls` | `Start`, `Call` |
| `E820` | `hide_runtime_memory`, the whole call as one atomic step (single-threaded code). The loop is a `FoldLeft` of `HideStep` over the records. | `mbiMap`, `mbiMemmap`, `heapFree`, `hideAddr`, `hideSize`, `status`, `written`, `capacity`, `origMap` (history) | `HideRuntimeMemory` |
| `MC_E820` | Enumerates firmware maps of up to three records, with or without holes, and one map of overlapping records | | |
| `GuestBoot` | `load_primary_guest_kernel`, `launch_linux_kernel`, `expand_linux_image` with `get_highest_sized_ram` and `setup_boot_params`, `jump_linux_image`. It extends `Heap` and takes the hide walk from `E820` by `INSTANCE`. | `pc`, `map`, `memmap`, `mods`, `kernel`, `initrd`, `cmdLen`, `hdr` (the image's setup header, which the code writes in place), `bootParams`, `bp` (what `boot_params` holds), `initrdAt`, `entry`, `fail`, `hideOk`, and the histories `map0`, `hdr0` | `LoadPrimaryGuestKernel`, `LaunchLinuxKernel`, `ExpandLinuxImage`, `JumpLinuxImage` |
| `MC_GuestBoot` | The firmware maps, setup headers and modules of a GRUB boot | | |
| `CpuState` | `save_cpu_state`, `save_segment_data`, `validate_descriptor`, `check_vmx_support` as operators of a machine record (GDTR limit, GDT memory, selectors, LDTR, CPUID.1 ECX, `IA32_FEATURE_CONTROL`), with reference definitions of the descriptor format | | |
| `Layout` | Every macro of `xmon_desc.h`, and the range the error path of `starter_main` clears, as operators of a descriptor | | |
| `LoaderChain` | `starter_main`, `run_xmon_loader`, `xmon_loader` and the three e820 builders (`get_e820_table_from_multiboot`, `copy_e820_table_from_efi`, `get_e820_table_from_sfi` with `find_sfi_table`), step by step on the BSP. It extends `Heap`, `Layout` and `CpuState`. | `pc`, `desc` (the descriptor `td`), `mbi`, `cpu` (the BSP as the multiboot loader leaves it), `startup` (the segment entries of the startup state), `cpus`, `sfi` (the machine), `source` (the builder `get_e820_table` is `#define`d to), `e820`, `e820Count`, `vmem` (the monitor's memory layout of `setup_env`), `numAps`, `esp` (`init32.i32_esp`), `scrub` | `StarterMain`, `RunXmonLoader`, `XmonLoaderInit`, `GetE820TableFromMultiboot`, `CopyE820TableFromEfi`, `GetE820TableFromSfi`, `LoadXmon`, `LoadStartap`, `SetupEnv`, `AllocApStack`, `CallStartapEntry`, `StarterError` |
| `MC_LoaderChain` | Descriptors at 16 MiB and at 1 MiB + 1 KiB, multiboot blocks, SFI tables, three machines (GDTs and MSRs) | | |

### Modelling choices

**`ApProcsInit`**
- Timing is abstracted. The fixed stall before enumeration is a per-cycle set `RespondIn[c]`: the APs whose trampoline reaches the presence write before the BSP enumerates.
- `LateAps` are APs that answer only after enumeration. The code has no mechanism to exclude them.
- `ContinuationReturns` says whether the continuation passed to `ap_procs_run` returns. The header says it may.
- Each AP's stack is the one selected by its presence value, as the trampoline does. `stack[a]` records that value, so two APs on the same stack have equal `stack`.
- `PostOsLaunch` selects the targeted path: INIT and SIPIs go only to `BootAps` (`cpu_local_apic_ids[1..]`), and the other APs are left alone. The mode is a constant because it comes from `p_startup->flags`, which the loader fixes for the whole boot.
- The ICR write and the polling of its delivery status are taken as one step of `SendInit`/`SendSipi`.
- Steps are as fine as the shared state needs. Each iteration of the loop of `bsp_enumerate_aps` is a step, and the store `g_aps_counter = ap_num` after it is another, so an AP may mark its slot or bump `g_aps_counter` between any two of them. In `ap_continue_wakeup_code_C` the `lock inc` of `g_ready_counter` and the load of `g_user_func` for the call are separate steps. `ap_procs_run` stores `g_user_func` and opens the gate in one step, in program order.
- An AP executes `ap_start_up_code` in the low-memory page from its SIPI (`Sipi`) until it has jumped to `ap_continue_wakeup_code` and marked itself present (`Wake`). The code says the page is free once `ap_procs_startup` returns.
- The refinement mapping onto `MPBarrier`: the caller's phase is the BSP's program point (`init`, `sipi`, `stall` and `enum` are `starting`; a failed startup leaves the phase where it was), the members are `woke`, and a member has called once it has done its `lock inc` (`call` or `cont`).
- `MaxCycles` bounds how many times `ap_procs_startup` runs. `MaxReady` bounds the ready counter.

**`MPBoot`**
- `LoaderChain` is a named instance, so its `NULL` (the heap's 0) does not clash with `ApProcsInit`'s `NULL` continuation. Each component's step leaves the other's variables unchanged.
- The startap image that calls `ap_procs_startup` and `ap_procs_run` is outside `src/`. The model assumes only that it passes `init32` on unchanged; `StartapStartup` is marked spec-modelled in the map.
- The APs stay in wait-for-SIPI until the loader is done, so the loader part needs no fairness.

**`Heap` and `Allocator`**
- `Heap` refines `Allocator` under the mapping arena = [`heap_base`, `heap_tops`), owned = `blocks`, result = `ret`. `initialize_memory_manager` is `Setup`, a NULL return is `Refuse`, and every successful `allocate_memory` or `mon_page_alloc` is `Grant`. Every other step of a composing module is a stutter.
- `Allocator` has no fairness: a caller may stop calling.

**`StartapStall`**
- The counter is kept modulo `W` (a scaled 2^32), as the code keeps `(uint32_t)rdtsc()`. Beside it, `now` counts real ticks, so a stall's real length can be compared with what was asked.
- Each read of the counter advances it by a step from `Steps`. A step larger than 1 stands for the gap between two `rdtsc` instructions.
- `MsTicks` is the real number of ticks in `startap_stall(1000)`; `UsecPerMs` stands for the divisor 1000.

**`Heap`**
- The three words are uint32 in the code, so every sum is taken modulo `W`.
- `zero_mem` only writes contents, which no model tracks.

**`E820`**
- The uint64 record fields are reduced modulo `W64` and the uint32 hide arguments modulo `W32`, so wraparound happens at small values.
- `written` counts the records the walk stored (failed walks included) and `capacity` is `num_of_entries`. The buffer bound is therefore part of `TypeOK`.

**`GuestBoot`**
- One unit is one 512-byte sector. `W` = 128 stands for 4 GiB, which is also `mem_limit`. `MapW` stands for the uint64 range of the map fields, so a record can lie above 4 GiB.
- `expand_linux_image` is one step, because nothing runs concurrently with it. Each computation it makes is an operator of its own, named after what the code computes (`SetupSects`, `BootParamsBytes`, `CmdLinePtr`, `ProtSize`, `InitrdBase`, `ProtectedModeBase`, `InitrdOverlapsKernel`, `SetLoaderFields`, `SetRamdiskFields`, `CmdlineTooLong`, `SetupBootParams`). `FirstHolding` picks the first of its checks, in code order, that makes it return false. The step then applies every write the code makes before that return: the defaulted `setup_sects`, the `boot_params` allocation, `cmd_line_ptr`, the loader fields, the initrd fields and the `boot_params` copy.
- Only the placement of objects is modelled, not their bytes. The initrd copy is `initrdAt`, the command-line copy is `cmdLen` against `cmdline_size`, and the e820 copy is `bp.e820`.
- `load_primary_guest_kernel` calls `hide_runtime_memory` and ignores its result. The model records the result in `hideOk` but never reads it.
- The heap starts where `xmon_loader` left it (`HeapCurrents`).

**`CpuState`**
- A descriptor holds the fields the code reads, with the base and limit split as in memory; two ghost fields keep the base and limit it encodes, for the reference definitions. The GDT memory is a function from index to descriptor and may extend past the GDTR limit, as memory does.
- The registers `save_cpu_state` copies without inspecting (CR0-CR4, the MSRs, GDTR/IDTR) and the TR limit are not modelled; the segment entries, the LDTR and TR attributes are.
- Bases stay below 2 GiB and granular limits below 0x80000, so every value fits TLC's integers; multiboot entry requires base-0 segments, so larger bases are reachable only through a selector past the GDT bound (`MC_LoaderChain_gdt.cfg`).

**`Layout`**
- Addresses are uint32 in units of 256 bytes, and `W32` = 2^24 units is 4 GiB. This is exact, not a scaling: `td` is `(eip1 & 0xffffff00) - 0x400`, a multiple of 256, and every constant of the macros is a multiple of 256 too. The `& 0xfffff000` rounding becomes a rounding to 16 units.

**`LoaderChain`**
- Each step of the chain is one action, in code order. A failing return is a disjunct that goes to the `error` label of `starter_main`: `xmon_loader` returning makes `run_xmon_loader` return -1, and `starter_main` falls into the label either way.
- `get_image_info` and `load_image` are outside `src/`. Each call succeeds or fails nondeterministically.
- The machine is fixed in `Init`: the multiboot block, the CPU (its GDT, selectors and the two VMX registers, from which `StarterMain` computes `save_cpu_state` and `check_vmx_support`) and the CPUID logical-processor count.
- `get_e820_table` is a macro; the build sets it to the multiboot builder. The other two builders are the same call in other builds, so the model takes the builder as a constant choice (`source`).
- The SFI tables are placed by a record: where SYST is, which of its pointer slots points to MMAP, and the two `len` fields. `FindSfiTable` scans exactly the addresses the loop does (`start + k * step <= end`); the uint32 wrap of `addr` is not represented, since neither search ends near 4 GiB. `size` is `len - 24` as a uint32: a `len` below 24 wraps, and `SfiDscCount` divides the wrapped value.
- `sizeof(sfi_mem_dsc_t)` is taken as 36, its size on i386, where uint64 fields are 4-aligned.
- The multiboot map has records of one `size` field. The walk is the number of iterations of its loop, `MmapEntries`. The record contents are not modelled, only how many entries land in the page.
- `startup` is the startup state at `GUEST1_BASE`: the six segment entries, the LDTR/TR attributes, and the three general registers the boot path reads or rewrites: RIP, RCX and RBX (the multiboot info pointer). `starter_main` saves its entry frame there (`EntryRegisters`); `setup_primary_guest_env` later points RIP at `primary_guest_entry` and puts `td` in RCX. The gdt/paging setup only writes memory contents and is left out. `setup_env` is modelled by the layout it hands to the monitor.
- The heap is the one of `Heap`, at the real scale: 160 pages of 16 units.

## 3. Runs

| Run | Cfg | Expect | What it shows |
|---|---|---|---|
| `mp_bringup` | `MC_MPBoot.cfg` | pass | The loader chain runs first, with CPUID counting 0 or 4 logical processors; then 4 APs over 3 cycles, AP 3 never answers, non-returning continuation. `StacksAllocated`: every AP past the gate runs on one of the `i32_esp` stacks the loader filled. `EnumerationExact` (the presence array numbers exactly the APs that woke, 1..N in slot order, and `g_aps_counter` = N), `StacksExclusive`, `RunWaitsForAll` (when `ap_procs_run` returns every numbered AP has done its `lock inc`), `RunReturns`, and `BarrierRefined`: the protocol implements `MPBarrier`, with its fairness. |
| `mp_returning_safety` | `_returning.cfg` | pass | `StacksExclusive` with a returning continuation: APs that re-enter the still-open gate within one cycle take their own stacks again. |
| `mp_late_hang` | `_latelive.cfg` | violation | `RunReturns`, in one post-OS cycle with late APs 3 and 4: AP 4 marks its slot after the enumeration loop has passed it and bumps `g_aps_counter` (4); the store `g_aps_counter = ap_num` (ap_procs_init.c:591) overwrites it with 3. AP 4 still passes the gate on presence 1 and does its `lock inc`, `g_ready_counter` goes 3 → 4 past the count, and the BSP's `!=` wait spins forever. |
| `mp_stale` | `_stale.cfg` | violation | `RunReturns`: a stale `ap_presence_array` entry from cycle 1 is counted in cycle 2, and the BSP spins forever. |
| `stall_slow_tsc` | `MC_StartapStall.cfg` | pass | With a TSC slow enough that `stall_usec * ticks_per_msec` fits in 32 bits, no stall is shorter than asked, and `StallsReturn`: from every initial counter value, both loops of every stall end and the BSP reaches the enumeration. |
| `stall_overflow` | `_overflow.cfg` | violation | `StallNotShort`: with a faster TSC the uint32 product wraps (ap_procs_init.c:366) and the 200 ms stalls end early. On a real CPU, 200000 µs times a few million ticks per ms always wraps. |
| `e820_hide` | `MC_E820.cfg` | pass | On gap-free maps, `HidePreservesMap` and `HideSucceedsWhenContained` hold, and `HideWithinArray`: the walk, successful or failing half way, never writes past the n+2 records it allocated. |
| `loader_chain` | `MC_LoaderChain.cfg` | pass | Along every failure path of the chain and for machines with 0, 3, 79 and 80 APs: `LoaderRegionsOrdered` (the regions follow one another, the loader is 4 KiB aligned, and the monitor's region ends at the end of the reservation), `StacksOwned` (every AP stack handed to startap is its own two heap pages below startap, apart from the e820 page), and `E820PageFits` (the 4096-byte bound on the multiboot map keeps the copy inside its page). 79 APs fit exactly; with 80, `mon_page_alloc` returns NULL and the chain ends in the error path. `HeapRefined`: every heap call the chain makes (the e820 page, whichever builder takes it, and the two pages of each AP stack) is a step of `Allocator`, so no two of these blocks overlap and all lie in the loader heap. `CpuStateCaptured`: for a flat GDT, a GDT with a null, an LDT, a TSS, a 16-bit code and a far-out selector, and a machine with a non-null LDTR, every segment entry is the descriptor decoded by the IA-32 format or zero. |
| `loader_scrub` | `MC_LoaderChain_scrub.cfg` | violation | `ScrubWithinLoader`: the memset of the error path ends at `td + STARTAP_BASE(td)`, `td` bytes past the loader heap, because `XMON_LOADER_HEAP_BASE(td)` already includes `td` (starter_main.c:331). |
| `guest_boot` | `MC_GuestBoot.cfg` | pass | For every combination of header flags, the two heap fillings, missing modules, a record above 4 GiB and a record too small for the initrd: an entered kernel sees the monitor reserved, an initrd inside free RAM, and an entry point and `boot_params` that match the image. Every heap block it takes lies inside the heap (`BlocksInHeap`). `RamRefusedOnlyWhenNone`: the expander gives up for lack of RAM only when no AVAILABLE record below 4 GiB can hold the initrd; a map whose RAM ends exactly at 4 GiB is the boundary case of the scan's stop test. `InitrdPlacedHighest` (spec §8): the initrd of an entered kernel is at the highest 4 KiB-aligned address below 4 GiB and `initrd_addr_max` at which it fits in an AVAILABLE record, so the record chosen by the scan and the placement at its top are the best there is. |
| `guest_hide_ignored` | `_hide.cfg` | violation | `MonitorHiddenAtJump`: a firmware record boundary inside the monitor range makes the hide fail. The failure is ignored and Linux gets the monitor as AVAILABLE RAM. |
| `guest_initrd_fallback` | `_fallback.cfg` | violation | `InitrdInFreeRam`: with `initrd_addr_max` below the chosen range, the initrd goes to `initrd_addr_max - size` unchecked, on top of the monitor. |

Every other property a module states has a counterexample configuration beside the runs above. Each reproduces a disagreement between the code and what it should do:

| Cfg | Property | What TLC shows |
|---|---|---|
| `MC_MPBoot_sockets.cfg` | `StacksAllocated` | On two packages CPUID counts only the BSP's package (2), so the loader fills one stack (xmon_loader.c:161), while three APs answer: ranks 2 and 3 run on `i32_esp` entries nobody wrote. |
| `MC_ApProcsInit_late.cfg` | `StacksExclusive` | A late AP writes presence 1 and shares the stack of rank 1. With `BarrierRefined` in the cfg, the same late AP joins a cycle whose members are fixed, after running the trampoline page that `ap_procs_startup` declared free. |
| `MC_ApProcsInit_hang.cfg` | `RunReturns` | A returning continuation passes the still-open gate again, and the ready counter overshoots. |
| `MC_ApProcsInit_null.cfg` | `ContinuationNeverNull` | Non-returning continuation, two cycles. The last AP's `lock inc` lets `ap_procs_run` return; the caller's next `ap_procs_startup` zeroes `g_user_func` (ap_procs_init.c:648) before that AP loads it (:294), and the AP calls NULL. Every run slot holds another finding, so this one is kept as a configuration. |
| `MC_StartapStall_wrap.cfg` | `StallNotLong` | A read gap that steps over `end_tsc` near the wrap leaves the delay loop spinning for a whole counter period. |
| `MC_E820_holes.cfg` | `HidePreservesMap` | A range starting in a hole wraps the prefix length. |
| `MC_E820_empty.cfg` | `NoEmptyEntries` | A zero-length prefix record is written. |
| `MC_E820_overlap.cfg` | `HideWithinArray` | Two overlapping AVAILABLE records both contain the range; each is split into three, six records go into an array of four (e820.c:226). Multiboot does not promise non-overlapping records. |
| `MC_Heap_wrap.cfg` | `BlocksInHeap` | A request that wraps `heap_current + size_request` passes the check (`HeapClient`; `MC_Heap.cfg` is the same heap with requests that do not wrap, and passes). |
| `MC_GuestBoot_malformed.cfg` | `MalformedRejectedFirst` | A bad magic is rejected after `setup_sects` was rewritten in the image, and an old protocol after `boot_params` was allocated (spec §7(a), §8). |
| `MC_LoaderChain_xmonsize.cfg` | `LoaderRegionsOrdered` | With `xmon_mem_in_mb` = 0, `XMON_SIZE` wraps to almost 4 GiB (xmon_desc.h:88) and `setup_env` gives the monitor that size. The spec leaves the descriptor to its producer. |
| `MC_LoaderChain_sfi.cfg` | `E820PageFits` | `get_e820_table_from_sfi` copies 171 descriptors, or about 119 million after a `len` below the header size wraps `size` (e820.c:186), into one page. |
| `MC_LoaderChain_memmap.cfg` | `E820FromMemmap` | A multiboot block with `MBI_MEMLIMITS` and without `MBI_MEMMAP` passes the `flags & 3` test (e820.c:60), and the table is built from whatever `mmap_length` holds. |
| `MC_LoaderChain_gdt.cfg` | `CpuStateCaptured` | DS selects index 5 of a GDT whose limit covers four descriptors. `save_segment_data` compares `index / 8` (0) with the last index (3), reads the descriptor past the limit and saves it (starter_main.c:165). |
| `MC_GuestBoot_unsorted.cfg` | `RamRefusedOnlyWhenNone` | A map listing RAM above 4 GiB first: `get_highest_sized_ram` stops at that record (linux_loader.c:68) before it sees the 32-bit RAM, and the boot ends in "ram". Multiboot does not promise a sorted map. |
| `MC_GuestBoot_e820.cfg` | `E820CopyFits` | The hidden map is copied into `boot_params.e820_map` with no bound (scaled `E820MAX` 4 for 128). |
| `MC_GuestBoot_cmdline.cfg` | `CmdlineTerminated` | A command line of exactly `cmdline_size` characters leaves its NUL outside the allocated block. |

Run any of them with `tlc -config <cfg> <MC module>`.

### Bounds

- **`ApProcsInit`.**
  - 5 CPU slots (4 APs) let a responding AP, a silent AP and a late AP coexist with two ranked APs. The post-OS run adds a sixth slot for an AP that is not targeted.
  - 3 cycles make presence stale across more than one restart.
  - `MaxReady` = `Aps` + 2 lets the counter overshoot.
- **`MPBoot`.** One descriptor, one multiboot map and the flat GDT, so the loader runs its success path; CPUID counts 0 (no `init32`: `ap_procs_startup` fails) and 4 (three stacks for the three answering APs). The bring-up bounds are those of `ApProcsInit`.
- **`StartapStall`.**
  - `W` = 64 and `UsecPerMs` = 4. The four stalls of a startup, at 2, 8, 8 and 6 units of time, run over every initial counter value 0..63, so every stall starts at every distance from the wrap.
  - `MsTicks` = 3 keeps the products below `W`. The overflow run uses 9, which makes the 8-unit stalls wrap.
  - `MaxNow` = 512 bounds real time in the guards of every counter read. The runs of `stall_slow_tsc` never pass 256, so the bound cuts nothing there; a stall that never returns instead reaches it and stops, which `StallsReturn` reports.
- **`Heap`** (`HeapClient` cfgs).
  - A heap of 40 units at base 5 (unaligned) or 8 (aligned), with `W` = 128 and `PAGE_SIZE` = 4.
  - Requests of 3, 4 and 41 units (the last never fits) and of 1 or 2 pages, up to 4 calls. These reach alignment padding, exact fits and refusals.
- **`E820`.**
  - Up to three records of length 1..3, with `W64` = 32 and `W32` = 16.
  - Hide ranges start at 0..9 with size 1..3.
  - These bounds cover every relative position of a range and a record: before, at the start, inside, at the end, crossing, and across two records or a hole.
- **`GuestBoot`.**
  - Four maps in the pass run: a plain one, one whose highest AVAILABLE record is too small for the initrd, one with RAM above 4 GiB, and one whose RAM ends exactly at 4 GiB (the `>` of the scan's stop test).
  - Headers: `setup_sects` 0 (defaulted), 2 or 9 (too many); every combination of the four flags; `cmdline_size` 4 or 8; `initrd_addr_max` above RAM or inside it; `init_size` 8 or 64 (large enough to reach the initrd).
  - Two heap fillings, of which the larger makes the `boot_params` allocation fail; an empty kernel module; one or two modules.

- **`LoaderChain`.**
  - Two descriptors whose startup states end off a 4 KiB boundary, so the rounding of `XMON_LOADER_BASE` matters. Their `td` is a multiple of 4 KiB in one and not in the other.
  - Multiboot maps of 4 records, of 170 records (4080 bytes, the most that pass the bound), and of 171 records (rejected). Also a map-only block, which `flags & 3` rejects.
  - SFI: a SYST with four pointers and an MMAP of three descriptors; no SYST; a SYST off the 16-byte grid; no MMAP pointer; an MMAP pointer past the end of SYST.
  - All three builders.
  - Three machines: a flat GDT with VMX on; a GDT whose selectors are null, LDT, TSS, 16-bit code and past even the divided bound, with no VMX; a non-null LDTR with VMX locked off. Only the first runs the rest of the chain.
  - CPUID counts 0 (clamped to no AP), 4, 80 and 81. The heap holds the e820 page and 79 two-page stacks, so 80 and 81 sit on each side of the limit.

### Fairness

- Every AP action is weakly fair: an AP that is running makes progress.
- So are the BSP steps after `Startup`: `SendInit`, `SendSipi`, `StallEnd`, `EnumerateSlot`, `StoreApsCounter` and `RunReturn`. Each of them is straight-line code on a running CPU.
- `Startup` and `Run` are not fair. They are calls the caller may never make.
- `MPBarrier` is weakly fair on `Enumerate`, `Return` and each `Call`, and on nothing the caller starts. Under the fairness above `ApProcsInit` implements it.
- `StartapStall` is one sequential thread: `WF_vars(Next)`. The BSP runs nothing else while it stalls, so it always takes its next step.
- `HeapClient`, `E820`, `GuestBoot` and `LoaderChain` state safety only and need no fairness.
- All cfgs set `CHECK_DEADLOCK FALSE`. After the last cycle, stall, call or boot step the system legitimately stops: `load_primary_guest_kernel` spins after a failure, and the kernel runs after the jump. The chain ends in startap or in the `while (1)` of `starter_main`.

## 4. Plan

Done so far:
- MP bring-up, with its refinement of `MPBarrier`, the enumeration loop step by step, and the window between an AP's `lock inc` and its load of `g_user_func`.
- The stall, with the liveness of its loops.
- The heap, with its refinement of `Allocator`.
- The layout and the CPU state capture.
- The staged loader chain with the three e820 builders, and its composition with the bring-up (`MPBoot`).
- The hide transform, with the bound of its output array.
- The primary-guest boot, whose initrd placement `InitrdPlacedHighest` checks against the highest fitting address.

What is left:
1. **The uint8 `ap_num`** at 256 slots. `MON_MAX_CPU_SUPPORTED` is defined outside `src/`, and 256 APs are out of TLC's reach as processes. A pure check of the loop (`EnumerateSlot` with `IncApNum`) over a presence array of 257 slots would show the wrap of the count and ranks. No run states it yet.

## 5. Not modelled

- **Register readers** (`__readcs` .. `__readmsr`, `__cpuid`). Each is one instruction; the models take their results as the machine record. The control registers and MSRs that `save_cpu_state` copies unread are left out.
- **`setup_low_memory_ap_code`'s patching.** The loader passes the fixed page 0x8000, for which the 16-bit segment `page >> 4` and the 8-bit SIPI vector `page >> 12` are exact; the patched bytes only matter to the assembly.
- **The content of images and the checksum-free header parsing of the monitor image.** The images are opaque to the loader beyond their sizes.
- **Compiler reordering in `ap_procs_run`.** The `asm` of `mp_set_bootstrap_state` has no `"memory"` clobber (ap_procs_init.c:654-658), so a compiler may move the store of `g_user_func` past the `lock xchg`. The model keeps program order; what a given compiler emits is not in the repository.
- **The AP trampoline's instructions.** They are assembly outside `src/`. Their effect (presence write, counter increment, gate wait, stack selection) is modelled from the spec and marked as such in the map.
- **Screen and tboot fields of `boot_params`.** Constants that no check reads.
- **The contents of the e820 table `xmon_loader` builds, and so `sfi_e820_type`.** `LoaderChain` keeps the table's page and entry count. The table is handed to the monitor, outside `src/`, and nothing in `src/` reads its entries: the guest loader works on the multiboot map. No property here could tell a wrong type translation from a right one.
- **The GDT copy of `setup_low_memory_ap_code`.** It copies the BSP's current GDT, `limit + 1` bytes, into the page behind the trampoline, and the comment assumes it fits. At that point the GDT is the one `x32_gdt64_setup` installed. That function is outside `src/`, so the limit that decides whether the copy fits is not in the repository.
