------------------------------- MODULE Layout -------------------------------
(***************************************************************************)
(* The loader memory map of src/pre_os/starter/xmon_desc.h: where the      *)
(* startup states, the xmon loader, its heap, startap and the monitor are  *)
(* placed, as functions of the load address td of the boot descriptor.    *)
(*                                                                         *)
(* Addresses are uint32 counted in units of 256 bytes.  The arithmetic is  *)
(* exact, not scaled: td = (eip1 & 0xffffff00) - 0x400 is a multiple of    *)
(* 256, and so is every constant of the macros, so each uint32 sum or      *)
(* product of bytes is 256 times the same sum or product of units taken    *)
(* modulo 2^24.                                                            *)
(*                                                                         *)
(* A descriptor d is a record: d.base is td itself, the other fields are   *)
(* the xmon_desc_t fields of the same name.                                *)
(***************************************************************************)
EXTENDS Integers

W32    == 2^24      \* 2^32 bytes
SECTOR == 2         \* 512 bytes
PAGE   == 16        \* 4 KiB
MIB    == 4096      \* 0x100000

\* A uint32 result.
U32(x) == x % W32

XMON_PKG_SIZE(d) == U32((d.guest1_start + d.guest1_count) * SECTOR)

GUEST1_BASE(d) == U32(d.base + XMON_PKG_SIZE(d))

GUEST1_SIZE == 4

\* (GUEST1_BASE + GUEST1_SIZE + 0xfff) & 0xfffff000
XMON_LOADER_BASE(d) ==
  (U32(GUEST1_BASE(d) + GUEST1_SIZE + PAGE - 1) \div PAGE) * PAGE

XMON_LOADER_SIZE == 256          \* 0x10000

XMON_LOADER_HEAP_BASE(d) == U32(XMON_LOADER_BASE(d) + XMON_LOADER_SIZE)

XMON_LOADER_HEAP_SIZE == 2560    \* 0xa0000

STARTAP_BASE(d) == U32(XMON_LOADER_HEAP_BASE(d) + XMON_LOADER_HEAP_SIZE)

STARTAP_SIZE == 48               \* 0x3000

XMON_BASE(d) == U32(STARTAP_BASE(d) + STARTAP_SIZE)

\* Mutant: the offset of XMON_BASE from td is not subtracted.
XMON_SIZE_WholeReservation(d) == U32(d.xmon_mem_in_mb * MIB)

\* xmon_mem_in_mb * 0x100000 - (XMON_BASE(td) - (uint32_t)td)
XMON_SIZE(d) == U32(d.xmon_mem_in_mb * MIB - U32(XMON_BASE(d) - d.base))

-----------------------------------------------------------------------------
(***************************************************************************)
(* The error path of starter_main clears                                   *)
(*   mon_memset(td + xmon_loader_start * 512, 0,                           *)
(*              XMON_LOADER_HEAP_BASE(td) + XMON_LOADER_HEAP_SIZE          *)
(*              - xmon_loader_start * 512)                                 *)
(* that is, a start address and a uint32 length.                          *)
(***************************************************************************)
ScrubStart(d) == U32(d.base + d.xmon_loader_start * SECTOR)

ScrubLength(d) ==
  U32(XMON_LOADER_HEAP_BASE(d) + XMON_LOADER_HEAP_SIZE
      - d.xmon_loader_start * SECTOR)
=============================================================================
