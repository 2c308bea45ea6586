---------------------------- MODULE MC_GuestBoot ----------------------------
(***************************************************************************)
(* Model-checking instances of GuestBoot.  One unit is one 512-byte       *)
(* sector; W = 128 stands for 4 GiB and MapW = 256 for the 64-bit range   *)
(* of the memory map.  The layout follows a GRUB boot: the loader heap at *)
(* [8, 24), the bzImage module at [24, 36), the initrd module at [36, 40), *)
(* the startap and monitor at [96, 112), high in the one large AVAILABLE  *)
(* range below 4 GiB.                                                      *)
(***************************************************************************)
EXTENDS GuestBoot

Ent(a, l, t) == [addr |-> a, len |-> l, type |-> t]

\* The firmware map: low reserved page, one large RAM range, reserved top.
MapPlain == << Ent(0, 8, 2), Ent(8, 112, 1), Ent(120, 8, 2) >>

\* Above a reserved range, an AVAILABLE record too small for the initrd.
MapSmallTop ==
  << Ent(0, 8, 2), Ent(8, 104, 1), Ent(112, 8, 2), Ent(120, 2, 1), Ent(122, 6, 2) >>

\* RAM above 4 GiB after the 32-bit ranges.
MapHigh == << Ent(0, 8, 2), Ent(8, 112, 1), Ent(120, 8, 2), Ent(128, 32, 1) >>

\* RAM up to exactly 4 GiB.
MapTopRam == << Ent(0, 8, 2), Ent(8, 120, 1) >>

\* RAM above 4 GiB listed before the 32-bit ranges: the firmware's order.
MapUnsorted == << Ent(128, 32, 1), Ent(0, 8, 2), Ent(8, 112, 1), Ent(120, 8, 2) >>

\* A firmware record boundary inside the monitor's range.
MapSplit == << Ent(0, 8, 2), Ent(8, 92, 1), Ent(100, 20, 1), Ent(120, 8, 2) >>

\* Setup headers: every combination of the flags the expander checks.
Hdr(ss, ok, cs, amax, isz) ==
  [setup_sects |-> ss, magic |-> ok[1], load_high |-> ok[2],
   version_ok |-> ok[3], relocatable |-> ok[4], cmdline_size |-> cs,
   initrd_addr_max |-> amax, init_size |-> isz, cmd_line_ptr |-> 0,
   loader_set |-> FALSE, ramdisk_image |-> 0, ramdisk_size |-> 0,
   code32_start |-> 0]

HeadersOf(SS, CS, AMAX, ISZ) ==
  {Hdr(ss, ok, cs, amax, isz) :
     ss \in SS, ok \in [1..4 -> BOOLEAN], cs \in CS, amax \in AMAX, isz \in ISZ}

\* Headers the expander accepts.
WellFormed(S) ==
  {h \in S : h.magic /\ h.load_high /\ h.version_ok /\ h.relocatable}

\* setup_sects 0 (defaulted), 2 and 9 (too many); both cmdline sizes;
\* initrd_addr_max above all RAM or below the highest range; a small and
\* a large init_size.
AllHeaders == HeadersOf({0, 2, 9}, {4, 8}, {127, 92}, {8, 64})

\* initrd_addr_max inside the monitor's range.
LowMaxHeaders == WellFormed(HeadersOf({0}, {4}, {110}, {8}))

\* A well-formed header whose cmdline_size the command line fills exactly.
ExactCmdHeaders == WellFormed(HeadersOf({0}, {4}, {127}, {8}))

PassMaps == {MapPlain, MapSmallTop, MapHigh, MapTopRam}
\* A bzImage module, and an empty one.
PassKernels == {[base |-> 24, size |-> 12], [base |-> 24, size |-> 0]}
PassInitrds == {[base |-> 36, size |-> 4]}
PlainMaps == {MapPlain}
SplitMaps == {MapSplit}
UnsortedMaps == {MapUnsorted}
=============================================================================
