------------------------------ MODULE CpuState ------------------------------
(***************************************************************************)
(* The capture of the BSP's state by starter_main, after the multiboot     *)
(* loader jumped to the starter (src/pre_os/starter/starter_main.c):       *)
(* save_cpu_state, save_segment_data, validate_descriptor and             *)
(* check_vmx_support, as operators on the machine.                         *)
(*                                                                         *)
(* A machine cpu is a record:                                              *)
(*   gdt_limit        GDTR.limit (the multiboot loader's GDTR: the         *)
(*                    multiboot specification leaves it unspecified)       *)
(*   gdt              memory at GDTR.base, as descriptors by index; it may *)
(*                    extend past the limit                                *)
(*   sel              the selector in each segment register                *)
(*   ldtr_index       the index field of LDTR                              *)
(*   cpuid1_ecx       CPUID.1 ECX                                          *)
(*   feature_control  IA32_FEATURE_CONTROL                                 *)
(* A descriptor holds the ia32_segment_descriptor_t fields the code reads: *)
(* the split base and limit, type, s, dpl, p, avl, l (bit 21), db (bit 22) *)
(* and g.  Control registers, MSRs and the register file are copied        *)
(* without being looked at and are not modelled.                           *)
(***************************************************************************)
EXTENDS Integers, Bitwise

SegRegs == {"CS", "DS", "ES", "FS", "GS", "SS"}

\* sizeof(ia32_segment_descriptor_t)
DESCRIPTOR_BYTES == 8

\* ia32_selector_t: rpl in bits 0-1, ti in bit 2, index in bits 3-15.
SelIndex(sel) == shiftR(sel, 3)
SelTi(sel) == shiftR(sel, 2) & 1

\* gen_attr.attributes: bits 8-23 of the high dword.
DescAttributes(d) ==
  d.type + d.s * 16 + d.dpl * 32 + d.p * 128 + d.limit_19_16 * 256
  + d.avl * 4096 + d.l * 8192 + d.db * 16384 + d.g * 32768

(***************************************************************************)
(* validate_descriptor returns 0.  In the code-segment branch mbo_11 and   *)
(* mbo_12 are the bits that select the branch, and in the data-segment     *)
(* branch mbz_11 and mbo_12 likewise, so each branch comes down to its     *)
(* D/B bit.                                                                *)
(***************************************************************************)
ValidateDescriptor(d) ==
  /\ d.p = 1
  /\ d.l = 0
  /\ IF d.s = 0
       THEN /\ d.type & 1 = 1     \* mbo_8
            /\ d.type & 4 = 0     \* mbz_10
            /\ d.type & 8 = 8     \* mbo_11
            /\ d.db = 0           \* mbz_22
       ELSE d.db = 1              \* default_size (code), big (data)

\* The entry of mon_guest_cpu_startup_state_t after the memset of starter_main.
NoSegment == [selector |-> 0, base |-> 0, limit |-> 0, attributes |-> 0]

\* The general registers hold symbolic names of what they point to; "zero"
\* is the memset's 0.
ZeroState ==
  [seg |-> [r \in SegRegs |-> NoSegment], ldtr_attributes |-> 0,
   tr_attributes |-> 0, gp |-> [RIP |-> "zero", RCX |-> "zero", RBX |-> "zero"]]

\* base_15_00 | base_23_16 << 16 | base_31_24 << 24 (disjoint bits).
DescBase(d) == d.base_15_00 + d.base_23_16 * 65536 + d.base_31_24 * 16777216

\* limit_15_00 | limit_19_16 << 16
DescLimit(d) == d.limit_15_00 + d.limit_19_16 * 65536

\* Mutant: the granularity bit is not applied to the limit.
SegmentLimitBytes(d) == DescLimit(d)

\* With the granularity bit, (limit << 12) | 0x00000fff.
SegmentLimit(d) ==
  IF d.g = 1 THEN DescLimit(d) * 4096 + 4095 ELSE DescLimit(d)

(***************************************************************************)
(* save_segment_data(sel16, ss): the value *ss is left with.  The bound    *)
(* check divides the descriptor index by the descriptor size before it     *)
(* compares it with the last index the GDTR limit covers.  The attributes  *)
(* are the descriptor's with limit_19_16 cleared.                          *)
(***************************************************************************)
SaveSegmentData(sel, cpu, ss) ==
  LET max == cpu.gdt_limit \div DESCRIPTOR_BYTES
      i   == SelIndex(sel)
      d   == cpu.gdt[i]
  IN  IF \/ i = 0
         \/ i \div DESCRIPTOR_BYTES > max
         \/ SelTi(sel) = 1
         \/ ~ValidateDescriptor(d)
        THEN ss
        ELSE [selector   |-> sel,
              base       |-> DescBase(d),
              limit      |-> SegmentLimit(d),
              attributes |-> DescAttributes(d) - d.limit_19_16 * 256]

(***************************************************************************)
(* save_cpu_state(s) on the zeroed state s: with a non-null LDTR it        *)
(* returns before any segment is saved; otherwise it marks LDTR unusable,  *)
(* sets the TR attributes and saves the six segment registers.             *)
(***************************************************************************)
SaveCpuState(cpu, s) ==
  IF cpu.ldtr_index # 0
    THEN s
    ELSE [s EXCEPT !.ldtr_attributes = 65536,     \* 0x00010000
                   !.tr_attributes = 32907,       \* 0x0000808b
                   !.seg = [r \in SegRegs |->
                              SaveSegmentData(cpu.sel[r], cpu, s.seg[r])]]

\* check_vmx_support returns 0: VMX is reported by CPUID and not locked off.
CheckVmxSupport(cpu) ==
  /\ cpu.cpuid1_ecx & 32 # 0
  /\ ~(cpu.feature_control & 1 # 0 /\ cpu.feature_control & 4 = 0)

-----------------------------------------------------------------------------
(***************************************************************************)
(* Reference definitions, from the IA-32 descriptor format rather than the *)
(* code: a descriptor as a ghost record of the base and 20-bit limit it    *)
(* encodes, the byte limit it gives, and whether the GDTR limit covers it. *)
(***************************************************************************)
EncodedBase(d) == d.ghost_base
ByteLimit(d) == IF d.g = 1 THEN d.ghost_limit * 4096 + 4095 ELSE d.ghost_limit
RefAttributes(d) ==
  d.type + d.s * 16 + d.dpl * 32 + d.p * 128
  + d.avl * 4096 + d.l * 8192 + d.db * 16384 + d.g * 32768
InGdt(cpu, i) == (i + 1) * DESCRIPTOR_BYTES - 1 <= cpu.gdt_limit

\* What save_cpu_state should leave for segment register r.
ExpectedSegment(cpu, r) ==
  LET sel == cpu.sel[r]
      i   == SelIndex(sel)
  IN  IF /\ cpu.ldtr_index = 0 /\ i # 0 /\ SelTi(sel) = 0 /\ InGdt(cpu, i)
         /\ ValidateDescriptor(cpu.gdt[i])
        THEN [selector |-> sel, base |-> EncodedBase(cpu.gdt[i]),
              limit |-> ByteLimit(cpu.gdt[i]),
              attributes |-> RefAttributes(cpu.gdt[i])]
        ELSE NoSegment
=============================================================================
