--------------------------- MODULE MC_StartapStall ---------------------------
(***************************************************************************)
(* Instances of StartapStall.  The stall sequence of ap_procs_startup is   *)
(* 10 ms after INIT, 200 ms after each SIPI and 150 ms before enumeration; *)
(* scaled with UsecPerMs = 4 it keeps the order of the waits but not their *)
(* exact ratios.                                                           *)
(***************************************************************************)
EXTENDS StartapStall

StartupStalls == <<2, 8, 8, 6>>

\* Every value of the low counter bits at the first stall.
AnyTsc == 0..(W - 1)

\* A single stall of the SIPI-to-SIPI length.
OneSipiStall == <<8>>
=============================================================================
