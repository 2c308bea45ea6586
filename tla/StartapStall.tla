---------------------------- MODULE StartapStall ----------------------------
(***************************************************************************)
(* The TSC-based busy waits of src/startap/ap_procs_init.c:                *)
(* startap_calibrate_tsc_ticks_per_msec and startap_stall_using_tsc, run   *)
(* for the sequence of stalls the BSP makes during ap_procs_startup.       *)
(*                                                                         *)
(* The TSC is read as a uint32: the model keeps it modulo W, a scaled     *)
(* 2^32, and keeps beside it the real time elapsed (now).  Between two     *)
(* reads the counter advances by a step from Steps: the gap between two   *)
(* rdtsc instructions varies (pause, SMIs).  One millisecond of            *)
(* startap_stall (1000 port reads) is MsTicks ticks; UsecPerMs stands for  *)
(* the 1000 of the code.                                                   *)
(***************************************************************************)
EXTENDS Integers, Sequences

CONSTANTS
  W,          \* 2^32 scaled down: modulus of the truncated rdtsc value
  UsecPerMs,  \* the divisor 1000 of the stall arithmetic, scaled
  MsTicks,    \* real TSC ticks during startap_stall(1000)
  Steps,      \* possible TSC advances between two consecutive reads
  TscInit,    \* possible TSC values when ap_procs_startup starts
  Stalls,     \* the stall_usec arguments, in call order
  MaxNow      \* bound on the real time of a run (the model's only bound)

ASSUME /\ W \in Nat \ {0} /\ UsecPerMs \in Nat \ {0} /\ MsTicks \in Nat \ {0}
       /\ Steps \subseteq Nat \ {0} /\ TscInit \subseteq 0..(W - 1)
       /\ Stalls \in Seq(Nat) /\ MaxNow \in Nat

VARIABLES
  tsc,      \* low 32 bits of the time-stamp counter
  now,      \* real ticks since the first stall began (history)
  pc,       \* "entry", "calib", "loop1", "loop2" or "done"
  k,        \* index of the current stall in Stalls
  tpm,      \* startap_tsc_ticks_per_msec (static, 0 until calibrated)
  start,    \* start_tsc of the running function
  end,      \* end_tsc of the running function
  began,    \* now when the delay loop of the current stall began
  elapsed   \* real ticks each finished stall waited

vars == <<tsc, now, pc, k, tpm, start, end, began, elapsed>>

\* The value (uint32_t)rdtsc() returns d ticks after the counter was t.
RdNoWrap(t, d) == t + d
Rd(t, d) == (t + d) % W

\* stall_usec * startap_tsc_ticks_per_msec / 1000, in uint32 arithmetic.
Delta(usec, ticks) == ((usec * ticks) % W) \div UsecPerMs

\* What the stall is meant to wait: the requested time in real ticks.
Intended(usec) == (usec * MsTicks) \div UsecPerMs

Usec == Stalls[k]

\* The BSP may go on reading the counter d ticks later.
Within(d) == now + d <= MaxNow

\* The largest gap between two reads.
MaxStep == CHOOSE x \in Steps : \A y \in Steps : y <= x

Init ==
  /\ tsc \in TscInit
  /\ now = 0
  /\ pc = IF Stalls = <<>> THEN "done" ELSE "entry"
  /\ k = 1
  /\ tpm = 0
  /\ start = 0
  /\ end = 0
  /\ began = 0
  /\ elapsed = <<>>

(***************************************************************************)
(* startap_stall_using_tsc entry: start_tsc = 1, end_tsc = 0, and the      *)
(* calibration when startap_tsc_ticks_per_msec is still 0.  The           *)
(* calibration starts from its own start_tsc = 1, end_tsc = 0.             *)
(***************************************************************************)
StallEntry ==
  /\ pc = "entry"
  /\ start' = 1
  /\ end' = 0
  /\ pc' = IF tpm = 0 THEN "calib" ELSE "loop1"
  /\ began' = now
  /\ UNCHANGED <<tsc, now, k, tpm, elapsed>>

(***************************************************************************)
(* One iteration of the calibration loop: start_tsc = rdtsc;               *)
(* startap_stall(1000); end_tsc = rdtsc; repeated while start > end; on    *)
(* exit startap_tsc_ticks_per_msec = end_tsc - start_tsc.                  *)
(***************************************************************************)
Calibrate ==
  /\ pc = "calib"
  /\ \E d1, d2 \in Steps : Within(d1 + MsTicks + d2) /\
       LET s == Rd(tsc, d1)
           e == Rd(tsc, d1 + MsTicks + d2)
       IN /\ tsc' = e
          /\ now' = now + d1 + MsTicks + d2
          /\ IF s > e
               THEN UNCHANGED <<pc, tpm>>
               ELSE /\ tpm' = (e - s) % W
                    /\ pc' = "loop1"
  /\ start' = 1
  /\ end' = 0
  /\ began' = now'
  /\ UNCHANGED <<k, elapsed>>

(***************************************************************************)
(* The first loop: while (start_tsc > end_tsc) { end_tsc = rdtsc + delta;  *)
(* start_tsc = rdtsc; }.  It repeats while end_tsc has wrapped.            *)
(***************************************************************************)
Loop1Iterate ==
  /\ pc = "loop1"
  /\ start > end
  /\ \E d1, d2 \in Steps :
       /\ Within(d1 + d2)
       /\ end' = (Rd(tsc, d1) + Delta(Usec, tpm)) % W
       /\ start' = Rd(tsc, d1 + d2)
       /\ tsc' = Rd(tsc, d1 + d2)
       /\ now' = now + d1 + d2
  /\ UNCHANGED <<pc, k, tpm, began, elapsed>>

\* Mutant: the wrap retry is skipped; the delay loop starts at once.
Loop1ExitNoWrapCheck ==
  /\ pc = "loop1"
  /\ start # 1 \/ end # 0
  /\ pc' = "loop2"
  /\ UNCHANGED <<tsc, now, k, tpm, start, end, began, elapsed>>

Loop1Exit ==
  /\ pc = "loop1"
  /\ start <= end
  /\ pc' = "loop2"
  /\ UNCHANGED <<tsc, now, k, tpm, start, end, began, elapsed>>

\* Mutant: the delay loop does not re-read the counter.
Loop2IterateNoReread ==
  /\ pc = "loop2"
  /\ start < end
  /\ \E d \in Steps :
       /\ Within(d)
       /\ tsc' = Rd(tsc, d)
       /\ now' = now + d
  /\ UNCHANGED <<pc, k, tpm, start, end, began, elapsed>>

\* The delay loop: while (start_tsc < end_tsc) { pause; start_tsc = rdtsc; }
Loop2Iterate ==
  /\ pc = "loop2"
  /\ start < end
  /\ \E d \in Steps :
       /\ Within(d)
       /\ start' = Rd(tsc, d)
       /\ tsc' = Rd(tsc, d)
       /\ now' = now + d
  /\ UNCHANGED <<pc, k, tpm, end, began, elapsed>>

\* The stall returns; the BSP goes on to its next stall.
StallReturn ==
  /\ pc = "loop2"
  /\ start >= end
  /\ elapsed' = Append(elapsed, now - began)
  /\ k' = k + 1
  /\ pc' = IF k < Len(Stalls) THEN "entry" ELSE "done"
  /\ UNCHANGED <<tsc, now, tpm, start, end, began>>

Next ==
  \/ StallEntry \/ Calibrate \/ Loop1Iterate \/ Loop1Exit
  \/ Loop2Iterate \/ StallReturn

Spec == Init /\ [][Next]_vars /\ WF_vars(Next)

-----------------------------------------------------------------------------
TypeOK ==
  /\ tsc \in 0..(W - 1)
  /\ start \in 0..(W - 1)
  /\ end \in 0..(W - 1)
  /\ tpm \in 0..(W - 1)
  /\ pc \in {"entry", "calib", "loop1", "loop2", "done"}
  /\ k \in 1..(Len(Stalls) + 1)
  /\ elapsed \in Seq(Nat)

(***************************************************************************)
(* Every startap_stall_using_tsc(stall_usec) waits at least stall_usec of  *)
(* real time: the INIT-SIPI and SIPI-SIPI spacing and the wait before      *)
(* bsp_enumerate_aps are never shorter than asked for.                     *)
(***************************************************************************)
StallNotShort ==
  \A i \in DOMAIN elapsed : elapsed[i] >= Intended(Stalls[i])

(***************************************************************************)
(* No stall waits longer than twice its computed delay plus a few reads:   *)
(* the 32-bit wrap of the counter never turns a short wait into a wait of  *)
(* a whole counter period.                                                 *)
(***************************************************************************)
StallNotLong ==
  \A i \in DOMAIN elapsed :
    elapsed[i] <= 2 * Delta(Stalls[i], tpm) + 4 * (MaxStep + 1)

(***************************************************************************)
(* Every stall of the sequence returns, and the BSP goes on to             *)
(* bsp_enumerate_aps: the retry loop on a wrapped end_tsc and the delay    *)
(* loop both end, however the 32-bit counter wraps, as long as the BSP     *)
(* keeps executing (weak fairness: nothing else runs on it).               *)
(***************************************************************************)
StallsReturn == <>(pc = "done")
=============================================================================
