----------------------------- MODULE ApProcsInit -----------------------------
(***************************************************************************)
(* The multiprocessor bring-up protocol of src/startap/ap_procs_init.c.    *)
(*                                                                         *)
(* One bootstrap processor (BSP) calls ap_procs_startup, which resets the  *)
(* shared state, sends INIT and two SIPIs to the application processors    *)
(* (APs), stalls for a fixed timeout and then numbers the APs that marked  *)
(* themselves present (bsp_enumerate_aps).  It then calls ap_procs_run,    *)
(* which publishes the continuation, opens the stage-1 gate               *)
(* (mp_bootstrap_state) and spins until g_ready_counter equals            *)
(* g_aps_counter.  Every AP runs concurrently with the BSP; the only       *)
(* channel between them is the shared state below.                         *)
(*                                                                         *)
(* The AP side lives in the assembly stub ap_continue_wakeup_code, which   *)
(* is not part of src/: Wake, Gate and ContinuationReturn are modelled     *)
(* from the spec (section 4.3) and the algorithm comment at the head of    *)
(* ap_procs_init.c; ApContinueWakeupCodeC is the C code it calls.          *)
(*                                                                         *)
(* Time is abstracted: the fixed stalls are the BSP's own steps, and       *)
(* whether an AP answers its SIPI before the BSP's timeout expires is a    *)
(* constant of the hardware (RespondIn, LateAps).                          *)
(***************************************************************************)
EXTENDS Integers, FiniteSets, Sequences

CONSTANTS
  MaxCpu,               \* MON_MAX_CPU_SUPPORTED: ap_presence_array has slots 0..MaxCpu-1
  Aps,                  \* presence-array slots (local APIC ids) that hold an AP
  RespondIn,            \* RespondIn[c]: APs answering the SIPI before the timeout of cycle c
  LateAps,              \* APs that answer their SIPI only after the BSP's timeout
  ContinuationReturns,  \* whether the continuation given to ap_procs_run returns
  PostOsLaunch,         \* p_startup->flags has MON_STARTUP_POST_OS_LAUNCH_MODE
  BootAps,              \* cpu_local_apic_ids[1 .. number_of_processors_at_boot_time - 1]
  MaxCycles,            \* bound: number of ap_procs_startup calls
  MaxReady,             \* bound: cap on g_ready_counter
  Pages,                \* low-memory page arguments of ap_procs_startup (0 = NULL)
  Func,                 \* the continuation passed to ap_procs_run
  NULL                  \* g_user_func after ap_intialize_environment

\* Slots that bsp_enumerate_aps scans: index 0 belongs to the BSP.
Slots == 1..(MaxCpu - 1)

ASSUME /\ MaxCpu \in Nat \ {0, 1}
       /\ Aps \subseteq Slots
       /\ MaxCycles \in Nat \ {0}
       /\ RespondIn \in [1..MaxCycles -> SUBSET Aps]
       /\ LateAps \subseteq Aps
       /\ ContinuationReturns \in BOOLEAN
       /\ PostOsLaunch \in BOOLEAN
       /\ BootAps \subseteq Aps
       /\ MaxReady \in Nat
       /\ Pages \subseteq Nat

VARIABLES
  bsp,        \* program point of the BSP
  cycle,      \* number of ap_procs_startup calls made so far
  sipis,      \* SIPIs sent in the current cycle
  mpState,    \* mp_bootstrap_state: the stage-1 gate
  apsCounter, \* g_aps_counter
  ready,      \* g_ready_counter
  userFunc,   \* g_user_func
  presence,   \* ap_presence_array, slots 1..MaxCpu-1
  ap,         \* program point of each AP
  stack,      \* rank whose scratch stack each AP runs on (0: none yet)
  woke,       \* history: APs that answered a SIPI in the current cycle
  enumSlot,   \* bsp_enumerate_aps: the loop index i
  apNum       \* bsp_enumerate_aps: the uint8_t ap_num

vars == <<bsp, cycle, sipis, mpState, apsCounter, ready, userFunc,
          presence, ap, stack, woke, enumSlot, apNum>>

\* The BSP's locals, left alone by every step outside bsp_enumerate_aps.
enumVars == <<enumSlot, apNum>>

BspPcs == {"idle", "init", "sipi", "stall", "enum", "started", "run", "ran", "failed"}
ApPcs  == {"wait_sipi", "tramp", "gate", "entry", "call", "cont"}

\* The rank bsp_enumerate_aps gives a present slot once its loop is done:
\* the number of present slots up to and including it.
PresentUpTo(p, i) == Cardinality({j \in Slots : j <= i /\ p[j] # 0})

\* ++ap_num, in the uint8_t of ap_num.
IncApNum(n) == (n + 1) % 256

(***************************************************************************)
(* The APs the INIT and SIPI IPIs reach: all but self in the pre-OS        *)
(* broadcast (send_broadcast_init_sipi), the APs listed in p_startup in    *)
(* the post-OS targeted mode (send_targeted_init_sipi).                    *)
(***************************************************************************)
Targets == IF PostOsLaunch THEN BootAps ELSE Aps

-----------------------------------------------------------------------------
Init ==
  /\ bsp = "idle"
  /\ cycle = 0
  /\ sipis = 0
  /\ mpState = "INIT"
  /\ apsCounter = 0
  /\ ready = 0
  /\ userFunc = NULL
  /\ presence = [i \in Slots |-> 0]
  /\ ap = [a \in Aps |-> "wait_sipi"]
  /\ stack = [a \in Aps |-> 0]
  /\ woke = {}
  /\ enumSlot = 1
  /\ apNum = 0

(***************************************************************************)
(* BSP: ap_procs_startup with a NULL low-memory page returns (uint32)-1    *)
(* before touching any shared state or sending any IPI.                    *)
(***************************************************************************)
StartupNullPage ==
  /\ bsp \in {"idle", "ran"}
  /\ cycle < MaxCycles
  /\ 0 \in Pages
  /\ bsp' = "failed"
  /\ UNCHANGED <<enumVars, cycle, sipis, mpState, apsCounter, ready, userFunc,
                 presence, ap, stack, woke>>

(***************************************************************************)
(* BSP: ap_procs_startup, stage 1 up to the IPIs: ap_intialize_environment *)
(* closes the gate, clears g_ready_counter and g_user_func; the low-memory *)
(* trampoline is installed.  ap_presence_array and g_aps_counter are left  *)
(* as the previous cycle left them.                                        *)
(***************************************************************************)
ApIntializeEnvironment ==
  /\ mpState' = "INIT"
  /\ ready' = 0
  /\ userFunc' = NULL

Startup(page) ==
  /\ bsp \in {"idle", "ran"}
  /\ cycle < MaxCycles
  /\ page # 0
  /\ ApIntializeEnvironment
  /\ cycle' = cycle + 1
  /\ sipis' = 0
  /\ woke' = {}
  /\ bsp' = "init"
  /\ UNCHANGED <<enumVars, apsCounter, presence, ap, stack>>

(***************************************************************************)
(* BSP: send_broadcast_init_sipi / send_targeted_init_sipi, the INIT and   *)
(* its 10 ms stall.  The IPI is written to the ICR once the previous one   *)
(* is delivered, and the BSP waits for its delivery: the model delivers    *)
(* it in the step.  INIT puts every targeted AP back into the              *)
(* wait-for-SIPI state, whatever it was running; the others keep running.  *)
(***************************************************************************)
SendInit ==
  /\ bsp = "init"
  /\ ap' = [a \in Aps |-> IF a \in Targets THEN "wait_sipi" ELSE ap[a]]
  /\ stack' = [a \in Aps |-> IF a \in Targets THEN 0 ELSE stack[a]]
  /\ bsp' = "sipi"
  /\ UNCHANGED <<enumVars, cycle, sipis, mpState, apsCounter, ready, userFunc,
                 presence, woke>>

\* Mutant of SendSipi: a third SIPI.
SendSipiThrice ==
  /\ bsp = "sipi"
  /\ sipis' = sipis + 1
  /\ bsp' = IF sipis + 1 = 3 THEN "stall" ELSE "sipi"
  /\ UNCHANGED <<enumVars, cycle, mpState, apsCounter, ready, userFunc,
                 presence, ap, stack, woke>>

\* The two SIPIs to the same APs, each followed by its 200 ms stall.
SendSipi ==
  /\ bsp = "sipi"
  /\ sipis' = sipis + 1
  /\ bsp' = IF sipis + 1 = 2 THEN "stall" ELSE "sipi"
  /\ UNCHANGED <<enumVars, cycle, mpState, apsCounter, ready, userFunc,
                 presence, ap, stack, woke>>

(***************************************************************************)
(* BSP: after INITIAL_WAIT_FOR_APS_TIMEOUT, stage 2 of ap_procs_startup    *)
(* calls bsp_enumerate_aps.  The timeout is long enough for the APs of     *)
(* RespondIn[cycle]; a late AP may still be anywhere in its wake-up.       *)
(***************************************************************************)
StallEnd ==
  /\ bsp = "stall"
  /\ RespondIn[cycle] \subseteq woke
  /\ enumSlot' = 1
  /\ apNum' = 0
  /\ bsp' = "enum"
  /\ UNCHANGED <<cycle, sipis, mpState, apsCounter, ready, userFunc,
                 presence, ap, stack, woke>>

\* Mutant of EnumerateSlot: ap_presence_array[i] = ap_num++.
EnumerateSlotPostIncrement ==
  /\ bsp = "enum"
  /\ enumSlot \in Slots
  /\ \/ /\ presence[enumSlot] # 0
        /\ apNum' = IncApNum(apNum)
        /\ presence' = [presence EXCEPT ![enumSlot] = apNum]
     \/ /\ presence[enumSlot] = 0
        /\ UNCHANGED <<apNum, presence>>
  /\ enumSlot' = enumSlot + 1
  /\ UNCHANGED <<bsp, cycle, sipis, mpState, apsCounter, ready, userFunc,
                 ap, stack, woke>>

\* Mutant of EnumerateSlot: ap_presence_array[i] = ap_num + 1.
EnumerateSlotNoIncrement ==
  /\ bsp = "enum"
  /\ enumSlot \in Slots
  /\ \/ /\ presence[enumSlot] # 0
        /\ presence' = [presence EXCEPT ![enumSlot] = IncApNum(apNum)]
     \/ /\ presence[enumSlot] = 0
        /\ UNCHANGED presence
  /\ enumSlot' = enumSlot + 1
  /\ UNCHANGED <<bsp, cycle, sipis, mpState, apsCounter, ready, userFunc,
                 ap, stack, woke, apNum>>

(***************************************************************************)
(* BSP: one iteration of the loop of bsp_enumerate_aps: a nonzero slot     *)
(* becomes ++ap_num.  The iterations are separate steps: an AP may mark    *)
(* its slot present, or bump g_aps_counter, between any two of them.       *)
(***************************************************************************)
EnumerateSlot ==
  /\ bsp = "enum"
  /\ enumSlot \in Slots
  /\ \/ /\ presence[enumSlot] # 0
        /\ apNum' = IncApNum(apNum)
        /\ presence' = [presence EXCEPT ![enumSlot] = apNum']
     \/ /\ presence[enumSlot] = 0
        /\ UNCHANGED <<apNum, presence>>
  /\ enumSlot' = enumSlot + 1
  /\ UNCHANGED <<bsp, cycle, sipis, mpState, apsCounter, ready, userFunc,
                 ap, stack, woke>>

\* BSP: the loop is done; g_aps_counter = ap_num, returned to the caller.
StoreApsCounter ==
  /\ bsp = "enum"
  /\ enumSlot = MaxCpu
  /\ apsCounter' = apNum
  /\ bsp' = "started"
  /\ UNCHANGED <<cycle, sipis, mpState, ready, userFunc, presence, ap,
                 stack, woke, enumSlot, apNum>>

\* mp_set_bootstrap_state: one locked xchg of mp_bootstrap_state.
MpSetBootstrapState(s) == mpState' = s

(***************************************************************************)
(* BSP: ap_procs_run stores the continuation, then opens the gate with a   *)
(* locked xchg (mp_set_bootstrap_state).                                   *)
(***************************************************************************)
Run ==
  /\ bsp = "started"
  /\ userFunc' = Func
  /\ MpSetBootstrapState("APS_ENUMERATED")
  /\ bsp' = "run"
  /\ UNCHANGED <<enumVars, cycle, sipis, apsCounter, ready, presence, ap, stack, woke>>

\* Mutant of RunReturn's loop condition.
RunReturnEarly ==
  /\ bsp = "run"
  /\ ready + 1 >= apsCounter
  /\ bsp' = "ran"
  /\ UNCHANGED <<enumVars, cycle, sipis, mpState, apsCounter, ready, userFunc,
                 presence, ap, stack, woke>>

\* BSP: ap_procs_run returns once g_ready_counter == g_aps_counter.
RunReturn ==
  /\ bsp = "run"
  /\ ready = apsCounter
  /\ bsp' = "ran"
  /\ UNCHANGED <<enumVars, cycle, sipis, mpState, apsCounter, ready, userFunc,
                 presence, ap, stack, woke>>

(***************************************************************************)
(* AP a, on a SIPI: it starts executing ap_start_up_code in the low-memory *)
(* page the BSP installed (a processor not waiting for a SIPI ignores it). *)
(* An AP of RespondIn[cycle] does so before the BSP's timeout expires; a   *)
(* late AP at any point after the SIPI.                                    *)
(***************************************************************************)
Sipi(a) ==
  /\ ap[a] = "wait_sipi"
  /\ a \in Targets
  /\ sipis >= 1
  /\ \/ a \in RespondIn[cycle] /\ bsp \in {"sipi", "stall"}
     \/ a \in LateAps \ RespondIn[cycle]
  /\ ap' = [ap EXCEPT ![a] = "tramp"]
  /\ UNCHANGED <<enumVars, bsp, cycle, sipis, mpState, apsCounter, ready, userFunc,
                 presence, stack, woke>>

(***************************************************************************)
(* AP a leaves the trampoline: it has switched to protected mode through   *)
(* the GDT copied into the page and jumped to ap_continue_wakeup_code,     *)
(* which increments the APs counter with lock inc and marks its slot       *)
(* present.  An AP of RespondIn[cycle] gets here before the timeout.       *)
(***************************************************************************)
Wake(a) ==
  /\ ap[a] = "tramp"
  /\ a \in RespondIn[cycle] => bsp \in {"sipi", "stall"}
  /\ presence' = [presence EXCEPT ![a] = 1]
  /\ apsCounter' = apsCounter + 1
  /\ ap' = [ap EXCEPT ![a] = "gate"]
  /\ woke' = woke \cup {a}
  /\ UNCHANGED <<enumVars, bsp, cycle, sipis, mpState, ready, userFunc, stack>>

(***************************************************************************)
(* AP a spins on mp_bootstrap_state; when the gate is open it takes the    *)
(* scratch stack of its rank (its presence-array entry) and loads the      *)
(* saved GDT and IDT.                                                      *)
(***************************************************************************)
Gate(a) ==
  /\ ap[a] = "gate"
  /\ mpState = "APS_ENUMERATED"
  /\ stack' = [stack EXCEPT ![a] = presence[a]]
  /\ ap' = [ap EXCEPT ![a] = "entry"]
  /\ UNCHANGED <<enumVars, bsp, cycle, sipis, mpState, apsCounter, ready, userFunc,
                 presence, woke>>

\* Mutant of ApContinueWakeupCodeC: the lock inc is missing.
ApContinueNoIncrement(a) ==
  /\ ap[a] = "entry"
  /\ ap' = [ap EXCEPT ![a] = "call"]
  /\ UNCHANGED <<enumVars, bsp, cycle, sipis, mpState, apsCounter, ready, userFunc,
                 presence, stack, woke>>

(***************************************************************************)
(* AP a: ap_continue_wakeup_code_C, the lock inc of g_ready_counter.  Once *)
(* it is done the BSP may leave ap_procs_run, before this AP has read      *)
(* g_user_func.                                                            *)
(***************************************************************************)
ApContinueWakeupCodeC(a) ==
  /\ ap[a] = "entry"
  /\ ready < MaxReady
  /\ ready' = ready + 1
  /\ ap' = [ap EXCEPT ![a] = "call"]
  /\ UNCHANGED <<enumVars, bsp, cycle, sipis, mpState, apsCounter, userFunc,
                 presence, stack, woke>>

\* AP a: ap_continue_wakeup_code_C loads g_user_func and calls it.
CallUserFunc(a) ==
  /\ ap[a] = "call"
  /\ ap' = [ap EXCEPT ![a] = "cont"]
  /\ UNCHANGED <<enumVars, bsp, cycle, sipis, mpState, apsCounter, ready, userFunc,
                 presence, stack, woke>>

(***************************************************************************)
(* AP a: the continuation returns; the AP goes back to spinning on the     *)
(* gate ("If it returns APs enter wait state once more").                  *)
(***************************************************************************)
ContinuationReturn(a) ==
  /\ ContinuationReturns
  /\ ap[a] = "cont"
  /\ ap' = [ap EXCEPT ![a] = "gate"]
  /\ UNCHANGED <<enumVars, bsp, cycle, sipis, mpState, apsCounter, ready, userFunc,
                 presence, stack, woke>>

BspNext ==
  \/ StartupNullPage
  \/ \E page \in Pages : Startup(page)
  \/ SendInit
  \/ SendSipi
  \/ StallEnd
  \/ EnumerateSlot
  \/ StoreApsCounter
  \/ Run
  \/ RunReturn

ApNext(a) ==
  \/ Sipi(a)
  \/ Wake(a)
  \/ Gate(a)
  \/ ApContinueWakeupCodeC(a)
  \/ CallUserFunc(a)
  \/ ContinuationReturn(a)

Next == BspNext \/ \E a \in Aps : ApNext(a)

(***************************************************************************)
(* Every processor executes on its own; nothing preempts a spinning CPU,   *)
(* so each step a processor can keep taking is eventually taken.  The      *)
(* caller's calls (Startup, Run) carry no fairness.                        *)
(***************************************************************************)
Fairness ==
  /\ WF_vars(SendInit) /\ WF_vars(SendSipi) /\ WF_vars(StallEnd)
  /\ WF_vars(EnumerateSlot) /\ WF_vars(StoreApsCounter)
  /\ WF_vars(RunReturn)
  /\ \A a \in Aps : WF_vars(ApNext(a))

Spec == Init /\ [][Next]_vars /\ Fairness

-----------------------------------------------------------------------------
TypeOK ==
  /\ bsp \in BspPcs
  /\ cycle \in 0..MaxCycles
  /\ sipis \in 0..2
  /\ mpState \in {"INIT", "APS_ENUMERATED"}
  /\ apsCounter \in Nat
  /\ ready \in 0..MaxReady
  /\ userFunc \in {Func, NULL}
  /\ presence \in [Slots -> 0..Cardinality(Slots)]
  /\ ap \in [Aps -> ApPcs]
  /\ stack \in [Aps -> 0..Cardinality(Slots)]
  /\ woke \subseteq Aps
  /\ enumSlot \in 1..MaxCpu
  /\ apNum \in 0..255

\* The BSP has returned from ap_procs_startup of the current cycle.
Enumerated == bsp \in {"started", "run", "ran"}

(***************************************************************************)
(* Once ap_procs_startup has returned N, the presence array numbers        *)
(* exactly the APs that answered a SIPI in this cycle, 1..N in slot order, *)
(* and g_aps_counter = N (bsp_enumerate_aps, and the slots it is handed by *)
(* earlier cycles).                                                        *)
(***************************************************************************)
EnumerationExact ==
  Enumerated =>
    /\ {i \in Slots : presence[i] # 0} = woke
    /\ \A i \in Slots : presence[i] # 0 => presence[i] = PresentUpTo(presence, i)
    /\ apsCounter = Cardinality(woke)

\* The program points of an AP that has passed the gate.
PastGate == {"entry", "call", "cont"}

(***************************************************************************)
(* Two APs that have passed the gate never run on the same scratch stack,  *)
(* and each runs on one of the g_aps_counter stacks the loader allocated.  *)
(***************************************************************************)
StacksExclusive ==
  \A a, b \in Aps :
    /\ ap[a] \in PastGate => stack[a] \in 1..apsCounter
    /\ (a # b /\ ap[a] \in PastGate /\ ap[b] \in PastGate)
         => stack[a] # stack[b]

(***************************************************************************)
(* When ap_procs_run returns, every AP it numbered has reached             *)
(* ap_continue_wakeup_code_C and done its lock inc (the BSP's wait on      *)
(* g_ready_counter is a real barrier).                                     *)
(***************************************************************************)
RunWaitsForAll ==
  bsp = "ran" => \A a \in Aps : presence[a] # 0 => ap[a] \in {"call", "cont"}

(***************************************************************************)
(* No AP ever calls g_user_func while it is NULL: the load of              *)
(* ap_continue_wakeup_code_C never sees the 0 that ap_intialize_environment *)
(* of a later ap_procs_startup stores.                                     *)
(***************************************************************************)
ContinuationNeverNull ==
  [][\A a \in Aps : (ap[a] = "call" /\ ap'[a] = "cont") => userFunc # NULL]_vars

(***************************************************************************)
(* ap_procs_run returns: the BSP's spin on g_ready_counter ends.           *)
(***************************************************************************)
RunReturns == (bsp = "run") ~> (bsp = "ran")


-----------------------------------------------------------------------------
(***************************************************************************)
(* Refinement mapping onto MPBarrier.  The caller's phase is the BSP's     *)
(* program point (a failed startup leaves the caller where it was); the    *)
(* members are the APs that answered a SIPI in this cycle, and a member    *)
(* has called once it has done the lock inc of ap_continue_wakeup_code_C.  *)
(***************************************************************************)
BarrierPhase ==
  CASE bsp \in {"init", "sipi", "stall", "enum"} -> "starting"
    [] bsp = "failed"                     -> IF cycle = 0 THEN "idle" ELSE "ran"
    [] OTHER                              -> bsp

BarrierCalled == {a \in woke : ap[a] \in {"call", "cont"}}

Barrier == INSTANCE MPBarrier
             WITH Procs <- Aps, phase <- BarrierPhase,
                  members <- woke, called <- BarrierCalled

(***************************************************************************)
(* ap_procs_startup and ap_procs_run implement the barrier of MPBarrier:   *)
(* the APs released are exactly those that answered the SIPIs before the   *)
(* timeout, each enters the continuation once and only after the gate     *)
(* opens, none joins after bsp_enumerate_aps, and ap_procs_run returns     *)
(* exactly when all of them have entered it.                               *)
(***************************************************************************)
BarrierRefined == Barrier!Spec

=============================================================================
