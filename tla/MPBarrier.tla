------------------------------ MODULE MPBarrier ------------------------------
(***************************************************************************)
(* What the bring-up of src/startap/ap_procs_init.c promises its caller,   *)
(* stated without the IPIs, counters and presence array that implement it *)
(* (the interface comments of ap_procs_init.h and the algorithm comment   *)
(* at the head of ap_procs_init.c):                                        *)
(*                                                                         *)
(*  - ap_procs_startup wakes the APs; those that answer in time join the   *)
(*    cycle, and the set is fixed once ap_procs_startup has returned;      *)
(*  - ap_procs_run releases exactly those APs: each of them calls the      *)
(*    continuation once, no other AP does, none before the release;        *)
(*  - ap_procs_run returns only when all of them have called it, and it    *)
(*    does return.                                                         *)
(***************************************************************************)
CONSTANT Procs    \* the processors the bring-up may reach

VARIABLES
  phase,     \* where the caller is in the startup/run protocol
  members,   \* the processors that joined the current cycle
  called     \* members that have entered the continuation

avars == <<phase, members, called>>

Phases == {"idle", "starting", "started", "run", "ran"}

Init ==
  /\ phase = "idle"
  /\ members = {}
  /\ called = {}

\* A new cycle begins: no processor has joined or called yet.
Startup ==
  /\ phase \in {"idle", "ran"}
  /\ phase' = "starting"
  /\ members' = {}
  /\ called' = {}

\* Processor p answers the wake-up of the current cycle.
Join(p) ==
  /\ phase = "starting"
  /\ p \notin members
  /\ members' = members \cup {p}
  /\ UNCHANGED <<phase, called>>

\* The startup call returns; the set of members is fixed from here on.
Enumerate ==
  /\ phase = "starting"
  /\ phase' = "started"
  /\ UNCHANGED <<members, called>>

\* The run call releases the members.
Release ==
  /\ phase = "started"
  /\ phase' = "run"
  /\ UNCHANGED <<members, called>>

\* A released member enters the continuation, once.
Call(p) ==
  /\ phase = "run"
  /\ p \in members \ called
  /\ called' = called \cup {p}
  /\ UNCHANGED <<phase, members>>

\* The run call returns after every member has entered the continuation.
Return ==
  /\ phase = "run"
  /\ called = members
  /\ phase' = "ran"
  /\ UNCHANGED <<members, called>>

Next ==
  \/ Startup
  \/ \E p \in Procs : Join(p)
  \/ Enumerate
  \/ Release
  \/ \E p \in Procs : Call(p)
  \/ Return

(***************************************************************************)
(* Once started, a cycle's startup call returns, every member is released *)
(* into the continuation and the run call returns; whether the caller     *)
(* starts or runs a cycle at all is its own choice.                        *)
(***************************************************************************)
Spec ==
  /\ Init /\ [][Next]_avars
  /\ WF_avars(Enumerate) /\ WF_avars(Return)
  /\ \A p \in Procs : WF_avars(Call(p))
=============================================================================
