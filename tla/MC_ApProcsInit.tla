--------------------------- MODULE MC_ApProcsInit ---------------------------
(***************************************************************************)
(* Model-checking instances of ApProcsInit: five presence-array slots (the *)
(* BSP's and four APs'), one to three bring-up cycles.  Slot order decides *)
(* the ranks, so the APs are numbers and no symmetry is used.              *)
(***************************************************************************)
EXTENDS ApProcsInit

\* Slot 3 is counted by CPUID but no processor answers there (a dead AP).
RespondAllButThree == [c \in 1..3 |-> {1, 2, 4}]

\* Every AP answers in cycle 1; AP 3 stops answering in cycle 2.
RespondThenStop == <<{1, 2, 3}, {1, 2}>>

\* One cycle in which APs 1, 2 and 4 answer in time.
RespondOneCycle == <<{1, 2, 4}>>

\* Two cycles in which APs 1, 2 and 4 answer in time.
RespondTwoCycles == <<{1, 2, 4}, {1, 2, 4}>>

\* One cycle: APs 1 and 2 answer in time, the LateAps only after it.
RespondLate == <<{1, 2}>>

\* Two cycles: APs 1 and 2 answer in time, the LateAps only after it.
RespondLateTwice == <<{1, 2}, {1, 2}>>
=============================================================================
