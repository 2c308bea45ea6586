------------------------------ MODULE Allocator ------------------------------
(***************************************************************************)
(* What the loader's heap (utils/memory/memory.c) promises its callers,    *)
(* without the bump pointer or the page rounding that implement it: once   *)
(* the arena [base, tops) is set, every call either fails with NULL        *)
(* ("resource exhaustion ... returns a null/failure result", spec section  *)
(* 7) or hands out a block that lies in the arena and shares no byte with  *)
(* a block handed out before; nothing is ever given back.                  *)
(*                                                                         *)
(* Blocks are records [addr, size]; an empty block overlaps nothing.       *)
(***************************************************************************)
EXTENDS Integers

CONSTANT NULL   \* the failure result

VARIABLES
  arena,    \* [base, tops] of the heap
  owned,    \* the blocks handed out so far
  result    \* what the last call returned

avars == <<arena, owned, result>>

InArena(b) == arena.base <= b.addr /\ b.addr + b.size <= arena.tops

Apart(b, c) ==
  b.size = 0 \/ c.size = 0 \/ b.addr + b.size <= c.addr \/ c.addr + c.size <= b.addr

\* Whatever arena the boot starts with; nothing is handed out yet.
Init == owned = {}

\* The arena is set before the first block is handed out.
Setup ==
  /\ owned = {}
  /\ owned' = {}
  /\ UNCHANGED result

\* A call fails: NULL, and nothing else changes.
Refuse ==
  /\ result' = NULL
  /\ UNCHANGED <<arena, owned>>

\* A call hands out one new block in the arena, apart from every other.
Grant ==
  /\ arena' = arena
  /\ owned \subseteq owned'
  /\ \E b \in owned' :
       /\ owned' = owned \cup {b}
       /\ result' = b.addr
       /\ InArena(b)
       /\ \A c \in owned : Apart(b, c)

Next == Setup \/ Refuse \/ Grant

Spec == Init /\ [][Next]_avars
=============================================================================
