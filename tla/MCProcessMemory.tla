-------------------------- MODULE MCProcessMemory --------------------------
(***************************************************************************)
(* Instances of ProcessMemory for TLC.  LargeMapping has a heap of one     *)
(* page, a mapping of three pages (restored in a batch of one page and one *)
(* of two) with a free page on either side, code, and a mapping of the     *)
(* kernel's.  WithStack has a mapping of two pages and a stack, each with  *)
(* a free page below it to grow into.  Tight, for all behaviours, has a    *)
(* stack of two pages above the heap: it loses a page or both, grows back, *)
(* and the break and mappings of the process's own take the room.          *)
(***************************************************************************)
EXTENDS ProcessMemory

LargeMapping == {[kind |-> "heap", start |-> 0, end |-> 1],
                 [kind |-> "anon", start |-> 2, end |-> 5],
                 [kind |-> "code", start |-> 6, end |-> 7],
                 [kind |-> "kernel", start |-> 7, end |-> 8]}
WithStack == {[kind |-> "heap", start |-> 0, end |-> 1],
              [kind |-> "anon", start |-> 2, end |-> 4],
              [kind |-> "stack", start |-> 5, end |-> 6]}
Tight == {[kind |-> "heap", start |-> 0, end |-> 1],
          [kind |-> "stack", start |-> 1, end |-> 3]}
Bits == {0, 1}
OneValue == {0}
Alternating == [p \in Page |-> (p + 1) % 2]
AddsMemory == {"break", "map"}
Grows == {"map", "grow"}
AllBehaviours == BehaviourKinds
=============================================================================
