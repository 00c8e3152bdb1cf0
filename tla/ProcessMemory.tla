--------------------------- MODULE ProcessMemory ---------------------------
(***************************************************************************)
(* Checkpoint and restore of a traced process                              *)
(* (src/controller/controller.go, src/state/state.go, src/state/memory.go).*)
(* A checkpoint records the registers of the traced threads, the list of   *)
(* mappings and the pages of the writable ones, and how many files are     *)
(* open, and clears the soft-dirty bits.  A restore moves the program      *)
(* break back, unmaps what is new if the number of mappings has changed,   *)
(* and writes the saved content to every page that is dirty, then the      *)
(* registers.                                                              *)
(*                                                                         *)
(* Between two operations of the controller the process runs: it writes,   *)
(* maps, unmaps, moves its break, opens and closes files.  What the kernel *)
(* does then is external to this repository and is modelled from what the  *)
(* code reads in /proc/pid/maps and /proc/pid/pagemap.                     *)
(*                                                                         *)
(* Abstractions: an area of memory is a range of pages of a small address  *)
(* space; its name and permissions are its kind; the registers of the      *)
(* traced threads are one value; the controller is attached, and one       *)
(* caller uses it at a time; reading and writing /proc does not fail.      *)
(***************************************************************************)
EXTENDS Naturals, Sequences, FiniteSets

CONSTANTS
  NumPages,        \* pages of the address space
  HeapStart,       \* first page of the heap
  Values,          \* contents of a page
  Registers,       \* values of the registers
  Zero,            \* the content of a fresh page
  InitialAreas,    \* the areas of the process when it is activated,
  InitialPage,     \* and the content of its pages
  Descriptors,     \* file descriptors it may open beside those it has then
  Parallelism,     \* batches a mapping is restored in (8 in the code)
  Behaviours,      \* what the process may do, see BehaviourKinds
  MaxCheckpoints   \* bound on the number of checkpoints

\* "break": moves its program break   "map": maps, and unmaps what it mapped
\* "grow": a saved mapping grows in place (a merge, mremap or a deeper stack)
\* "unmap": unmaps saved mappings     "thread": starts a thread
\* "file": opens and closes files
BehaviourKinds == {"break", "map", "grow", "unmap", "thread", "file"}

Page == 0 .. NumPages - 1
\* "kernel": [vvar], [vdso] and [vsyscall]
Kinds == {"heap", "stack", "anon", "code", "kernel"}
Area == [kind : Kinds, start : 0 .. NumPages, end : 0 .. NumPages]

PagesOf(a) == a.start .. a.end - 1
PagesIn(as) == UNION {PagesOf(a) : a \in as}
Writable(a) == a.kind \notin {"code", "kernel"}

\* Areas do not overlap, and the heap is one area at the place of the heap.
WellFormed(as) ==
  /\ as \subseteq Area
  /\ \A a \in as : /\ a.start < a.end
                   /\ a.kind = "heap" => a.start = HeapStart
                   /\ a.kind # "heap" => HeapStart \notin PagesOf(a)
  /\ \A a, b \in as : a # b => a.end <= b.start \/ b.end <= a.start

ASSUME ConstantsAssumption ==
  /\ NumPages \in Nat
  /\ HeapStart \in 0 .. NumPages
  /\ Zero \in Values
  /\ WellFormed(InitialAreas)
  /\ InitialPage \in [Page -> Values]
  /\ IsFiniteSet(Descriptors)
  /\ Parallelism \in Nat \ {0}
  /\ Behaviours \subseteq BehaviourKinds
  /\ MaxCheckpoints \in Nat

VARIABLES
  areas,        \* the lines of /proc/pid/maps
  page,         \* content of each page, Zero where nothing is mapped
  dirty,        \* pages whose soft-dirty bit is set
  files,        \* the entries of /proc/pid/fd beside the initial ones
  regs,         \* registers of the traced threads
  running,      \* the traced threads run
  stray,        \* threads that Attach did not list, hence not traced, run:
                \* "none", "late" (since the first checkpoint) or "early"
  checkpoints,  \* c.checkpoints
  saved,        \* the state TakeCheckpoint is about to append
  pc,           \* the next step of TakeCheckpoint or Restore
  fixup         \* local variable of Restore

process == <<areas, page, dirty, files>>
control == <<checkpoints, saved, pc, fixup>>
vars == <<process, regs, running, stray, control>>

States ==
  [areas : SUBSET Area, page : [Page -> Values], files : Nat,
   regs : Registers]

TypeOK ==
  /\ WellFormed(areas)
  /\ page \in [Page -> Values]
  /\ dirty \subseteq Page
  /\ files \subseteq Descriptors
  /\ regs \in Registers
  /\ running \in BOOLEAN
  /\ stray \in {"none", "early", "late"}
  /\ checkpoints \in Seq(States)
  /\ saved \in States
  /\ pc \in {"idle", "save", "clear", "break", "count", "fixup", "dirty", "regs",
             "continue"}
  /\ fixup \in BOOLEAN
  /\ pc # "idle" => ~ running
  /\ pc \notin {"idle", "save", "clear"} => checkpoints # << >>

\* newMemoryLocations: the mappings that the kernel owns are skipped.
NewMemoryLocations == {a \in areas : a.kind # "kernel"}

\* newFileDescriptors lists them; nothing but their number is looked at.
NewFileDescriptors == Cardinality(files)

\* The content of a state is not read yet.
NewState ==
  [areas |-> NewMemoryLocations, page |-> [p \in Page |-> Zero],
   files |-> NewFileDescriptors, regs |-> regs]

\* Activate has attached to the process and is about to take its checkpoint.
\* What the threads it traces do before that is in the initial memory.
Init ==
  /\ areas = InitialAreas
  /\ page = [p \in Page |->
               IF p \in PagesIn(InitialAreas) THEN InitialPage[p] ELSE Zero]
  /\ dirty = PagesIn(InitialAreas)
  /\ files = {}
  /\ regs \in Registers
  /\ running = TRUE
  /\ stray = "none"
  /\ checkpoints = << >>
  /\ saved = NewState
  /\ pc = "idle"
  /\ fixup = FALSE

----------------------------------------------------------------------------
(* What the kernel does to the memory of the process *)

BreakOf(as) ==
  IF \E a \in as : a.kind = "heap"
  THEN (CHOOSE a \in as : a.kind = "heap").end
  ELSE HeapStart

Free(P) == P \cap PagesIn(areas) = {}

\* The program break moves to e: pages above it go, fresh pages are dirty.
MoveBreak(e) ==
  LET b == BreakOf(areas) IN
  /\ areas' = {a \in areas : a.kind # "heap"}
       \cup {a \in {[kind |-> "heap", start |-> HeapStart, end |-> e]} :
               a.start < a.end}
  /\ page' = [p \in Page |-> IF p \in e .. b - 1 THEN Zero ELSE page[p]]
  /\ dirty' = (dirty \ (e .. b - 1)) \cup (b .. e - 1)

\* The areas left when the pages s .. e - 1 are unmapped.  An area that loses
\* pages in its middle becomes two.
Cut(as, s, e) ==
  {a \in as : a.end <= s \/ e <= a.start}
    \cup {[a EXCEPT !.end = s] : a \in {b \in as : b.start < s /\ s < b.end}}
    \cup {[a EXCEPT !.start = e] : a \in {b \in as : b.start < e /\ e < b.end}}

Forget(P) ==
  /\ page' = [p \in Page |-> IF p \in P THEN Zero ELSE page[p]]
  /\ dirty' = dirty \ P

SavedAreas == IF checkpoints = << >> THEN {} ELSE checkpoints[1].areas

MayRun ==
  /\ running \/ stray # "none"
  /\ checkpoints # << >> \/ pc # "idle"

Frame == UNCHANGED <<files, regs, running, stray, control>>

\* A write sets the soft-dirty bit of its page.
Write(p, v) ==
  /\ MayRun
  /\ \E a \in areas : Writable(a) /\ p \in PagesOf(a)
  /\ page' = [page EXCEPT ![p] = v]
  /\ dirty' = dirty \cup {p}
  /\ UNCHANGED areas
  /\ Frame

\* brk
SetBreak(e) ==
  /\ "break" \in Behaviours
  /\ MayRun
  /\ HeapStart <= e
  /\ Free(BreakOf(areas) .. e - 1)
  /\ MoveBreak(e)
  /\ Frame

\* mmap, of an area of its own
Map(s, e) ==
  /\ "map" \in Behaviours
  /\ MayRun
  /\ s < e /\ HeapStart \notin s .. e - 1
  /\ Free(s .. e - 1)
  /\ areas' = areas \cup {[kind |-> "anon", start |-> s, end |-> e]}
  /\ dirty' = dirty \cup (s .. e - 1)
  /\ UNCHANGED page
  /\ Frame

\* mmap next to an area it is merged with, mremap, or a stack that grows down
Grow(a, s, e) ==
  /\ "grow" \in Behaviours \/ ("map" \in Behaviours /\ a \notin SavedAreas)
  /\ MayRun
  /\ a.kind = "anon" \/ (a.kind = "stack" /\ e = a.end)
  /\ s <= a.start /\ a.end <= e /\ HeapStart \notin s .. e - 1
  /\ Free((s .. e - 1) \ PagesOf(a))
  /\ areas' = (areas \ {a}) \cup {[a EXCEPT !.start = s, !.end = e]}
  /\ dirty' = dirty \cup ((s .. e - 1) \ PagesOf(a))
  /\ UNCHANGED page
  /\ Frame

\* munmap, of any range above the heap that it may unmap
Unmap(s, e) ==
  /\ \/ "unmap" \in Behaviours
     \/ "map" \in Behaviours /\ (s .. e - 1) \cap PagesIn(SavedAreas) = {}
  /\ MayRun
  /\ s < e
  /\ \A a \in areas : a.kind = "heap" => (s .. e - 1) \cap PagesOf(a) = {}
  /\ areas' = Cut(areas, s, e)
  /\ Forget(s .. e - 1)
  /\ Frame

\* The traced threads compute in their registers.
Compute(v) ==
  /\ running /\ checkpoints # << >>
  /\ regs' = v
  /\ UNCHANGED <<process, running, stray, control>>

\* A thread is started.  Attach traced those it listed; this one is not, so
\* that Stop does not stop it and Restore does not know of it.
StartThread ==
  /\ "thread" \in Behaviours
  /\ running
  /\ stray' = IF checkpoints = << >> \/ stray = "early" THEN "early" ELSE "late"
  /\ UNCHANGED <<process, regs, running, control>>

\* open and close
OpenOrClose(d) ==
  /\ "file" \in Behaviours
  /\ MayRun
  /\ files' \in {files \cup {d}, files \ {d}}
  /\ UNCHANGED <<areas, page, dirty, regs, running, stray, control>>

ProcessStep ==
  \/ \E p \in Page, v \in Values : Write(p, v)
  \/ \E e \in 0 .. NumPages : SetBreak(e)
  \/ \E s, e \in 0 .. NumPages : Map(s, e) \/ Unmap(s, e)
  \/ \E a \in areas, s, e \in 0 .. NumPages : Grow(a, s, e)
  \/ \E v \in Registers : Compute(v)
  \/ StartThread
  \/ \E d \in Descriptors : OpenOrClose(d)

----------------------------------------------------------------------------
(* Deliberately wrong versions of definitions below.  No specification uses *)
(* them: each is put in place of the definition it is named after to show   *)
(* that a property can fail.                                                *)

\* The remainder of the division is given to no batch.
BatchNoRemainder(n, i) ==
  LET size == n \div Parallelism IN i * size .. (i + 1) * size - 1

\* The dirty pages of the mappings that are there now are restored, and not
\* those of the mappings that were saved.
ToRestoreCurrent(image) ==
  {p \in dirty : \E a \in areas \cap image.areas :
                   Writable(a) /\ p \in PagesOf(a)}

\* The checkpoint is taken without stopping the threads.
TakeCheckpointRunning ==
  /\ pc = "idle"
  /\ Len(checkpoints) < MaxCheckpoints
  /\ saved' = NewState
  /\ pc' = "save"
  /\ UNCHANGED <<process, regs, running, stray, checkpoints, fixup>>

\* The soft-dirty bits are cleared when the threads are stopped for a restore.
RestoreClears ==
  /\ pc = "idle"
  /\ running' = FALSE
  /\ pc' = IF checkpoints = << >> THEN "idle" ELSE "break"
  /\ fixup' = FALSE
  /\ dirty' = {}
  /\ UNCHANGED <<areas, page, files, regs, stray, checkpoints, saved>>

----------------------------------------------------------------------------
(* The controller: TakeCheckpoint *)

\* Stop, which stops the traced threads only, and State.
TakeCheckpoint ==
  /\ pc = "idle"
  /\ Len(checkpoints) < MaxCheckpoints
  /\ running' = FALSE
  /\ saved' = NewState
  /\ pc' = "save"
  /\ UNCHANGED <<process, regs, stray, checkpoints, fixup>>

PagesToSave == PagesIn({a \in saved.areas : Writable(a)})

\* The content of the writable locations, if they are all still mapped.
SaveWritablePages ==
  /\ pc = "save"
  /\ PagesToSave \subseteq PagesIn(areas)
  /\ saved' = [saved EXCEPT
                 !.page = [p \in Page |-> IF p \in PagesToSave THEN page[p] ELSE Zero]]
  /\ pc' = "clear"
  /\ UNCHANGED <<process, regs, running, stray, checkpoints, fixup>>

\* A thread that runs on has unmapped one: no checkpoint, and the traced
\* threads stay stopped.
SavePagesError ==
  /\ pc = "save"
  /\ ~ (PagesToSave \subseteq PagesIn(areas))
  /\ pc' = "idle"
  /\ UNCHANGED <<process, regs, running, stray, checkpoints, saved, fixup>>

\* ClearMemRefs, the append, and Continue.
ClearMemRefs ==
  /\ pc = "clear"
  /\ dirty' = {}
  /\ checkpoints' = Append(checkpoints, saved)
  /\ running' = TRUE
  /\ pc' = "idle"
  /\ UNCHANGED <<areas, page, files, regs, stray, saved, fixup>>

----------------------------------------------------------------------------
(* The controller: Restore, always of checkpoints[0] in the code *)

\* Stop.  Without a checkpoint this is an error; like every error of Restore
\* it leaves the threads stopped.
Restore ==
  /\ pc = "idle"
  /\ running' = FALSE
  /\ pc' = IF checkpoints = << >> THEN "idle" ELSE "break"
  /\ fixup' = FALSE
  /\ UNCHANGED <<process, regs, stray, checkpoints, saved>>

HasHeap(as) == \E a \in as : a.kind = "heap"

\* ProgramBreakChanged needs a heap in the checkpoint and one now, and
\* RestoreProgramBreak needs the pages below the break to be free.
BreakRestorable ==
  /\ HasHeap(checkpoints[1].areas) /\ HasHeap(areas)
  /\ Free(BreakOf(areas) .. BreakOf(checkpoints[1].areas) - 1)

RestoreProgramBreak ==
  /\ pc = "break"
  /\ BreakRestorable
  /\ MoveBreak(BreakOf(checkpoints[1].areas))
  /\ fixup' = (BreakOf(areas) # BreakOf(checkpoints[1].areas))
  /\ pc' = "count"
  /\ UNCHANGED <<files, regs, running, stray, checkpoints, saved>>

ProgramBreakError ==
  /\ pc = "break"
  /\ ~ BreakRestorable
  /\ pc' = "idle"
  /\ UNCHANGED <<process, regs, running, stray, checkpoints, saved, fixup>>

NumMemoryLocationsChanged ==
  Cardinality(NewMemoryLocations) # Cardinality(checkpoints[1].areas)

\* calculateNewLocations: a location is new if no saved one has its name and
\* its start.
NewLocations(image) ==
  {a \in NewMemoryLocations : \A b \in image.areas : a.kind # b.kind \/ a.start # b.start}

\* UnmapNewLocations, if the number of locations has changed.
UnmapNewLocations ==
  /\ pc = "count"
  /\ IF NumMemoryLocationsChanged
     THEN /\ areas' = areas \ NewLocations(checkpoints[1])
          /\ Forget(PagesIn(NewLocations(checkpoints[1])))
          /\ UNCHANGED files
          /\ fixup' = TRUE
     ELSE UNCHANGED <<process, fixup>>
  /\ pc' = "fixup"
  /\ UNCHANGED <<regs, running, stray, checkpoints, saved>>

\* FixupSyscallState, after system calls were run in the process: one thread
\* runs until it enters its next system call, and may write before that.
FixupSyscallState ==
  /\ pc = "fixup"
  /\ \/ UNCHANGED <<page, dirty, regs>>
     \/ /\ fixup
        /\ regs' \in Registers
        /\ \E p \in PagesIn({a \in areas : Writable(a)}), v \in Values :
             /\ page' = [page EXCEPT ![p] = v]
             /\ dirty' = dirty \cup {p}
  /\ pc' = "dirty"
  /\ UNCHANGED <<areas, files, running, stray, checkpoints, saved, fixup>>

\* The pages of batch i of a mapping of n pages, counted from its first page.
Batch(n, i) ==
  LET size == n \div Parallelism
      rest == IF i = Parallelism - 1 THEN n % Parallelism ELSE 0
  IN i * size .. (i + 1) * size + rest - 1

\* The pages restoreMemoryBatch writes: those of a saved writable mapping that
\* are in a batch and dirty now, wherever they are mapped now.
ToRestore(image) ==
  {p \in dirty : \E a \in image.areas :
     /\ Writable(a)
     /\ p \in PagesOf(a)
     /\ \E i \in 0 .. Parallelism - 1 : p - a.start \in Batch(a.end - a.start, i)}

\* The write through /proc/pid/mem leaves the page dirty.
RestoreDirtyPages ==
  /\ pc = "dirty"
  /\ page' = [p \in Page |-> IF p \in ToRestore(checkpoints[1])
                             THEN checkpoints[1].page[p] ELSE page[p]]
  /\ pc' = "regs"
  /\ UNCHANGED <<areas, dirty, files, regs, running, stray, checkpoints, saved,
                 fixup>>

RestoreRegs ==
  /\ pc = "regs"
  /\ regs' = checkpoints[1].regs
  /\ pc' = "continue"
  /\ UNCHANGED <<process, running, stray, checkpoints, saved, fixup>>

\* Restore has succeeded.
Continue ==
  /\ pc = "continue"
  /\ running' = TRUE
  /\ pc' = "idle"
  /\ UNCHANGED <<process, regs, stray, checkpoints, saved, fixup>>

ControllerStep ==
  \/ TakeCheckpoint \/ SaveWritablePages \/ SavePagesError \/ ClearMemRefs
  \/ Restore \/ RestoreProgramBreak \/ ProgramBreakError
  \/ UnmapNewLocations \/ FixupSyscallState \/ RestoreDirtyPages
  \/ RestoreRegs \/ Continue

Next == ProcessStep \/ ControllerStep

Spec == Init /\ [][Next]_vars

----------------------------------------------------------------------------
(* Properties *)

\* How the tests of this repository compare a process with a checkpoint.
MemoryChanged == NewMemoryLocations # checkpoints[1].areas
FdsChanged == NewFileDescriptors # checkpoints[1].files

SavedPages == PagesIn({a \in SavedAreas : Writable(a)})

\* What makes restoring only dirty pages enough: a page that still holds
\* something and is not dirty holds what it held at the first checkpoint.  A
\* page that was unmapped and mapped again is fresh, and dirty.  This is so even
\* of threads started since that run during a restore, but no longer after a
\* second checkpoint; nor of a thread that Attach did not list and that was there
\* before the first: what it writes after SaveWritablePages has read a page
\* (controller.go:213) and before ClearMemRefs (controller.go:217) is neither
\* saved nor dirty.
CleanPagesAreSaved ==
  Len(checkpoints) = 1 /\ stray # "early" =>
    \A p \in (SavedPages \cap PagesIn(areas)) \ dirty :
      page[p] = checkpoints[1].page[p]

\* Whatever the process has done to its mappings, every saved page that is
\* mapped when Restore lets the threads go holds its saved content; unless a
\* thread ran on meanwhile, or a second checkpoint was taken.
SavedPagesRestored ==
  pc = "continue" /\ stray = "none" /\ Len(checkpoints) = 1 =>
    \A p \in SavedPages \cap PagesIn(areas) : page[p] = checkpoints[1].page[p]

\* A restore never unmaps memory of the checkpoint: with the next property, the
\* part of restore_test.go:374 that a process relies on.  Of a process that
\* unmaps nothing itself.
SavedPagesStay ==
  pc = "continue" => PagesIn(SavedAreas) \subseteq PagesIn(areas)

\* restore_test.go:374 "leaves all memory the same as it was after restore":
\* the mappings are those of the checkpoint, and so are the writable pages.
LeavesMemoryTheSame ==
  pc = "continue" =>
    /\ ~MemoryChanged
    /\ \A p \in SavedPages : page[p] = checkpoints[1].page[p]

\* controller.go:323 "Restore returns process state to first checkpoint".  Of a
\* process that leaves its files alone: those it has opened stay open.
ReturnsToFirstCheckpoint ==
  pc = "continue" =>
    LeavesMemoryTheSame /\ regs = checkpoints[1].regs /\ ~FdsChanged
=============================================================================
