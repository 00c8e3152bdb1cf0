---------------------------- MODULE MemoryProofs ----------------------------
(***************************************************************************)
(* Theorems about ProcessMemory, for every address space, every initial    *)
(* memory and every number of batches.                                     *)
(***************************************************************************)
EXTENDS ProcessMemory, FiniteSetTheorems, SequenceTheorems, TLAPS

----------------------------------------------------------------------------
(* The batches of RestoreDirtyPages *)

\* The integer division leaves no page out, whatever the size of the mapping
\* and the number of goroutines: every page of the mapping is in a batch.
LEMMA BatchesCover ==
  ASSUME NEW n \in Nat, NEW k \in 0 .. n - 1
  PROVE  \E i \in 0 .. Parallelism - 1 : k \in Batch(n, i)
<1> DEFINE P == Parallelism
           q == n \div P
           r == n % P
<1>1. P \in Nat /\ P > 0
  BY ConstantsAssumption
<1>2. q \in Nat /\ r \in 0 .. P - 1 /\ n = P * q + r
  BY <1>1
<1> HIDE DEF P, q, r
<1>3. CASE q = 0
  <2>1. P * q = 0 /\ (P - 1) * q = 0 /\ (P - 1 + 1) * q = 0
    BY <1>1, <1>3
  <2>2. k \in (P - 1) * q .. (P - 1 + 1) * q + r - 1
    BY <1>1, <1>2, <2>1
  <2> QED BY <1>1, <2>2 DEF Batch, P, q, r
<1>4. CASE q > 0
  <2> DEFINE j == k \div q
             s == k % q
  <2>1. j \in Nat /\ s \in 0 .. q - 1 /\ k = q * j + s
    BY <1>2, <1>4
  <2> HIDE DEF j, s
  <2>2. CASE j < P - 1
    <3>1. PICK m \in Nat : m = q * j
      BY <1>2, <2>1
    <3>2. k \in j * q .. (j + 1) * q + 0 - 1
      <4>1. (j + 1) * q = m + q /\ j * q = m /\ k = m + s
        BY <1>2, <2>1, <3>1
      <4>2. k \in m .. (m + q) + 0 - 1
        BY <1>2, <2>1, <4>1
      <4> QED BY <4>1, <4>2, Zenon
    <3>3. j \in 0 .. P - 1 /\ j # P - 1
      BY <1>1, <2>1, <2>2
    <3> QED BY <3>2, <3>3 DEF Batch, P, q
  <2>3. CASE j >= P - 1
    <3>1. q * j >= q * (P - 1)
      BY <1>1, <1>2, <2>1, <2>3
    <3>2. (P - 1) * q = q * (P - 1) /\ (P - 1 + 1) * q = P * q
      BY <1>1, <1>2
    <3>3. k \in (P - 1) * q .. (P - 1 + 1) * q + r - 1
      BY <1>1, <1>2, <2>1, <3>1, <3>2
    <3> QED BY <1>1, <3>3 DEF Batch, P, q, r
  <2> QED BY <1>1, <2>1, <2>2, <2>3
<1> QED BY <1>2, <1>3, <1>4

----------------------------------------------------------------------------
(* Areas *)

LEMMA Sizes == NumPages \in Nat /\ HeapStart \in Nat /\ HeapStart <= NumPages
BY ConstantsAssumption

LEMMA AreaTypes ==
  ASSUME NEW a \in Area
  PROVE  /\ a.kind \in Kinds
         /\ a.start \in Nat /\ a.start <= NumPages
         /\ a.end \in Nat /\ a.end <= NumPages
BY Sizes DEF Area

LEMMA AreaEqual ==
  ASSUME NEW a \in Area, NEW b \in Area,
         a.kind = b.kind, a.start = b.start, a.end = b.end
  PROVE  a = b
BY DEF Area

LEMMA PagesInAreas ==
  ASSUME NEW as, NEW p
  PROVE  p \in PagesIn(as) <=> \E a \in as : p \in PagesOf(a)
BY DEF PagesIn

\* Areas that do not overlap do not start at the same page.
LEMMA SameStart ==
  ASSUME NEW as, WellFormed(as), NEW a \in as, NEW b \in as,
         a.start = b.start
  PROVE  a = b
<1>1. a \in Area /\ b \in Area /\ a.start < a.end /\ b.start < b.end
  BY DEF WellFormed
<1>2. a # b => a.end <= b.start \/ b.end <= a.start
  BY DEF WellFormed
<1> QED BY <1>1, <1>2, AreaTypes

LEMMA AreaPages ==
  ASSUME NEW as, WellFormed(as)
  PROVE  PagesIn(as) \subseteq Page
<1>1. ASSUME NEW p \in PagesIn(as) PROVE p \in Page
  <2>1. PICK a \in as : p \in PagesOf(a)
    BY PagesInAreas
  <2>2. a \in Area
    BY DEF WellFormed
  <2> QED BY <2>1, <2>2, AreaTypes, Sizes DEF PagesOf, Page
<1> QED BY <1>1

LEMMA WellFormedFinite ==
  ASSUME NEW as, WellFormed(as)
  PROVE  IsFiniteSet(as)
<1> DEFINE f == [a \in as |-> a.start]
<1>1. f \in Injection(as, 0 .. NumPages)
  BY SameStart DEF WellFormed, Area, Injection, IsInjective
<1>2. IsFiniteSet(0 .. NumPages)
  BY ConstantsAssumption, FS_Interval
<1> QED BY <1>1, <1>2, FS_Injection

\* Ranges that share no page are one below the other.
LEMMA Apart ==
  ASSUME NEW s \in Nat, NEW e \in Nat, NEW t \in Nat, NEW d \in Nat,
         s < e, t < d, (s .. e - 1) \cap (t .. d - 1) = {}
  PROVE  e <= t \/ d <= s
<1>1. s \in s .. e - 1 /\ t \in t .. d - 1
  OBVIOUS
<1>2. s \notin t .. d - 1 /\ t \notin s .. e - 1
  BY <1>1
<1> QED BY <1>2

LEMMA BreakFacts ==
  ASSUME NEW as, WellFormed(as)
  PROVE  /\ BreakOf(as) \in HeapStart .. NumPages
         /\ HasHeap(as) => BreakOf(as) > HeapStart
         /\ \A a \in as : a.kind = "heap" =>
              a = [kind |-> "heap", start |-> HeapStart, end |-> BreakOf(as)]
<1>1. CASE HasHeap(as)
  <2> DEFINE h == CHOOSE a \in as : a.kind = "heap"
  <2>1. h \in as /\ h.kind = "heap"
    BY <1>1 DEF HasHeap
  <2>2. BreakOf(as) = h.end
    BY <1>1 DEF HasHeap, BreakOf
  <2> HIDE DEF h
  <2>3. \A a \in as : a.kind = "heap" => a = h
    BY <2>1, SameStart DEF WellFormed
  <2>4. h = [kind |-> "heap", start |-> HeapStart, end |-> h.end]
    BY <2>1 DEF WellFormed, Area
  <2>5. h.end \in HeapStart .. NumPages /\ h.end > HeapStart
    <3>1. h \in Area /\ h.start = HeapStart /\ h.start < h.end
      BY <2>1 DEF WellFormed
    <3> QED BY <3>1, AreaTypes, Sizes
  <2> QED BY <2>2, <2>3, <2>4, <2>5
<1>2. CASE ~ HasHeap(as)
  <2>1. BreakOf(as) = HeapStart /\ \A a \in as : a.kind # "heap"
    BY <1>2 DEF HasHeap, BreakOf
  <2>2. BreakOf(as) \in HeapStart .. NumPages
    BY <2>1, Sizes
  <2> QED BY <1>2, <2>1, <2>2
<1> QED BY <1>1, <1>2

\* Area x is what is left of area a, on one side of the pages s .. e - 1.
Piece(x, a, s, e) ==
  /\ x \in Area /\ x.kind = a.kind /\ x.start < x.end
  /\ a.start <= x.start /\ x.end <= a.end
  /\ \/ /\ x.start = a.start
        /\ x.end = IF a.end <= s THEN a.end ELSE s
        /\ x.end <= s
     \/ /\ x.start = IF e <= a.start THEN a.start ELSE e
        /\ x.end = a.end
        /\ e <= x.start

\* What munmap leaves: pieces of the areas, on either side of the range.
LEMMA CutPieces ==
  ASSUME NEW as, WellFormed(as),
         NEW s \in 0 .. NumPages, NEW e \in 0 .. NumPages, s < e,
         NEW x \in Cut(as, s, e)
  PROVE  \E a \in as : Piece(x, a, s, e)
<1>1. CASE \E a \in as : x = a /\ (a.end <= s \/ e <= a.start)
  <2>1. PICK a \in as : x = a /\ (a.end <= s \/ e <= a.start)
    BY <1>1
  <2>2. a \in Area /\ a.start < a.end
    BY DEF WellFormed
  <2>3. /\ x \in Area /\ x.kind = a.kind
        /\ x.start = a.start /\ x.end = a.end
    BY <2>1, <2>2 DEF Area
  <2>4. Piece(x, a, s, e)
    BY <2>1, <2>2, <2>3, AreaTypes, Sizes DEF Piece
  <2> QED BY <2>4
<1>2. CASE \E a \in as : a.start < s /\ s < a.end /\ x = [a EXCEPT !.end = s]
  <2>1. PICK a \in as : a.start < s /\ s < a.end /\ x = [a EXCEPT !.end = s]
    BY <1>2
  <2>2. a \in Area /\ a.start < a.end
    BY DEF WellFormed
  <2>3. /\ x \in Area /\ x.kind = a.kind
        /\ x.start = a.start /\ x.end = s
    BY <2>1, <2>2 DEF Area
  <2>4. Piece(x, a, s, e)
    BY <2>1, <2>2, <2>3, AreaTypes, Sizes DEF Piece
  <2> QED BY <2>4
<1>3. CASE \E a \in as : a.start < e /\ e < a.end /\ x = [a EXCEPT !.start = e]
  <2>1. PICK a \in as : a.start < e /\ e < a.end /\ x = [a EXCEPT !.start = e]
    BY <1>3
  <2>2. a \in Area /\ a.start < a.end
    BY DEF WellFormed
  <2>3. /\ x \in Area /\ x.kind = a.kind
        /\ x.start = e /\ x.end = a.end
    BY <2>1, <2>2 DEF Area
  <2>4. Piece(x, a, s, e)
    BY <2>1, <2>2, <2>3, AreaTypes, Sizes DEF Piece
  <2> QED BY <2>4
<1> QED BY <1>1, <1>2, <1>3 DEF Cut

LEMMA CutFacts ==
  ASSUME NEW as, WellFormed(as),
         NEW s \in 0 .. NumPages, NEW e \in 0 .. NumPages, s < e,
         \A a \in as : a.kind = "heap" => (s .. e - 1) \cap PagesOf(a) = {}
  PROVE  /\ WellFormed(Cut(as, s, e))
         /\ PagesIn(Cut(as, s, e)) \subseteq PagesIn(as) \ (s .. e - 1)
<1> USE Sizes
<1> DEFINE cut == Cut(as, s, e)
<1>1. \A x \in cut : \E a \in as : Piece(x, a, s, e)
  BY CutPieces
<1> HIDE DEF cut
<1>2. cut \subseteq Area /\ \A x \in cut : x.start < x.end
  BY <1>1 DEF Piece
<1>3. ASSUME NEW x \in cut, NEW y \in cut, x # y
      PROVE  x.end <= y.start \/ y.end <= x.start
  <2>1. PICK a \in as : Piece(x, a, s, e)
    BY <1>1
  <2>2. PICK b \in as : Piece(y, b, s, e)
    BY <1>1
  <2>3. a \in Area /\ b \in Area
    BY DEF WellFormed
  <2>4. CASE a = b
    <3>1. ~ (x.start = y.start /\ x.end = y.end)
      BY <1>3, <2>1, <2>2, <2>4, AreaEqual DEF Piece
    <3>2. /\ x.start \in Nat /\ x.end \in Nat /\ y.start \in Nat
          /\ y.end \in Nat /\ a.start \in Nat /\ a.end \in Nat
      BY <2>1, <2>2, <2>3, AreaTypes DEF Piece
    <3> QED BY <2>1, <2>2, <2>4, <3>1, <3>2 DEF Piece
  <2>5. CASE a # b
    <3>1. a.end <= b.start \/ b.end <= a.start
      BY <2>5 DEF WellFormed
    <3> QED BY <2>1, <2>2, <2>3, <3>1, AreaTypes DEF Piece
  <2> QED BY <2>4, <2>5
<1>4. ASSUME NEW x \in cut
      PROVE  /\ x.kind = "heap" => x.start = HeapStart
             /\ x.kind # "heap" => HeapStart \notin PagesOf(x)
  <2>1. PICK a \in as : Piece(x, a, s, e)
    BY <1>1
  <2>2. a \in Area /\ a.start < a.end
    BY DEF WellFormed
  <2>3. CASE a.kind = "heap"
    <3>1. a.start = HeapStart
      BY <2>3 DEF WellFormed
    <3>2. (s .. e - 1) \cap (a.start .. a.end - 1) = {}
      BY <2>3 DEF PagesOf
    <3>3. s \in Nat /\ e \in Nat /\ a.start \in Nat /\ a.end \in Nat
      BY <2>2, AreaTypes
    <3>4. e <= a.start \/ a.end <= s
      BY <2>2, <3>2, <3>3, Apart
    <3> QED BY <2>1, <2>2, <2>3, <3>1, <3>3, <3>4, AreaTypes DEF Piece
  <2>4. CASE a.kind # "heap"
    <3>1. HeapStart \notin PagesOf(a)
      BY <2>4 DEF WellFormed
    <3> QED BY <2>1, <2>2, <2>4, <3>1, AreaTypes DEF Piece, PagesOf
  <2> QED BY <2>3, <2>4
<1>5. WellFormed(cut)
  BY <1>2, <1>3, <1>4 DEF WellFormed
<1>6. ASSUME NEW p \in PagesIn(cut) PROVE p \in PagesIn(as) /\ p \notin s .. e - 1
  <2>1. PICK x \in cut : p \in PagesOf(x)
    BY PagesInAreas
  <2>2. PICK a \in as :
           /\ x \in Area /\ x.start < x.end /\ a.start <= x.start /\ x.end <= a.end
           /\ x.end <= s \/ e <= x.start
    BY <1>1 DEF Piece
  <2>3. a \in Area
    BY DEF WellFormed
  <2>4. p \in PagesOf(a) /\ p \notin s .. e - 1
    BY <2>1, <2>2, <2>3, AreaTypes DEF PagesOf
  <2> QED BY <2>4, PagesInAreas
<1> QED BY <1>5, <1>6 DEF cut

LEMMA WellFormedSubset ==
  ASSUME NEW as, WellFormed(as), NEW bs \in SUBSET as
  PROVE  WellFormed(bs)
BY DEF WellFormed

LEMMA WellFormedAdd ==
  ASSUME NEW as, WellFormed(as),
         NEW a \in Area, a.start < a.end,
         a.kind = "heap" => a.start = HeapStart,
         a.kind # "heap" => HeapStart \notin PagesOf(a),
         \A b \in as : PagesOf(a) \cap PagesOf(b) = {}
  PROVE  WellFormed(as \cup {a})
<1>1. ASSUME NEW b \in as
      PROVE  a.end <= b.start \/ b.end <= a.start
  <2>1. b \in Area /\ b.start < b.end
    BY DEF WellFormed
  <2>2. (a.start .. a.end - 1) \cap (b.start .. b.end - 1) = {}
    BY DEF PagesOf
  <2> QED BY <2>1, <2>2, AreaTypes, Apart
<1> DEFINE all == as \cup {a}
<1>2. all \subseteq Area
  BY DEF WellFormed
<1>3. \A b \in all : /\ b.start < b.end
                     /\ b.kind = "heap" => b.start = HeapStart
                     /\ b.kind # "heap" => HeapStart \notin PagesOf(b)
  BY DEF WellFormed
<1>4. \A b, c \in all : b # c => b.end <= c.start \/ c.end <= b.start
  BY <1>1 DEF WellFormed
<1> QED BY <1>2, <1>3, <1>4 DEF WellFormed

----------------------------------------------------------------------------
(* What every change of the memory respects *)

MemoryOK ==
  /\ WellFormed(areas)
  /\ page \in [Page -> Values]
  /\ dirty \subseteq Page

\* A page that is mapped and clean after a step was so before, with the same
\* content: a fresh page is dirty, and so is a page that has been written.
KeepsClean ==
  \A p \in PagesIn(areas') \ dirty' :
    /\ p \in PagesIn(areas) \ dirty
    /\ page'[p] = page[p]

LEMMA MoveBreakStep ==
  ASSUME MemoryOK, NEW e \in HeapStart .. NumPages,
         Free(BreakOf(areas) .. e - 1), MoveBreak(e)
  PROVE  MemoryOK' /\ KeepsClean
<1> DEFINE b == BreakOf(areas)
           new == [kind |-> "heap", start |-> HeapStart, end |-> e]
           others == {a \in areas : a.kind # "heap"}
<1> USE Sizes
<1>1. /\ WellFormed(areas)
      /\ page \in [Page -> Values]
      /\ dirty \subseteq Page
  BY DEF MemoryOK
<1>2. /\ b \in HeapStart .. NumPages
      /\ HasHeap(areas) => b > HeapStart
      /\ \A a \in areas : a.kind = "heap" =>
           a = [kind |-> "heap", start |-> HeapStart, end |-> b]
  BY <1>1, BreakFacts
<1>3. /\ areas' = others \cup {a \in {new} : a.start < a.end}
      /\ page' = [p \in Page |-> IF p \in e .. b - 1 THEN Zero ELSE page[p]]
      /\ dirty' = (dirty \ (e .. b - 1)) \cup (b .. e - 1)
  BY DEF MoveBreak
<1>4. \A p \in PagesIn(areas) : p \notin b .. e - 1
  BY DEF Free
<1>5. ~ HasHeap(areas) => b = HeapStart
  BY DEF HasHeap, BreakOf
<1>6. HasHeap(areas) =>
        [kind |-> "heap", start |-> HeapStart, end |-> b] \in areas
  BY <1>2 DEF HasHeap
<1> HIDE DEF b
<1>7. ASSUME NEW a \in others
      PROVE  /\ a \in Area /\ a.start < a.end
             /\ a.end <= HeapStart \/ (b <= a.start /\ e <= a.start)
  <2>1. a \in Area /\ a.start < a.end /\ HeapStart \notin PagesOf(a)
    BY <1>1 DEF WellFormed
  <2>2. a.end <= HeapStart \/ HeapStart < a.start
    BY <2>1, AreaTypes DEF PagesOf
  <2>3. a.end <= HeapStart \/ b <= a.start
    <3>1. CASE HasHeap(areas)
      <4> DEFINE h == [kind |-> "heap", start |-> HeapStart, end |-> b]
      <4>1. h \in areas /\ h # a /\ h.start = HeapStart /\ h.end = b
        BY <1>6, <3>1
      <4>2. h.end <= a.start \/ a.end <= h.start
        BY <1>1, <4>1 DEF WellFormed
      <4> QED BY <4>1, <4>2
    <3>2. CASE ~ HasHeap(areas)
      BY <1>5, <2>1, <2>2, <3>2, AreaTypes
    <3> QED BY <3>1, <3>2
  <2>4. a.start \in PagesIn(areas)
    BY <2>1, AreaTypes, PagesInAreas DEF PagesOf
  <2>5. a.start \notin b .. e - 1
    BY <1>4, <2>4
  <2> QED BY <1>2, <2>1, <2>3, <2>5, AreaTypes
<1>8. WellFormed(others)
  BY <1>1, WellFormedSubset
<1>9. WellFormed(areas')
  <2>1. CASE HeapStart < e
    <3>1. /\ new \in Area /\ new.kind = "heap"
          /\ new.start = HeapStart /\ new.end = e
      BY DEF Area, Kinds
    <3>2. \A a \in others : PagesOf(new) \cap PagesOf(a) = {}
      BY <1>7, <3>1, AreaTypes DEF PagesOf
    <3> HIDE DEF new, others
    <3>3. WellFormed(others \cup {new})
      BY <1>8, <2>1, <3>1, <3>2, WellFormedAdd
    <3>4. areas' = others \cup {new}
      BY <1>3, <2>1, <3>1
    <3> QED BY <3>3, <3>4
  <2>2. CASE ~ (HeapStart < e)
    <3>1. areas' = others
      BY <1>3, <2>2
    <3> QED BY <1>8, <3>1
  <2> QED BY <2>1, <2>2
<1>10. page' \in [Page -> Values] /\ dirty' \subseteq Page
  BY <1>1, <1>2, <1>3, ConstantsAssumption DEF Page
<1>11. ASSUME NEW p \in PagesIn(areas') \ dirty'
       PROVE  p \in PagesIn(areas) \ dirty /\ page'[p] = page[p]
  <2>1. PICK a \in areas' : p \in PagesOf(a)
    BY PagesInAreas
  <2>2. p \in Page
    BY <1>9, AreaPages
  <2>3. p \notin b .. e - 1
    BY <1>3
  <2>4. p \in PagesIn(areas) /\ p \notin e .. b - 1
    <3>1. CASE a \in others
      <4>1. p \in PagesIn(areas)
        BY <2>1, <3>1, PagesInAreas
      <4>2. p \notin e .. b - 1
        BY <1>2, <1>7, <2>1, <3>1, AreaTypes DEF PagesOf
      <4> QED BY <4>1, <4>2
    <3>2. CASE a = new
      <4>1. p \in HeapStart .. e - 1
        BY <2>1, <3>2 DEF PagesOf
      <4>2. p < b
        BY <1>2, <2>3, <4>1
      <4>3. HasHeap(areas)
        BY <1>2, <1>5, <4>1, <4>2
      <4>4. p \in PagesOf([kind |-> "heap", start |-> HeapStart, end |-> b])
        BY <1>2, <4>1, <4>2 DEF PagesOf
      <4> QED BY <1>2, <1>6, <4>1, <4>3, <4>4, PagesInAreas
    <3> QED BY <1>3, <3>1, <3>2
  <2> QED BY <1>3, <2>2, <2>4
<1> QED BY <1>9, <1>10, <1>11 DEF MemoryOK, KeepsClean

LEMMA MapStep ==
  ASSUME MemoryOK, NEW s \in 0 .. NumPages, NEW e \in 0 .. NumPages, Map(s, e)
  PROVE  MemoryOK' /\ KeepsClean
<1> DEFINE new == [kind |-> "anon", start |-> s, end |-> e]
<1> USE Sizes
<1>1. /\ new \in Area /\ new.kind = "anon" /\ new.start < new.end
      /\ PagesOf(new) = s .. e - 1
      /\ HeapStart \notin PagesOf(new)
      /\ areas' = areas \cup {new}
      /\ page' = page
      /\ dirty' = dirty \cup (s .. e - 1)
      /\ (s .. e - 1) \cap PagesIn(areas) = {}
  BY DEF Map, Area, Kinds, PagesOf, Free
<1> HIDE DEF new
<1>2. \A a \in areas : PagesOf(new) \cap PagesOf(a) = {}
  BY <1>1, PagesInAreas
<1>3. WellFormed(areas')
  BY <1>1, <1>2, WellFormedAdd DEF MemoryOK
<1>4. dirty' \subseteq Page
  BY <1>1 DEF MemoryOK, Page
<1>5. ASSUME NEW p \in PagesIn(areas') \ dirty'
      PROVE  p \in PagesIn(areas) \ dirty
  BY <1>1, PagesInAreas
<1> QED BY <1>1, <1>3, <1>4, <1>5 DEF MemoryOK, KeepsClean

LEMMA GrowStep ==
  ASSUME MemoryOK, NEW a \in areas,
         NEW s \in 0 .. NumPages, NEW e \in 0 .. NumPages, Grow(a, s, e)
  PROVE  MemoryOK' /\ KeepsClean
<1> DEFINE new == [a EXCEPT !.start = s, !.end = e]
           others == areas \ {a}
<1> USE Sizes
<1>1. a \in Area /\ a.start < a.end
  BY DEF MemoryOK, WellFormed
<1>2. /\ new \in Area /\ new.kind = a.kind /\ new.start = s /\ new.end = e
      /\ areas' = others \cup {new}
      /\ page' = page
      /\ dirty' = dirty \cup ((s .. e - 1) \ PagesOf(a))
      /\ ((s .. e - 1) \ PagesOf(a)) \cap PagesIn(areas) = {}
      /\ s <= a.start /\ a.end <= e /\ HeapStart \notin s .. e - 1
      /\ a.kind # "heap"
  BY <1>1 DEF Grow, Area, Kinds, Free
<1> HIDE DEF new
<1>3. PagesOf(new) = s .. e - 1 /\ new.start < new.end
  BY <1>1, <1>2, AreaTypes DEF PagesOf
<1>4. ASSUME NEW b \in others
      PROVE  PagesOf(new) \cap PagesOf(b) = {}
  <2>1. PagesOf(b) \subseteq PagesIn(areas)
    BY PagesInAreas
  <2>2. b \in Area /\ (a.end <= b.start \/ b.end <= a.start)
    BY DEF MemoryOK, WellFormed
  <2>3. PagesOf(a) \cap PagesOf(b) = {}
    BY <1>1, <2>2, AreaTypes DEF PagesOf
  <2> QED BY <1>2, <1>3, <2>1, <2>3
<1>5. WellFormed(areas')
  <2>1. WellFormed(others)
    BY WellFormedSubset DEF MemoryOK
  <2> HIDE DEF others
  <2> QED BY <1>2, <1>3, <1>4, <2>1, WellFormedAdd
<1>6. dirty' \subseteq Page
  <2>1. s .. e - 1 \subseteq Page
    BY DEF Page
  <2> QED BY <1>2, <2>1 DEF MemoryOK
<1>7. ASSUME NEW p \in PagesIn(areas') \ dirty'
      PROVE  p \in PagesIn(areas) \ dirty
  BY <1>2, <1>3, PagesInAreas
<1> QED BY <1>2, <1>5, <1>6, <1>7 DEF MemoryOK, KeepsClean

LEMMA UnmapStep ==
  ASSUME MemoryOK, NEW s \in 0 .. NumPages, NEW e \in 0 .. NumPages,
         Unmap(s, e)
  PROVE  MemoryOK' /\ KeepsClean
<1>1. /\ s < e
      /\ \A a \in areas : a.kind = "heap" => (s .. e - 1) \cap PagesOf(a) = {}
      /\ areas' = Cut(areas, s, e)
      /\ page' = [p \in Page |-> IF p \in s .. e - 1 THEN Zero ELSE page[p]]
      /\ dirty' = dirty \ (s .. e - 1)
  BY DEF Unmap, Forget
<1>2. WellFormed(areas') /\ PagesIn(areas') \subseteq PagesIn(areas) \ (s .. e - 1)
  BY <1>1, CutFacts DEF MemoryOK
<1>3. PagesIn(areas') \subseteq Page
  BY <1>2, AreaPages
<1> QED BY <1>1, <1>2, <1>3, ConstantsAssumption DEF MemoryOK, KeepsClean

LEMMA UnchangedMemory ==
  ASSUME MemoryOK, UNCHANGED <<areas, page, dirty>>
  PROVE  MemoryOK' /\ KeepsClean
BY DEF MemoryOK, KeepsClean

LEMMA UnchangedStep ==
  ASSUME MemoryOK, UNCHANGED process
  PROVE  MemoryOK' /\ KeepsClean
BY UnchangedMemory DEF process

LEMMA UnmapNewLocationsStep ==
  ASSUME MemoryOK, UnmapNewLocations
  PROVE  MemoryOK' /\ KeepsClean
<1> DEFINE new == NewLocations(checkpoints[1])
<1>1. CASE NumMemoryLocationsChanged
  <2>1. /\ areas' = areas \ new
        /\ page' = [p \in Page |-> IF p \in PagesIn(new) THEN Zero ELSE page[p]]
        /\ dirty' = dirty \ PagesIn(new)
    BY <1>1 DEF UnmapNewLocations, Forget
  <2>2. new \subseteq areas
    BY DEF NewLocations, NewMemoryLocations
  <2> HIDE DEF new
  <2>3. WellFormed(areas')
    BY <2>1, WellFormedSubset DEF MemoryOK
  <2>4. PagesIn(areas') \subseteq Page
    BY <2>3, AreaPages
  <2>5. ASSUME NEW p \in PagesIn(areas')
        PROVE  p \in PagesIn(areas) /\ p \notin PagesIn(new)
    <3>1. PICK a \in areas \ new : p \in PagesOf(a)
      BY <2>1, PagesInAreas
    <3>2. ASSUME NEW b \in new, p \in PagesOf(b) PROVE FALSE
      <4>1. a \in Area /\ b \in Area /\ (a.end <= b.start \/ b.end <= a.start)
        BY <2>2 DEF MemoryOK, WellFormed
      <4> QED BY <3>1, <3>2, <4>1, AreaTypes DEF PagesOf
    <3> QED BY <3>1, <3>2, PagesInAreas
  <2> QED BY <2>1, <2>3, <2>4, <2>5, ConstantsAssumption DEF MemoryOK, KeepsClean
<1>2. CASE ~ NumMemoryLocationsChanged
  BY <1>2, UnchangedStep DEF UnmapNewLocations
<1> QED BY <1>1, <1>2

\* A write, of the process or of the controller, is to a page that is or
\* becomes dirty.
LEMMA WriteStep ==
  ASSUME MemoryOK, areas' = areas, page' \in [Page -> Values],
         dirty \subseteq dirty', dirty' \subseteq Page,
         \A p \in Page \ dirty' : page'[p] = page[p]
  PROVE  MemoryOK' /\ KeepsClean
<1>1. PagesIn(areas) \subseteq Page
  BY AreaPages DEF MemoryOK
<1> QED BY <1>1 DEF MemoryOK, KeepsClean

----------------------------------------------------------------------------
(* Type correctness *)

LEMMA ProcessStepMemory ==
  ASSUME MemoryOK, ProcessStep
  PROVE  MemoryOK' /\ KeepsClean
<1>1. ASSUME NEW p \in Page, NEW v \in Values, Write(p, v)
      PROVE  MemoryOK' /\ KeepsClean
  <2>1. /\ areas' = areas
        /\ page' = [page EXCEPT ![p] = v]
        /\ dirty' = dirty \cup {p}
    BY <1>1 DEF Write
  <2> QED BY <2>1, WriteStep DEF MemoryOK
<1>2. ASSUME NEW e \in 0 .. NumPages, SetBreak(e)
      PROVE  MemoryOK' /\ KeepsClean
  <2>1. /\ e \in HeapStart .. NumPages
        /\ Free(BreakOf(areas) .. e - 1)
        /\ MoveBreak(e)
    BY <1>2, Sizes DEF SetBreak
  <2> QED BY <2>1, MoveBreakStep
<1>3. ASSUME NEW s \in 0 .. NumPages, NEW e \in 0 .. NumPages,
             Map(s, e) \/ Unmap(s, e)
      PROVE  MemoryOK' /\ KeepsClean
  BY <1>3, MapStep, UnmapStep
<1>4. ASSUME NEW a \in areas, NEW s \in 0 .. NumPages, NEW e \in 0 .. NumPages,
             Grow(a, s, e)
      PROVE  MemoryOK' /\ KeepsClean
  BY <1>4, GrowStep
<1>5. CASE (\E v \in Registers : Compute(v)) \/ StartThread
  BY <1>5, UnchangedStep DEF Compute, StartThread
<1>6. CASE \E d \in Descriptors : OpenOrClose(d)
  BY <1>6, UnchangedMemory DEF OpenOrClose
<1> QED BY <1>1, <1>2, <1>3, <1>4, <1>5, <1>6 DEF ProcessStep

\* The inductive invariant: the break is restored to a page of the address
\* space, above HeapStart, because the mappings of a checkpoint were those of
\* the process.
ImageOK(as) == WellFormed(as) /\ \A a \in as : a.kind # "kernel"

ImagesOK ==
  /\ ImageOK(saved.areas)
  /\ \A i \in DOMAIN checkpoints : ImageOK(checkpoints[i].areas)

TypeInv == TypeOK /\ ImagesOK

\* What NewState gives is a state.
LEMMA NewStateOK ==
  ASSUME MemoryOK, files \subseteq Descriptors, regs \in Registers
  PROVE  NewState \in States /\ ImageOK(NewState.areas)
<1>1. WellFormed(NewMemoryLocations)
  BY WellFormedSubset DEF NewMemoryLocations, MemoryOK
<1>2. NewMemoryLocations \subseteq Area
  BY <1>1 DEF WellFormed
<1>3. [p \in Page |-> Zero] \in [Page -> Values]
  BY ConstantsAssumption
<1>4. NewFileDescriptors \in Nat
  BY ConstantsAssumption, FS_Subset, FS_CardinalityType DEF NewFileDescriptors
<1>5. ImageOK(NewMemoryLocations)
  BY <1>1 DEF ImageOK, NewMemoryLocations
<1> QED BY <1>2, <1>3, <1>4, <1>5 DEF NewState, States

\* The files of the process are its own to open and to close.
LEMMA ControllerStepFiles ==
  ASSUME ControllerStep
  PROVE  files' = files
<1>1. CASE TakeCheckpoint \/ ClearMemRefs \/ Restore \/ ProgramBreakError
  BY <1>1 DEF TakeCheckpoint, ClearMemRefs, Restore, ProgramBreakError, process
<1>2. CASE RestoreProgramBreak \/ UnmapNewLocations
  BY <1>2 DEF RestoreProgramBreak, UnmapNewLocations, process
<1>3. CASE FixupSyscallState \/ RestoreDirtyPages \/ RestoreRegs \/ Continue
  BY <1>3 DEF FixupSyscallState, RestoreDirtyPages, RestoreRegs, Continue, process
<1>4. CASE SaveWritablePages \/ SavePagesError
  BY <1>4 DEF SaveWritablePages, SavePagesError, process
<1> QED BY <1>1, <1>2, <1>3, <1>4 DEF ControllerStep

LEMMA FirstCheckpoint ==
  ASSUME TypeInv, checkpoints # << >>
  PROVE  /\ 1 \in DOMAIN checkpoints
         /\ checkpoints[1] \in States
         /\ WellFormed(checkpoints[1].areas)
         /\ ImageOK(checkpoints[1].areas)
<1>1. checkpoints \in Seq(States)
  BY DEF TypeInv, TypeOK
<1>2. 1 \in DOMAIN checkpoints /\ checkpoints[1] \in States
  BY <1>1
<1> QED BY <1>2 DEF TypeInv, ImagesOK, ImageOK

LEMMA ControllerStepMemory ==
  ASSUME TypeInv, ControllerStep, ~ ClearMemRefs
  PROVE  MemoryOK' /\ KeepsClean
<1>1. MemoryOK
  BY DEF TypeInv, TypeOK, MemoryOK
<1>2. CASE \/ TakeCheckpoint \/ SaveWritablePages \/ SavePagesError
           \/ Restore \/ ProgramBreakError \/ RestoreRegs \/ Continue
  <2>1. UNCHANGED process
    BY <1>2 DEF TakeCheckpoint, SaveWritablePages, SavePagesError, Restore,
                ProgramBreakError, RestoreRegs, Continue
  <2> QED BY <1>1, <2>1, UnchangedStep
<1>3. CASE RestoreProgramBreak
  <2> DEFINE image == checkpoints[1]
  <2>1. /\ BreakRestorable
        /\ MoveBreak(BreakOf(image.areas))
    BY <1>3 DEF RestoreProgramBreak
  <2>2. Free(BreakOf(areas) .. BreakOf(image.areas) - 1)
    BY <2>1 DEF BreakRestorable
  <2>3. WellFormed(image.areas)
    BY <1>3, FirstCheckpoint DEF RestoreProgramBreak, TypeInv, TypeOK
  <2>4. BreakOf(image.areas) \in HeapStart .. NumPages
    BY <2>3, BreakFacts
  <2> QED BY <1>1, <2>1, <2>2, <2>4, MoveBreakStep
<1>4. CASE UnmapNewLocations
  BY <1>1, <1>4, UnmapNewLocationsStep
<1>5. CASE FixupSyscallState
  <2>1. CASE UNCHANGED <<page, dirty, regs>>
    <3>1. UNCHANGED process
      BY <1>5, <2>1 DEF FixupSyscallState, process
    <3> QED BY <1>1, <3>1, UnchangedStep
  <2>2. CASE ~ UNCHANGED <<page, dirty, regs>>
    <3>1. PICK p \in PagesIn({a \in areas : Writable(a)}), v \in Values :
            /\ page' = [page EXCEPT ![p] = v]
            /\ dirty' = dirty \cup {p}
      BY <1>5, <2>2 DEF FixupSyscallState
    <3>2. areas' = areas
      BY <1>5 DEF FixupSyscallState
    <3>3. p \in Page
      <4> DEFINE writable == {a \in areas : Writable(a)}
      <4>1. WellFormed(writable)
        BY <1>1, WellFormedSubset DEF MemoryOK
      <4> QED BY <4>1, AreaPages
    <3> QED BY <1>1, <3>1, <3>2, <3>3, WriteStep DEF MemoryOK
  <2> QED BY <2>1, <2>2
<1>6. CASE RestoreDirtyPages
  <2>1. /\ areas' = areas
        /\ dirty' = dirty
        /\ page' = [p \in Page |-> IF p \in ToRestore(checkpoints[1])
                                   THEN checkpoints[1].page[p] ELSE page[p]]
    BY <1>6 DEF RestoreDirtyPages
  <2>2. checkpoints[1].page \in [Page -> Values]
    <3>1. checkpoints # << >>
      BY <1>6 DEF RestoreDirtyPages, TypeInv, TypeOK
    <3> QED BY <3>1, FirstCheckpoint DEF States
  <2>3. ToRestore(checkpoints[1]) \subseteq dirty
    BY DEF ToRestore
  <2> HIDE DEF ToRestore
  <2>4. page' \in [Page -> Values] /\ \A p \in Page \ dirty : page'[p] = page[p]
    BY <1>1, <2>1, <2>2, <2>3 DEF MemoryOK
  <2> QED BY <1>1, <2>1, <2>4, WriteStep DEF MemoryOK
<1> QED BY <1>2, <1>3, <1>4, <1>5, <1>6 DEF ControllerStep

\* The process does not touch what belongs to the controller, and before the
\* first checkpoint only a thread that Attach did not list works.
LEMMA ProcessStepControl ==
  ASSUME TypeOK, ProcessStep
  PROVE  /\ UNCHANGED <<running, control>>
         /\ running \/ stray # "none"
         /\ regs' \in Registers
         /\ files' \subseteq Descriptors
         /\ "file" \notin Behaviours => files' = files
         /\ stray' # stray => "thread" \in Behaviours
         /\ stray = "early" => stray' = "early"
         /\ stray' = "late" => checkpoints # << >> \/ stray = "late"
         /\ checkpoints = << >> /\ (pc = "idle" \/ stray = "none") =>
              UNCHANGED process
         /\ stray' \in {"none", "early", "late"}
<1>1. /\ regs \in Registers /\ files \subseteq Descriptors
      /\ stray \in {"none", "early", "late"}
      /\ pc # "idle" => ~ running
  BY DEF TypeOK
<1>2. CASE \E p \in Page, v \in Values : Write(p, v)
  BY <1>1, <1>2 DEF Write, Frame, MayRun
<1>3. CASE \E e \in 0 .. NumPages : SetBreak(e)
  BY <1>1, <1>3 DEF SetBreak, Frame, MayRun
<1>4. CASE \E s, e \in 0 .. NumPages : Map(s, e) \/ Unmap(s, e)
  BY <1>1, <1>4 DEF Map, Unmap, Frame, MayRun
<1>5. CASE \E a \in areas, s, e \in 0 .. NumPages : Grow(a, s, e)
  BY <1>1, <1>5 DEF Grow, Frame, MayRun
<1>6. CASE \E v \in Registers : Compute(v)
  BY <1>1, <1>6 DEF Compute, process
<1>7. CASE StartThread
  BY <1>1, <1>7 DEF StartThread, process
<1>8. CASE \E d \in Descriptors : OpenOrClose(d)
  BY <1>1, <1>8 DEF OpenOrClose, MayRun
<1> QED BY <1>2, <1>3, <1>4, <1>5, <1>6, <1>7, <1>8 DEF ProcessStep

LEMMA InitTypeInv == Init => TypeInv
<1> SUFFICES ASSUME Init PROVE TypeInv
  OBVIOUS
<1>1. WellFormed(areas)
  BY ConstantsAssumption DEF Init
<1>2. /\ page \in [Page -> Values] /\ regs \in Registers
      /\ files = {} /\ files \subseteq Descriptors
  BY ConstantsAssumption DEF Init
<1>3. dirty \subseteq Page
  BY <1>1, AreaPages DEF Init
<1>4. MemoryOK
  BY <1>1, <1>2, <1>3 DEF MemoryOK
<1>5. saved \in States /\ ImageOK(saved.areas)
  BY <1>2, <1>4, NewStateOK DEF Init
<1>6. /\ running \in BOOLEAN /\ stray \in {"none", "early", "late"}
      /\ fixup \in BOOLEAN
      /\ checkpoints = << >> /\ pc = "idle"
  BY DEF Init
<1> QED BY <1>1, <1>2, <1>3, <1>5, <1>6 DEF TypeInv, TypeOK, ImagesOK

LEMMA StepTypeInv == TypeInv /\ [Next]_vars => TypeInv'
<1> SUFFICES ASSUME TypeInv, [Next]_vars PROVE TypeInv'
  OBVIOUS
<1>1. TypeOK /\ ImagesOK /\ MemoryOK
  BY DEF TypeInv, TypeOK, MemoryOK
<1>2. CASE ProcessStep
  <2>1. MemoryOK'
    BY <1>1, <1>2, ProcessStepMemory
  <2>2. /\ regs' \in Registers /\ files' \subseteq Descriptors
        /\ stray' \in {"none", "early", "late"}
    BY <1>1, <1>2, ProcessStepControl
  <2>3. /\ running' = running /\ checkpoints' = checkpoints
        /\ saved' = saved /\ pc' = pc /\ fixup' = fixup
    BY <1>1, <1>2, ProcessStepControl DEF control
  <2>4. ImagesOK'
    BY <1>1, <2>3 DEF ImagesOK
  <2>5. TypeOK'
    BY <1>1, <2>1, <2>2, <2>3 DEF TypeOK, MemoryOK
  <2> QED BY <2>4, <2>5 DEF TypeInv
<1>3. CASE ClearMemRefs
  <2>1. /\ MemoryOK'
        /\ UNCHANGED <<regs, stray, saved, fixup>>
        /\ running' = TRUE /\ pc' = "idle"
        /\ files' = files
    BY <1>1, <1>3 DEF ClearMemRefs, MemoryOK
  <2>2. /\ checkpoints' \in Seq(States)
        /\ \A i \in DOMAIN checkpoints' : ImageOK(checkpoints'[i].areas)
    <3>1. checkpoints' = Append(checkpoints, saved)
      BY <1>3 DEF ClearMemRefs
    <3>2. checkpoints \in Seq(States) /\ saved \in States
      BY <1>1 DEF TypeOK
    <3>3. \A i \in DOMAIN checkpoints' :
            checkpoints'[i] = IF i \in DOMAIN checkpoints
                              THEN checkpoints[i] ELSE saved
      BY <3>1, <3>2
    <3> QED BY <1>1, <3>1, <3>2, <3>3 DEF ImagesOK
  <2> QED BY <1>1, <2>1, <2>2 DEF TypeInv, TypeOK, ImagesOK, MemoryOK
<1>4. CASE ControllerStep /\ ~ ClearMemRefs
  <2>1. MemoryOK' /\ files' = files
    BY <1>4, ControllerStepMemory, ControllerStepFiles
  <2>2. CASE TakeCheckpoint
    <3>1. saved' \in States /\ ImageOK(saved'.areas)
      BY <1>1, <2>2, NewStateOK DEF TakeCheckpoint, TypeOK
    <3> QED BY <1>1, <2>1, <2>2, <3>1
            DEF TakeCheckpoint, TypeInv, TypeOK, ImagesOK, MemoryOK
  <2>3. ASSUME /\ UNCHANGED <<checkpoints, saved, stray>>
               /\ regs' \in Registers /\ running' \in BOOLEAN
               /\ fixup' \in BOOLEAN
               /\ pc' \in {"idle", "save", "clear", "break", "count", "fixup",
                           "dirty", "regs", "continue"}
               /\ pc' # "idle" => ~ running'
               /\ pc' \notin {"idle", "save", "clear"} => checkpoints # << >>
        PROVE  TypeInv'
    BY <1>1, <2>1, <2>3 DEF TypeInv, TypeOK, ImagesOK, MemoryOK
  <2>4. CASE Restore
    BY <1>1, <2>3, <2>4 DEF Restore, TypeOK
  <2>5. CASE RestoreProgramBreak
    BY <1>1, <2>3, <2>5 DEF RestoreProgramBreak, TypeOK
  <2>6. CASE ProgramBreakError
    BY <1>1, <2>3, <2>6 DEF ProgramBreakError, TypeOK
  <2>7. CASE UnmapNewLocations
    BY <1>1, <2>3, <2>7 DEF UnmapNewLocations, TypeOK
  <2>8. CASE FixupSyscallState
    BY <1>1, <2>3, <2>8 DEF FixupSyscallState, TypeOK
  <2>9. CASE RestoreDirtyPages
    BY <1>1, <2>3, <2>9 DEF RestoreDirtyPages, TypeOK
  <2>10. CASE RestoreRegs
    <3>1. checkpoints # << >>
      BY <1>1, <2>10 DEF RestoreRegs, TypeOK
    <3>2. regs' \in Registers
      BY <2>10, <3>1, FirstCheckpoint DEF RestoreRegs, States
    <3> QED BY <1>1, <2>3, <2>10, <3>2 DEF RestoreRegs, TypeOK
  <2>11. CASE Continue
    BY <1>1, <2>3, <2>11 DEF Continue, TypeOK
  <2>12. CASE SaveWritablePages
    <3>1. /\ saved' = [saved EXCEPT !.page = [p \in Page |->
                          IF p \in PagesToSave THEN page[p] ELSE Zero]]
          /\ UNCHANGED <<regs, running, stray, checkpoints, fixup>>
          /\ pc = "save" /\ pc' = "clear"
      BY <2>12 DEF SaveWritablePages
    <3>2. [p \in Page |-> IF p \in PagesToSave THEN page[p] ELSE Zero]
            \in [Page -> Values]
      BY <1>1, ConstantsAssumption DEF MemoryOK
    <3>3. saved' \in States /\ saved'.areas = saved.areas
      BY <1>1, <3>1, <3>2 DEF TypeOK, States
    <3>4. ImageOK(saved'.areas)
      BY <1>1, <3>3 DEF ImagesOK
    <3> QED BY <1>1, <2>1, <3>1, <3>3, <3>4 DEF TypeInv, TypeOK, ImagesOK, MemoryOK
  <2>13. CASE SavePagesError
    BY <1>1, <2>3, <2>13 DEF SavePagesError, TypeOK
  <2> QED BY <1>4, <2>2, <2>4, <2>5, <2>6, <2>7, <2>8, <2>9, <2>10, <2>11, <2>12,
             <2>13
          DEF ControllerStep
<1>5. CASE UNCHANGED vars
  BY <1>1, <1>5 DEF vars, process, control, TypeInv, TypeOK, ImagesOK
<1> QED BY <1>2, <1>3, <1>4, <1>5 DEF Next

\* Every state of TakeCheckpoint, Restore and the process has its type: the
\* mappings never overlap, the threads are stopped while the controller
\* works, and it never restores without a checkpoint.  This holds whatever the
\* process does.
THEOREM TypeCorrect == Spec => []TypeOK
<1>1. TypeInv => TypeOK
  BY DEF TypeInv
<1>2. QED
  BY InitTypeInv, StepTypeInv, <1>1, PTL DEF Spec

----------------------------------------------------------------------------
(* Clean pages hold what they held at the first checkpoint *)

\* Only ClearMemRefs appends a checkpoint.
LEMMA ControllerStepFrame ==
  ASSUME ControllerStep, ~ ClearMemRefs
  PROVE  /\ checkpoints' = checkpoints /\ stray' = stray
         /\ pc' = "save" => Len(checkpoints) < MaxCheckpoints
         /\ pc' = "clear" => pc = "save"
<1>1. CASE TakeCheckpoint
  BY <1>1 DEF TakeCheckpoint
<1>2. CASE Restore \/ RestoreProgramBreak \/ ProgramBreakError
  BY <1>2 DEF Restore, RestoreProgramBreak, ProgramBreakError
<1>3. CASE UnmapNewLocations
  BY <1>3 DEF UnmapNewLocations
<1>4. CASE FixupSyscallState
  BY <1>4 DEF FixupSyscallState
<1>5. CASE RestoreDirtyPages \/ RestoreRegs \/ Continue
  BY <1>5 DEF RestoreDirtyPages, RestoreRegs, Continue
<1>6. CASE SaveWritablePages \/ SavePagesError
  BY <1>6 DEF SaveWritablePages, SavePagesError
<1> QED BY <1>1, <1>2, <1>3, <1>4, <1>5, <1>6 DEF ControllerStep

CleanPages ==
  Len(checkpoints) = 1 =>
    \A p \in (SavedPages \cap PagesIn(areas)) \ dirty :
      page[p] = checkpoints[1].page[p]

\* What is about to be saved is what is there, and once the pages are read so is
\* their content.
SavedIsThere ==
  /\ pc \in {"save", "clear"} => /\ saved.areas = NewMemoryLocations
                                 /\ saved.files = NewFileDescriptors
  /\ pc = "clear" => \A p \in PagesToSave : saved.page[p] = page[p]

\* Until the first checkpoint is appended the process does not run, unless a
\* thread was there that Attach did not list, so that the pages are still those
\* that were saved when the soft-dirty bits are cleared.
CleanInv ==
  /\ TypeInv
  /\ stray = "late" => checkpoints # << >>
  /\ stray # "early" => CleanPages /\ (checkpoints = << >> => SavedIsThere)

LEMMA InitCleanInv == Init => CleanInv
<1>1. Init => pc = "idle" /\ Len(checkpoints) = 0 /\ stray = "none"
  BY DEF Init
<1> QED BY <1>1, InitTypeInv DEF CleanInv, CleanPages, SavedIsThere

\* Pages that are not written and mappings that are not changed.
LEMMA SavedStaysThere ==
  ASSUME SavedIsThere, UNCHANGED <<process, saved, pc>>
  PROVE  SavedIsThere'
BY DEF SavedIsThere, process, NewMemoryLocations, NewFileDescriptors,
       PagesToSave, Writable

LEMMA SavePagesSaves ==
  ASSUME TypeInv, SavedIsThere, SaveWritablePages
  PROVE  SavedIsThere'
<1>1. /\ saved' = [saved EXCEPT !.page = [p \in Page |->
                       IF p \in PagesToSave THEN page[p] ELSE Zero]]
      /\ UNCHANGED process
      /\ pc = "save" /\ pc' = "clear"
  BY DEF SaveWritablePages
<1>2. /\ saved'.areas = saved.areas /\ saved'.files = saved.files
      /\ saved'.page = [p \in Page |->
                          IF p \in PagesToSave THEN page[p] ELSE Zero]
  BY <1>1 DEF TypeInv, TypeOK, States
<1>3. /\ NewMemoryLocations' = NewMemoryLocations
      /\ NewFileDescriptors' = NewFileDescriptors
      /\ PagesToSave' = PagesToSave
  BY <1>1, <1>2 DEF process, NewMemoryLocations, NewFileDescriptors,
                    PagesToSave, Writable
<1>4. PagesToSave \subseteq Page
  <2>1. WellFormed(saved.areas)
    BY DEF TypeInv, ImagesOK, ImageOK
  <2>2. WellFormed({a \in saved.areas : Writable(a)})
    BY <2>1, WellFormedSubset
  <2> QED BY <2>2, AreaPages DEF PagesToSave
<1>5. page' = page
  BY <1>1 DEF process
<1> QED BY <1>1, <1>2, <1>3, <1>4, <1>5 DEF SavedIsThere

LEMMA StepCleanInv == CleanInv /\ [Next]_vars => CleanInv'
<1> SUFFICES ASSUME CleanInv, [Next]_vars PROVE CleanInv'
  OBVIOUS
<1>1. /\ TypeInv /\ TypeOK /\ MemoryOK
      /\ stray = "late" => checkpoints # << >>
      /\ stray # "early" => CleanPages /\ (checkpoints = << >> => SavedIsThere)
      /\ checkpoints \in Seq(States)
      /\ stray \in {"none", "early", "late"}
  BY DEF CleanInv, TypeInv, TypeOK, MemoryOK
<1>2. TypeInv'
  BY <1>1, StepTypeInv
<1>3. ASSUME KeepsClean, checkpoints' = checkpoints, CleanPages
      PROVE  CleanPages'
  <2>1. SavedPages' = SavedPages
    BY <1>3 DEF SavedPages, SavedAreas
  <2> QED BY <1>3, <2>1 DEF KeepsClean, CleanPages
<1>4. CASE ProcessStep
  <2>1. KeepsClean
    BY <1>1, <1>4, ProcessStepMemory
  <2>2. /\ checkpoints' = checkpoints /\ saved' = saved /\ pc' = pc
        /\ stray = "early" => stray' = "early"
        /\ stray' = "late" => checkpoints # << >> \/ stray = "late"
        /\ checkpoints = << >> /\ stray = "none" => UNCHANGED process
    BY <1>1, <1>4, ProcessStepControl DEF control
  <2>3. stray' # "early" => CleanPages'
    BY <1>1, <1>3, <2>1, <2>2
  <2>4. stray' # "early" /\ checkpoints = << >> => SavedIsThere'
    <3>1. SUFFICES ASSUME stray' # "early", checkpoints = << >>
                   PROVE  SavedIsThere'
      OBVIOUS
    <3>2. stray = "none" /\ SavedIsThere /\ UNCHANGED <<process, saved, pc>>
      BY <1>1, <2>2, <3>1
    <3> QED BY <3>2, SavedStaysThere
  <2> QED BY <1>1, <1>2, <2>2, <2>3, <2>4 DEF CleanInv
<1>5. CASE ClearMemRefs
  <2>1. /\ pc = "clear" /\ pc' = "idle" /\ page' = page /\ stray' = stray
        /\ checkpoints' = Append(checkpoints, saved)
    BY <1>5 DEF ClearMemRefs
  <2>2. checkpoints' # << >>
    BY <1>1, <2>1
  <2>3. ASSUME stray # "early" PROVE CleanPages'
    <3>1. SUFFICES ASSUME Len(checkpoints') = 1,
                          NEW p \in SavedPages', p \in PagesIn(areas')
                   PROVE  page'[p] = checkpoints'[1].page[p]
      BY DEF CleanPages
    <3>2. Len(checkpoints) = 0
      BY <1>1, <2>1, <3>1
    <3>3. checkpoints = << >> /\ checkpoints'[1] = saved
      BY <1>1, <2>1, <3>2
    <3>4. SavedIsThere
      BY <1>1, <2>3, <3>3
    <3>5. p \in PagesToSave
      BY <2>2, <3>1, <3>3 DEF SavedPages, SavedAreas, PagesToSave, Writable
    <3> QED BY <2>1, <3>3, <3>4, <3>5 DEF SavedIsThere
  <2> QED BY <1>1, <1>2, <2>1, <2>2, <2>3 DEF CleanInv
<1>6. CASE ControllerStep /\ ~ ClearMemRefs
  <2>1. KeepsClean
    BY <1>1, <1>6, ControllerStepMemory
  <2>2. checkpoints' = checkpoints /\ stray' = stray
    BY <1>6, ControllerStepFrame
  <2>3. ASSUME stray # "early", checkpoints = << >> PROVE SavedIsThere'
    <3>1. SavedIsThere
      BY <1>1, <2>3
    <3>2. CASE TakeCheckpoint
      <4>1. saved' = NewState /\ UNCHANGED process /\ pc' = "save"
        BY <3>2 DEF TakeCheckpoint
      <4>2. /\ saved'.areas = NewMemoryLocations'
            /\ saved'.files = NewFileDescriptors'
        BY <4>1 DEF NewState, NewMemoryLocations, NewFileDescriptors, process
      <4> QED BY <4>1, <4>2 DEF SavedIsThere
    <3>3. CASE SaveWritablePages
      BY <1>1, <3>1, <3>3, SavePagesSaves
    <3>4. CASE ~ TakeCheckpoint /\ ~ SaveWritablePages
      <4>1. pc' \notin {"save", "clear"}
        BY <1>6, <3>4
           DEF ControllerStep, SavePagesError, Restore, RestoreProgramBreak,
               ProgramBreakError, UnmapNewLocations, FixupSyscallState,
               RestoreDirtyPages, RestoreRegs, Continue
      <4> QED BY <4>1 DEF SavedIsThere
    <3> QED BY <3>2, <3>3, <3>4
  <2>4. stray # "early" => CleanPages'
    BY <1>1, <1>3, <2>1, <2>2
  <2> QED BY <1>1, <1>2, <2>2, <2>3, <2>4 DEF CleanInv
<1>7. CASE UNCHANGED vars
  <2>1. /\ checkpoints' = checkpoints /\ stray' = stray
        /\ UNCHANGED <<process, saved, pc>>
    BY <1>7 DEF vars, control
  <2>2. KeepsClean
    BY <1>1, <2>1, UnchangedStep
  <2>3. stray # "early" => CleanPages' /\ (checkpoints = << >> => SavedIsThere')
    BY <1>1, <1>3, <2>1, <2>2, SavedStaysThere
  <2> QED BY <1>1, <1>2, <2>1, <2>3 DEF CleanInv
<1> QED BY <1>4, <1>5, <1>6, <1>7 DEF Next

\* The soft-dirty bits lose no page: a page of the first checkpoint that is
\* mapped and not dirty still holds its saved content, whatever the process does
\* to its memory, threads it has started since that checkpoint included.  It is
\* not so of a thread that was there before and that Attach did not list.
THEOREM CleanPagesSaved == Spec => []CleanPagesAreSaved
<1>1. CleanInv => CleanPagesAreSaved
  BY DEF CleanInv, CleanPages, CleanPagesAreSaved
<1>2. QED
  BY InitCleanInv, StepCleanInv, <1>1, PTL DEF Spec

----------------------------------------------------------------------------
(* A restore writes back every saved page that is mapped *)

\* Without threads that Attach did not find, and until a second checkpoint.
OneCheckpoint == "thread" \notin Behaviours /\ MaxCheckpoints <= 1

PagesRestored ==
  \A p \in SavedPages \cap PagesIn(areas) : page[p] = checkpoints[1].page[p]

RestoredInv ==
  /\ CleanInv
  /\ stray = "none"
  /\ Len(checkpoints) <= 1
  /\ pc \in {"save", "clear"} => checkpoints = << >>
  /\ pc \in {"regs", "continue"} => PagesRestored

\* Every dirty page of a saved writable mapping is written.
LEMMA DirtyPagesAreWritten ==
  ASSUME TypeInv, checkpoints # << >>, NEW p \in SavedPages \cap dirty
  PROVE  p \in ToRestore(checkpoints[1])
<1> DEFINE image == checkpoints[1]
<1>1. SavedAreas = image.areas
  BY DEF SavedAreas
<1>2. PICK a \in image.areas : Writable(a) /\ p \in PagesOf(a)
  BY <1>1, PagesInAreas DEF SavedPages
<1>3. a \in Area /\ a.start < a.end
  BY FirstCheckpoint DEF WellFormed
<1>4. a.end - a.start \in Nat /\ p - a.start \in 0 .. (a.end - a.start) - 1
  BY <1>2, <1>3, AreaTypes DEF PagesOf
<1>5. \E i \in 0 .. Parallelism - 1 : p - a.start \in Batch(a.end - a.start, i)
  BY <1>4, BatchesCover
<1> QED BY <1>2, <1>5 DEF ToRestore

LEMMA RestoreDirtyPagesRestores ==
  ASSUME CleanInv, stray # "early", Len(checkpoints) <= 1, RestoreDirtyPages
  PROVE  PagesRestored'
<1>1. /\ TypeInv /\ MemoryOK /\ CleanPages
      /\ checkpoints \in Seq(States) /\ checkpoints # << >>
  BY DEF CleanInv, TypeInv, TypeOK, MemoryOK, RestoreDirtyPages
<1>2. Len(checkpoints) = 1
  <2>1. Len(checkpoints) \in Nat \ {0}
    BY <1>1, EmptySeq
  <2>2. \A n \in Nat \ {0} : n <= 1 => n = 1
    OBVIOUS
  <2> QED BY <2>1, <2>2, Zenon
<1>3. /\ areas' = areas /\ dirty' = dirty /\ checkpoints' = checkpoints
      /\ page' = [p \in Page |-> IF p \in ToRestore(checkpoints[1])
                                 THEN checkpoints[1].page[p] ELSE page[p]]
  BY DEF RestoreDirtyPages
<1>4. SavedPages' = SavedPages
  BY <1>3 DEF SavedPages, SavedAreas
<1>5. ASSUME NEW p \in SavedPages \cap PagesIn(areas)
      PROVE  page'[p] = checkpoints[1].page[p]
  <2>1. p \in Page
    BY <1>1, AreaPages DEF MemoryOK
  <2>2. CASE p \in dirty
    BY <1>1, <1>3, <2>1, <2>2, DirtyPagesAreWritten
  <2>3. CASE p \notin dirty
    <3>1. p \notin ToRestore(checkpoints[1])
      BY <2>3 DEF ToRestore
    <3>2. page[p] = checkpoints[1].page[p]
      BY <1>1, <1>2, <2>3 DEF CleanPages
    <3> QED BY <1>3, <2>1, <3>1, <3>2
  <2> QED BY <2>2, <2>3
<1> QED BY <1>3, <1>4, <1>5 DEF PagesRestored

LEMMA InitRestoredInv == Init => RestoredInv
<1>1. Init => /\ pc = "idle" /\ Len(checkpoints) = 0
              /\ stray = "none"
  BY DEF Init
<1> QED BY <1>1, InitCleanInv DEF RestoredInv

LEMMA StepRestoredInv ==
  ASSUME OneCheckpoint
  PROVE  RestoredInv /\ [Next]_vars => RestoredInv'
<1> SUFFICES ASSUME RestoredInv, [Next]_vars PROVE RestoredInv'
  OBVIOUS
<1>1. /\ CleanInv /\ TypeInv /\ TypeOK /\ stray = "none"
      /\ Len(checkpoints) <= 1
      /\ pc \in {"save", "clear"} => checkpoints = << >>
      /\ checkpoints \in Seq(States)
      /\ pc \in {"regs", "continue"} => PagesRestored
  BY DEF RestoredInv, CleanInv, TypeInv, TypeOK
<1>2. CleanInv'
  BY <1>1, StepCleanInv
<1>3. CASE ProcessStep
  <2>1. running /\ pc = "idle" /\ UNCHANGED <<checkpoints, pc, stray>>
    BY <1>1, <1>3, ProcessStepControl DEF control, TypeOK, OneCheckpoint
  <2> QED BY <1>1, <1>2, <2>1 DEF RestoredInv
<1>4. CASE ClearMemRefs
  <2>1. /\ pc = "clear" /\ pc' = "idle" /\ stray' = stray
        /\ checkpoints' = Append(checkpoints, saved)
    BY <1>4 DEF ClearMemRefs
  <2>2. Len(checkpoints') = 1
    BY <1>1, <2>1
  <2> QED BY <1>1, <1>2, <2>1, <2>2 DEF RestoredInv
<1>5. CASE ControllerStep /\ ~ ClearMemRefs
  <2>1. /\ checkpoints' = checkpoints /\ stray' = stray
        /\ pc' = "save" => Len(checkpoints) < MaxCheckpoints
        /\ pc' = "clear" => pc = "save"
    BY <1>5, ControllerStepFrame
  <2>2. pc' \in {"save", "clear"} => checkpoints' = << >>
    BY <1>1, <2>1, ConstantsAssumption DEF OneCheckpoint
  <2>3. ASSUME pc' \in {"regs", "continue"} PROVE PagesRestored'
    <3>1. RestoreDirtyPages \/ RestoreRegs
      BY <1>5, <2>3
         DEF ControllerStep, TakeCheckpoint, SaveWritablePages, SavePagesError,
             Restore, RestoreProgramBreak, ProgramBreakError, UnmapNewLocations,
             FixupSyscallState, Continue
    <3>2. CASE RestoreDirtyPages
      BY <1>1, <3>2, RestoreDirtyPagesRestores
    <3>3. CASE RestoreRegs
      <4>1. /\ pc = "regs" /\ checkpoints' = checkpoints
            /\ areas' = areas /\ page' = page
        BY <3>3 DEF RestoreRegs, process
      <4> QED BY <1>1, <4>1 DEF PagesRestored, SavedPages, SavedAreas
    <3> QED BY <3>1, <3>2, <3>3
  <2> QED BY <1>1, <1>2, <2>1, <2>2, <2>3 DEF RestoredInv
<1>6. CASE UNCHANGED vars
  <2>1. /\ checkpoints' = checkpoints /\ pc' = pc /\ stray' = stray
        /\ areas' = areas /\ page' = page
    BY <1>6 DEF vars, process, control
  <2> QED BY <1>1, <1>2, <2>1 DEF RestoredInv, PagesRestored, SavedPages, SavedAreas
<1> QED BY <1>3, <1>4, <1>5, <1>6 DEF Next

\* After one checkpoint a restore leaves every saved page that is mapped as it
\* was, although it writes only the dirty ones: whatever the process has
\* written, mapped, unmapped or grown, and however the pages are divided
\* between the goroutines.
THEOREM PagesAreRestored ==
  ASSUME OneCheckpoint
  PROVE  Spec => []SavedPagesRestored
<1>1. RestoredInv => SavedPagesRestored
  BY DEF RestoredInv, PagesRestored, SavedPagesRestored
<1>2. QED
  BY InitRestoredInv, StepRestoredInv, <1>1, PTL DEF Spec

----------------------------------------------------------------------------
(* A restore returns to the first checkpoint *)

\* The process moves its break and maps memory of its own; it neither grows nor
\* unmaps what was saved, nor opens or closes a file.
OnlyAdds == Behaviours \subseteq {"break", "map"} /\ MaxCheckpoints <= 1

\* No saved mapping but the heap is ever lost.  Once the break is restored none
\* is missing, and once the new ones are unmapped there is no other.
ReturnInv ==
  /\ RestoredInv
  /\ \A a \in SavedAreas : a.kind # "heap" => a \in areas
  /\ pc \in {"count", "fixup", "dirty", "regs", "continue"} =>
       SavedAreas \subseteq areas
  /\ pc \in {"fixup", "dirty", "regs", "continue"} =>
       NewMemoryLocations = SavedAreas
  /\ pc = "continue" => regs = checkpoints[1].regs
  /\ checkpoints # << >> => ~FdsChanged

LEMMA ProcessKeepsSaved ==
  ASSUME OnlyAdds, TypeInv, ProcessStep,
         \A a \in SavedAreas : a.kind # "heap" => a \in areas
  PROVE  \A a \in SavedAreas : a.kind # "heap" => a \in areas'
<1> SUFFICES ASSUME NEW a \in SavedAreas, a.kind # "heap"
             PROVE  a \in areas'
  OBVIOUS
<1>1. a \in areas /\ a \in Area /\ a.start < a.end
  BY DEF TypeInv, TypeOK, WellFormed
<1>2. CASE \E p \in Page, v \in Values : Write(p, v)
  BY <1>1, <1>2 DEF Write
<1>3. CASE \E e \in 0 .. NumPages : SetBreak(e)
  BY <1>1, <1>3 DEF SetBreak, MoveBreak
<1>4. CASE \E s, e \in 0 .. NumPages : Map(s, e)
  BY <1>1, <1>4 DEF Map
<1>5. ASSUME NEW s \in 0 .. NumPages, NEW e \in 0 .. NumPages, Unmap(s, e)
      PROVE  a \in areas'
  <2>1. /\ (s .. e - 1) \cap PagesIn(SavedAreas) = {}
        /\ s < e
        /\ areas' = Cut(areas, s, e)
    BY <1>5 DEF Unmap, OnlyAdds
  <2>2. PagesOf(a) \subseteq PagesIn(SavedAreas)
    BY PagesInAreas
  <2>3. (s .. e - 1) \cap (a.start .. a.end - 1) = {}
    BY <2>1, <2>2 DEF PagesOf
  <2>4. s \in Nat /\ e \in Nat /\ a.start \in Nat /\ a.end \in Nat
    BY <1>1, AreaTypes, Sizes
  <2>5. e <= a.start \/ a.end <= s
    BY <1>1, <2>1, <2>3, <2>4, Apart
  <2> QED BY <1>1, <2>1, <2>5 DEF Cut
<1>6. CASE \E b \in areas, s, e \in 0 .. NumPages : Grow(b, s, e)
  <2>1. PICK b \in areas, s \in 0 .. NumPages, e \in 0 .. NumPages : Grow(b, s, e)
    BY <1>6
  <2>2. a # b /\ areas' = (areas \ {b}) \cup {[b EXCEPT !.start = s, !.end = e]}
    BY <2>1 DEF Grow, OnlyAdds
  <2> QED BY <1>1, <2>2
<1>7. CASE (\E v \in Registers : Compute(v)) \/ StartThread
  BY <1>1, <1>7 DEF Compute, StartThread, process
<1>8. CASE \E d \in Descriptors : OpenOrClose(d)
  BY <1>1, <1>8 DEF OpenOrClose
<1> QED BY <1>2, <1>3, <1>4, <1>5, <1>6, <1>7, <1>8 DEF ProcessStep

\* The heap is a saved mapping again.
LEMMA BreakRestored ==
  ASSUME TypeInv, RestoreProgramBreak,
         \A a \in SavedAreas : a.kind # "heap" => a \in areas
  PROVE  SavedAreas \subseteq areas'
<1> DEFINE image == checkpoints[1]
           b == BreakOf(image.areas)
           heap == [kind |-> "heap", start |-> HeapStart, end |-> b]
<1>1. checkpoints # << >>
  BY DEF RestoreProgramBreak, TypeInv, TypeOK
<1>2. SavedAreas = image.areas /\ WellFormed(image.areas)
  BY <1>1, FirstCheckpoint DEF SavedAreas
<1>3. HasHeap(image.areas) /\ MoveBreak(b)
  BY DEF RestoreProgramBreak, BreakRestorable
<1>4. b > HeapStart /\ \A a \in image.areas : a.kind = "heap" => a = heap
  BY <1>2, <1>3, BreakFacts
<1>5. heap \in areas' /\ \A a \in areas : a.kind # "heap" => a \in areas'
  <2> HIDE DEF b
  <2>1. HeapStart < b
    BY <1>2, <1>4, BreakFacts, Sizes DEF b
  <2> QED BY <1>3, <2>1 DEF MoveBreak
<1> QED BY <1>2, <1>4, <1>5

\* If the number of mappings is that of the checkpoint they are the same.  If it
\* is not, those that are not new are the saved ones.
LEMMA NewLocationsUnmapped ==
  ASSUME TypeInv, UnmapNewLocations, SavedAreas \subseteq areas
  PROVE  NewMemoryLocations' = SavedAreas
<1> DEFINE image == checkpoints[1]
           new == NewLocations(image)
<1>1. checkpoints # << >>
  BY DEF UnmapNewLocations, TypeInv, TypeOK
<1>2. SavedAreas = image.areas /\ WellFormed(image.areas) /\ WellFormed(areas)
  BY <1>1, FirstCheckpoint DEF SavedAreas, TypeInv, TypeOK
<1>3. SavedAreas \subseteq NewMemoryLocations
  BY <1>1, <1>2, FirstCheckpoint DEF ImageOK, NewMemoryLocations
<1>4. CASE NumMemoryLocationsChanged
  <2>1. areas' = areas \ new
    BY <1>4 DEF UnmapNewLocations
  <2>2. ASSUME NEW a \in NewMemoryLocations, a \notin new PROVE a \in SavedAreas
    <3>1. PICK b \in image.areas : a.kind = b.kind /\ a.start = b.start
      BY <2>2 DEF NewLocations
    <3>2. a \in areas /\ b \in areas
      BY <1>2, <3>1 DEF NewMemoryLocations
    <3> QED BY <1>2, <3>1, <3>2, SameStart
  <2>3. ASSUME NEW a \in SavedAreas PROVE a \notin new
    BY <1>2, <2>3 DEF NewLocations
  <2>4. NewMemoryLocations' = NewMemoryLocations \ new
    BY <2>1 DEF NewMemoryLocations
  <2> QED BY <1>3, <2>2, <2>3, <2>4
<1>5. CASE ~ NumMemoryLocationsChanged
  <2>1. NewMemoryLocations' = NewMemoryLocations
    BY <1>5 DEF UnmapNewLocations, process, NewMemoryLocations
  <2>2. Cardinality(NewMemoryLocations) = Cardinality(SavedAreas)
    BY <1>2, <1>5 DEF NumMemoryLocationsChanged
  <2>3. IsFiniteSet(NewMemoryLocations)
    BY <1>2, WellFormedFinite, WellFormedSubset DEF NewMemoryLocations
  <2> QED BY <1>3, <2>1, <2>2, <2>3, FS_Subset
<1> QED BY <1>4, <1>5

LEMMA InitReturnInv == Init => ReturnInv
<1>1. Init => pc = "idle" /\ SavedAreas = {} /\ checkpoints = << >>
  BY DEF Init, SavedAreas
<1> QED BY <1>1, InitRestoredInv DEF ReturnInv

LEMMA StepReturnInv ==
  ASSUME OnlyAdds
  PROVE  ReturnInv /\ [Next]_vars => ReturnInv'
<1> SUFFICES ASSUME ReturnInv, [Next]_vars PROVE ReturnInv'
  OBVIOUS
<1> DEFINE Stay == \A a \in SavedAreas : a.kind # "heap" => a \in areas
<1>1. /\ RestoredInv /\ TypeInv /\ TypeOK /\ stray = "none" /\ Stay
      /\ pc \in {"save", "clear"} => checkpoints = << >>
      /\ checkpoints \in Seq(States)
  BY DEF ReturnInv, RestoredInv, CleanInv, TypeInv, TypeOK
<1>2. /\ pc \in {"count", "fixup", "dirty", "regs", "continue"} =>
           SavedAreas \subseteq areas
      /\ pc \in {"fixup", "dirty", "regs", "continue"} =>
           NewMemoryLocations = SavedAreas
      /\ pc = "continue" => regs = checkpoints[1].regs
      /\ checkpoints # << >> => ~FdsChanged
  BY DEF ReturnInv
<1>3. RestoredInv'
  <2>1. OneCheckpoint
    BY DEF OnlyAdds, OneCheckpoint
  <2> QED BY <1>1, <2>1, StepRestoredInv
<1>4. CASE ProcessStep
  <2>1. pc = "idle" /\ pc' = pc /\ checkpoints' = checkpoints /\ files' = files
    BY <1>1, <1>4, ProcessStepControl DEF control, TypeOK, OnlyAdds
  <2>2. SavedAreas' = SavedAreas
    BY <2>1 DEF SavedAreas
  <2>3. \A a \in SavedAreas : a.kind # "heap" => a \in areas'
    BY <1>1, <1>4, ProcessKeepsSaved
  <2>4. checkpoints' # << >> => ~FdsChanged'
    BY <1>2, <2>1 DEF FdsChanged, NewFileDescriptors
  <2> QED BY <1>3, <2>1, <2>2, <2>3, <2>4 DEF ReturnInv
<1>5. CASE ClearMemRefs
  <2>1. /\ pc = "clear" /\ pc' = "idle" /\ areas' = areas /\ files' = files
        /\ checkpoints' = Append(checkpoints, saved)
    BY <1>5 DEF ClearMemRefs
  <2>2. checkpoints = << >> /\ checkpoints' # << >> /\ checkpoints'[1] = saved
    BY <1>1, <2>1
  <2>3. SavedAreas' = saved.areas
    BY <2>2 DEF SavedAreas
  <2>4. saved.areas \subseteq areas /\ saved.files = NewFileDescriptors
    <3>1. SavedIsThere
      BY <1>1, <2>2 DEF RestoredInv, CleanInv
    <3> QED BY <2>1, <3>1 DEF SavedIsThere, NewMemoryLocations
  <2>5. ~FdsChanged'
    BY <2>1, <2>2, <2>4 DEF FdsChanged, NewFileDescriptors
  <2> QED BY <1>3, <2>1, <2>3, <2>4, <2>5 DEF ReturnInv
<1>6. CASE ControllerStep /\ ~ ClearMemRefs
  <2>1. /\ checkpoints' = checkpoints /\ SavedAreas' = SavedAreas
        /\ checkpoints' # << >> => ~FdsChanged'
    BY <1>2, <1>6, ControllerStepFrame, ControllerStepFiles
       DEF SavedAreas, FdsChanged, NewFileDescriptors
  <2>2. CASE \/ TakeCheckpoint \/ SaveWritablePages \/ SavePagesError
             \/ Restore \/ ProgramBreakError \/ Continue
    <3>1. areas' = areas /\ pc' \in {"save", "clear", "idle", "break"}
      BY <2>2 DEF TakeCheckpoint, SaveWritablePages, SavePagesError, Restore,
                  ProgramBreakError, Continue, process
    <3> QED BY <1>1, <1>3, <2>1, <3>1 DEF ReturnInv
  <2>3. CASE RestoreProgramBreak
    <3>1. SavedAreas \subseteq areas' /\ pc' = "count"
      BY <1>1, <2>3, BreakRestored DEF RestoreProgramBreak
    <3> QED BY <1>3, <2>1, <3>1 DEF ReturnInv
  <2>4. CASE UnmapNewLocations
    <3>1. SavedAreas \subseteq areas /\ pc' = "fixup"
      BY <1>2, <2>4 DEF UnmapNewLocations
    <3>2. NewMemoryLocations' = SavedAreas
      BY <1>1, <2>4, <3>1, NewLocationsUnmapped
    <3>3. SavedAreas' \subseteq areas'
      BY <2>1, <3>2 DEF NewMemoryLocations
    <3> QED BY <1>3, <2>1, <3>1, <3>2, <3>3 DEF ReturnInv
  <2>5. CASE FixupSyscallState \/ RestoreDirtyPages
    <3>1. pc \in {"fixup", "dirty"} /\ pc' \in {"dirty", "regs"} /\ areas' = areas
      BY <2>5 DEF FixupSyscallState, RestoreDirtyPages
    <3> QED BY <1>2, <1>3, <2>1, <3>1 DEF ReturnInv, NewMemoryLocations
  <2>6. CASE RestoreRegs
    <3>1. /\ pc = "regs" /\ pc' = "continue" /\ areas' = areas
          /\ regs' = checkpoints[1].regs
      BY <2>6 DEF RestoreRegs, process
    <3> QED BY <1>2, <1>3, <2>1, <3>1 DEF ReturnInv, NewMemoryLocations
  <2> QED BY <1>6, <2>2, <2>3, <2>4, <2>5, <2>6 DEF ControllerStep
<1>7. CASE UNCHANGED vars
  <2>1. /\ checkpoints' = checkpoints /\ pc' = pc /\ regs' = regs
        /\ areas' = areas /\ SavedAreas' = SavedAreas /\ files' = files
    BY <1>7 DEF vars, process, control, SavedAreas
  <2>2. NewMemoryLocations' = NewMemoryLocations /\ FdsChanged' = FdsChanged
    BY <2>1 DEF NewMemoryLocations, FdsChanged, NewFileDescriptors
  <2> QED BY <1>1, <1>2, <1>3, <2>1, <2>2 DEF ReturnInv
<1> QED BY <1>4, <1>5, <1>6, <1>7 DEF Next

\* Of a process that only moves its break and maps memory of its own, a restore
\* that succeeds leaves the mappings, the writable pages, the registers and the
\* number of descriptors of the first checkpoint, for every memory layout.
THEOREM RestoreReturns ==
  ASSUME OnlyAdds
  PROVE  Spec => []ReturnsToFirstCheckpoint
<1>1. ReturnInv /\ TypeOK => ReturnsToFirstCheckpoint
  <2> SUFFICES ASSUME ReturnInv, TypeOK, pc = "continue"
               PROVE  /\ LeavesMemoryTheSame /\ ~FdsChanged
                      /\ regs = checkpoints[1].regs
    BY DEF ReturnsToFirstCheckpoint
  <2>1. /\ NewMemoryLocations = SavedAreas /\ SavedAreas \subseteq areas
        /\ checkpoints # << >> /\ PagesRestored
        /\ regs = checkpoints[1].regs /\ ~FdsChanged
    BY DEF ReturnInv, RestoredInv, TypeOK
  <2>2. ~MemoryChanged
    BY <2>1 DEF SavedAreas, MemoryChanged
  <2>3. SavedPages \subseteq PagesIn(areas)
    BY <2>1, PagesInAreas DEF SavedPages
  <2> QED BY <2>1, <2>2, <2>3 DEF PagesRestored, LeavesMemoryTheSame
<1>2. ReturnInv => TypeOK
  BY DEF ReturnInv, RestoredInv, CleanInv, TypeInv
<1>3. QED
  BY InitReturnInv, StepReturnInv, <1>1, <1>2, PTL DEF Spec
=============================================================================
