----------------------------- MODULE ListLemmas -----------------------------
(***************************************************************************)
(* What removing from, taking the head of, and appending to a list without *)
(* duplicates does to the list and to the set of its members: the only     *)
(* operations scheduler.go performs on its slices.                         *)
(***************************************************************************)
EXTENDS Naturals, Sequences, SequencesExt, SequenceTheorems, TLAPS

\* append(s[:i], s[i+1:]...), entry by entry.
LEMMA RemoveAtShape ==
  ASSUME NEW S, NEW s \in Seq(S), NEW i \in DOMAIN s
  PROVE  /\ RemoveAt(s, i) \in Seq(S)
         /\ Len(RemoveAt(s, i)) = Len(s) - 1
         /\ \A j \in 1 .. Len(s) - 1 :
              RemoveAt(s, i)[j] = IF j < i THEN s[j] ELSE s[j + 1]
<1> DEFINE l == SubSeq(s, 1, i - 1)
           r == SubSeq(s, i + 1, Len(s))
<1>1. l \in Seq(S) /\ Len(l) = i - 1 /\ \A j \in 1 .. i - 1 : l[j] = s[j]
  OBVIOUS
<1>2. /\ r \in Seq(S) /\ Len(r) = Len(s) - i
      /\ \A j \in 1 .. Len(s) - i : r[j] = s[i + j]
  OBVIOUS
<1>3. RemoveAt(s, i) = l \o r
  BY DEF RemoveAt
<1> HIDE DEF l, r
<1>4. /\ l \o r \in Seq(S)
      /\ Len(l \o r) = Len(s) - 1
      /\ \A j \in 1 .. Len(s) - 1 :
           (l \o r)[j] = IF j < i THEN l[j] ELSE r[j - (i - 1)]
  <2>1. /\ l \o r \in Seq(S)
        /\ Len(l \o r) = Len(l) + Len(r)
        /\ \A j \in 1 .. Len(l) + Len(r) :
             (l \o r)[j] = IF j <= Len(l) THEN l[j] ELSE r[j - Len(l)]
    BY <1>1, <1>2, ConcatProperties
  <2>2. Len(s) \in Nat /\ i \in 1 .. Len(s) /\ Len(l) + Len(r) = Len(s) - 1
    BY <1>1, <1>2
  <2>3. \A j \in Nat : j <= i - 1 <=> j < i
    BY <2>2
  <2> QED BY <1>1, <2>1, <2>2, <2>3, SMTT(60)
<1>5. ASSUME NEW j \in 1 .. Len(s) - 1
      PROVE  (l \o r)[j] = IF j < i THEN s[j] ELSE s[j + 1]
  <2>1. CASE j < i
    BY <1>1, <1>4, <2>1
  <2>2. CASE ~ (j < i)
    <3>1. j - (i - 1) \in 1 .. Len(s) - i /\ i + (j - (i - 1)) = j + 1
      BY <2>2
    <3>2. r[j - (i - 1)] = s[j + 1]
      BY <1>2, <3>1
    <3> QED BY <1>4, <2>2, <3>2
  <2> QED BY <2>1, <2>2
<1> QED BY <1>3, <1>4, <1>5

\* Removing an entry of a duplicate-free list removes exactly that member.
LEMMA RemoveAtSet ==
  ASSUME NEW S, NEW s \in Seq(S), NEW i \in DOMAIN s, IsInjective(s)
  PROVE  /\ RemoveAt(s, i) \in Seq(S)
         /\ IsInjective(RemoveAt(s, i))
         /\ ToSet(RemoveAt(s, i)) = ToSet(s) \ {s[i]}
<1> DEFINE t == RemoveAt(s, i)
<1>1. /\ t \in Seq(S) /\ Len(t) = Len(s) - 1
      /\ \A j \in 1 .. Len(s) - 1 : t[j] = IF j < i THEN s[j] ELSE s[j + 1]
  BY RemoveAtShape
<1> HIDE DEF t
<1>2. IsInjective(t)
  <2>1. ASSUME NEW j \in 1 .. Len(s) - 1, NEW k \in 1 .. Len(s) - 1, t[j] = t[k]
        PROVE  j = k
    <3>1. \A m, n \in 1 .. Len(s) : s[m] = s[n] => m = n
      BY DEF IsInjective
    <3>2. /\ t[j] = IF j < i THEN s[j] ELSE s[j + 1]
          /\ t[k] = IF k < i THEN s[k] ELSE s[k + 1]
      BY <1>1
    <3>3. /\ Len(s) \in Nat /\ i \in 1 .. Len(s)
          /\ j \in 1 .. Len(s) /\ j + 1 \in 1 .. Len(s)
          /\ k \in 1 .. Len(s) /\ k + 1 \in 1 .. Len(s)
      OBVIOUS
    <3> DEFINE m == IF j < i THEN j ELSE j + 1
               n == IF k < i THEN k ELSE k + 1
    <3>4. t[j] = s[m] /\ t[k] = s[n] /\ m \in 1 .. Len(s) /\ n \in 1 .. Len(s)
      BY <3>2, <3>3
    <3>5. m = n
      BY <2>1, <3>1, <3>4
    <3> QED BY <3>3, <3>5
  <2>2. DOMAIN t = 1 .. Len(s) - 1
    BY <1>1
  <2> QED BY <2>1, <2>2 DEF IsInjective
<1>3. ToSet(t) \subseteq ToSet(s) \ {s[i]}
  BY <1>1 DEF ToSet, IsInjective
<1>4. ASSUME NEW k \in DOMAIN s, k # i PROVE s[k] \in ToSet(t)
  <2>1. CASE k < i
    BY <1>1, <1>4, <2>1 DEF ToSet
  <2>2. CASE k > i
    <3>1. k - 1 \in 1 .. Len(t) /\ t[k - 1] = s[k]
      BY <1>1, <1>4, <2>2
    <3> QED BY <1>1, <3>1 DEF ToSet
  <2> QED BY <1>4, <2>1, <2>2
<1>5. ToSet(s) \ {s[i]} \subseteq ToSet(t)
  BY <1>4 DEF ToSet
<1> QED BY <1>1, <1>2, <1>3, <1>5 DEF t

\* Appending adds one member, and no duplicate if it is new.
LEMMA AppendSet ==
  ASSUME NEW S, NEW s \in Seq(S), NEW e \in S
  PROVE  /\ Append(s, e) \in Seq(S)
         /\ ToSet(Append(s, e)) = ToSet(s) \cup {e}
         /\ IsInjective(s) /\ e \notin ToSet(s) => IsInjective(Append(s, e))
<1> DEFINE t == Append(s, e)
<1>1. /\ t \in Seq(S) /\ Len(t) = Len(s) + 1 /\ t[Len(s) + 1] = e
      /\ \A j \in 1 .. Len(s) : t[j] = s[j]
  OBVIOUS
<1> HIDE DEF t
<1>2. ToSet(t) = ToSet(s) \cup {e}
  BY <1>1 DEF ToSet
<1>3. ASSUME IsInjective(s), e \notin ToSet(s) PROVE IsInjective(t)
  BY <1>1, <1>3 DEF ToSet, IsInjective
<1> QED BY <1>1, <1>2, <1>3 DEF t

\* Taking the head of a duplicate-free list removes exactly that member.
LEMMA TailSet ==
  ASSUME NEW S, NEW s \in Seq(S), s # << >>, IsInjective(s)
  PROVE  /\ Tail(s) \in Seq(S)
         /\ Head(s) \in S /\ Head(s) \in ToSet(s)
         /\ IsInjective(Tail(s))
         /\ ToSet(Tail(s)) = ToSet(s) \ {Head(s)}
<1>1. Tail(s) \in Seq(S) /\ Len(Tail(s)) = Len(s) - 1
  OBVIOUS
<1>2. \A j \in 1 .. Len(s) - 1 : Tail(s)[j] = s[j + 1]
  OBVIOUS
<1>3. Head(s) = s[1] /\ 1 \in DOMAIN s
  OBVIOUS
<1>4. Head(s) \in S /\ Head(s) \in ToSet(s)
  BY <1>3 DEF ToSet
<1>5. IsInjective(Tail(s))
  BY <1>1, <1>2 DEF IsInjective
<1>6. ToSet(Tail(s)) \subseteq ToSet(s) \ {Head(s)}
  BY <1>1, <1>2, <1>3 DEF ToSet, IsInjective
<1>7. ASSUME NEW k \in DOMAIN s, k # 1 PROVE s[k] \in ToSet(Tail(s))
  <2>1. k - 1 \in DOMAIN Tail(s) /\ Tail(s)[k - 1] = s[k]
    BY <1>1, <1>2, <1>7
  <2> QED BY <2>1 DEF ToSet
<1>8. ToSet(s) \ {Head(s)} \subseteq ToSet(Tail(s))
  BY <1>3, <1>7 DEF ToSet
<1> QED BY <1>1, <1>4, <1>5, <1>6, <1>8

\* A loop that stops at an entry naming w has found a member of the list.
LEMMA EntryInSet ==
  ASSUME NEW S, NEW s \in Seq(S), NEW i \in DOMAIN s
  PROVE  s[i] \in S /\ s[i] \in ToSet(s)
BY DEF ToSet
=============================================================================
