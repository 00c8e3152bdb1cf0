--------------------------- MODULE InvokerProofs ---------------------------
(***************************************************************************)
(* Theorems about the invoker and the message provider below it, for every *)
(* set of activations, functions and senders, and every setting.           *)
(***************************************************************************)
EXTENDS MCInvoker, ListLemmas, FiniteSetTheorems

-----------------------------------------------------------------------------
(* The cache of functions.                                                 *)

Entries == Functions \X (1 .. Versions)

\* A list of entries that names no function twice.
OnlyOnce(c) == \A i, j \in DOMAIN c : c[i][1] = c[j][1] => i = j

Names(c) == {c[i][1] : i \in DOMAIN c}

LEMMA UsedShape ==
  ASSUME cache \in Seq(Entries), OnlyOnce(cache), NEW f \in Functions, NEW v \in 1 .. Versions
  PROVE  /\ Used(f, v) \in Seq(Entries)
         /\ OnlyOnce(Used(f, v))
         /\ Names(Used(f, v)) = Names(cache) \cup {f}
         /\ Len(Used(f, v)) = IF InCache(f) THEN Len(cache) ELSE Len(cache) + 1
<1> DEFINE d == Drop(f)
<1>1. <<f, v>> \in Entries
  BY DEF Entries
<1>2. /\ d \in Seq(Entries) /\ OnlyOnce(d)
      /\ Names(d) = Names(cache) \ {f}
      /\ Len(d) = IF InCache(f) THEN Len(cache) - 1 ELSE Len(cache)
  <2>1. CASE InCache(f)
    <3> DEFINE i == CHOOSE j \in DOMAIN cache : cache[j][1] = f
    <3>1. i \in DOMAIN cache /\ cache[i][1] = f
      BY <2>1 DEF InCache
    <3>2. d = RemoveAt(cache, i)
      BY <2>1 DEF Drop
    <3> HIDE DEF i, d
    <3>3. /\ d \in Seq(Entries) /\ Len(d) = Len(cache) - 1
          /\ \A j \in 1 .. Len(cache) - 1 : d[j] = IF j < i THEN cache[j] ELSE cache[j + 1]
      BY <3>1, <3>2, RemoveAtShape
    <3>4. OnlyOnce(d)
      <4> SUFFICES ASSUME NEW j \in DOMAIN d, NEW k \in DOMAIN d, d[j][1] = d[k][1]
                   PROVE  j = k
        BY DEF OnlyOnce
      <4> DEFINE from(n) == IF n < i THEN n ELSE n + 1
      <4>1. j \in 1 .. Len(cache) - 1 /\ k \in 1 .. Len(cache) - 1 /\ i \in 1 .. Len(cache)
        BY <3>1, <3>3
      <4>2. d[j] = cache[from(j)] /\ d[k] = cache[from(k)]
        BY <3>3, <4>1
      <4>3. from(j) \in DOMAIN cache /\ from(k) \in DOMAIN cache
        BY <4>1
      <4>4. from(j) = from(k)
        <5> HIDE DEF from
        <5> QED BY <4>2, <4>3 DEF OnlyOnce
      <4> QED BY <4>1, <4>4
    <3>5. Names(d) \subseteq Names(cache) \ {f}
      BY <3>1, <3>3 DEF OnlyOnce, Names
    <3>6. ASSUME NEW k \in DOMAIN cache, k # i PROVE cache[k][1] \in Names(d)
      <4>1. CASE k < i
        BY <3>1, <3>3, <3>6, <4>1 DEF Names
      <4>2. CASE k > i
        <5>1. k - 1 \in DOMAIN d /\ d[k - 1] = cache[k]
          BY <3>1, <3>3, <3>6, <4>2
        <5> QED BY <5>1 DEF Names
      <4> QED BY <3>1, <3>6, <4>1, <4>2
    <3>7. Names(cache) \ {f} \subseteq Names(d)
      BY <3>1, <3>6 DEF Names
    <3> QED BY <2>1, <3>3, <3>4, <3>5, <3>7
  <2>2. CASE ~InCache(f)
    BY <2>2 DEF Drop, InCache, Names
  <2> QED BY <2>1, <2>2
<1>3. Used(f, v) = Append(d, <<f, v>>)
  BY DEF Used
<1> HIDE DEF d
<1>4. /\ Used(f, v) \in Seq(Entries) /\ Len(Used(f, v)) = Len(d) + 1
      /\ DOMAIN d = 1 .. Len(d) /\ Len(d) \in Nat
      /\ DOMAIN Used(f, v) = 1 .. Len(d) + 1
      /\ \A j \in 1 .. Len(d) : Used(f, v)[j] = d[j]
      /\ Used(f, v)[Len(d) + 1] = <<f, v>>
  BY <1>1, <1>2, <1>3
<1> DEFINE u == Used(f, v)
<1> HIDE DEF u
<1>5. Names(u) = Names(d) \cup {f}
  <2>1. \A j \in DOMAIN u : j \in DOMAIN d \/ j = Len(d) + 1
    BY <1>4 DEF u
  <2>2. \A j \in DOMAIN d : j \in DOMAIN u /\ u[j][1] = d[j][1]
    BY <1>4 DEF u
  <2>3. Len(d) + 1 \in DOMAIN u /\ u[Len(d) + 1][1] = f
    BY <1>4 DEF u
  <2> QED BY <2>1, <2>2, <2>3 DEF Names
<1>6. OnlyOnce(u)
  <2> SUFFICES ASSUME NEW i \in DOMAIN u, NEW j \in DOMAIN u, u[i][1] = u[j][1] PROVE i = j
    BY DEF OnlyOnce
  <2>1. \A k \in DOMAIN u :
          (k \in DOMAIN d /\ u[k] = d[k]) \/ (k = Len(d) + 1 /\ u[k][1] = f)
    BY <1>4 DEF u
  <2>2. \A k \in DOMAIN d : d[k][1] # f
    BY <1>2 DEF Names
  <2> QED BY <1>2, <2>1, <2>2 DEF OnlyOnce
<1>7. Len(cache) \in Nat /\ (InCache(f) <=> f \in Names(cache))
  BY DEF InCache, Names
<1>8. Names(u) = Names(cache) \cup {f}
  BY <1>2, <1>5
<1>9. Len(u) = IF InCache(f) THEN Len(cache) ELSE Len(cache) + 1
  BY <1>2, <1>4, <1>7 DEF u
<1> QED BY <1>4, <1>6, <1>8, <1>9 DEF u

LEMMA InCacheNames == \A f : InCache(f) <=> f \in Names(cache)
BY DEF InCache, Names

\* A list that names no function twice has no more entries than there are
\* functions.
LEMMA RoomForAll ==
  ASSUME IsFiniteSet(Functions), NEW c \in Seq(Entries), OnlyOnce(c)
  PROVE  Len(c) <= Cardinality(Functions)
<1> DEFINE n == [i \in 1 .. Len(c) |-> c[i][1]]
<1>1. n \in [1 .. Len(c) -> Functions]
  BY DEF Entries
<1>2. \A i, j \in 1 .. Len(c) : i # j => n[i] # n[j]
  BY DEF OnlyOnce
<1> HIDE DEF n
<1>3. IsFiniteSet(1 .. Len(c)) /\ Cardinality(1 .. Len(c)) = Len(c)
  <2>1. Len(c) \in Nat
    OBVIOUS
  <2>2. /\ IsFiniteSet(1 .. Len(c))
        /\ Cardinality(1 .. Len(c)) = IF 1 > Len(c) THEN 0 ELSE Len(c) - 1 + 1
    BY <2>1, FS_Interval
  <2> QED BY <2>1, <2>2
<1>4. Cardinality(Functions) \in Nat
  BY FS_CardinalityType
<1>5. ~ (Cardinality(Functions) < Cardinality(1 .. Len(c)))
  BY <1>1, <1>2, <1>3, FS_PigeonHole
<1> QED BY <1>3, <1>4, <1>5

LEMMA EvictShape ==
  ASSUME NEW c \in Seq(Entries), OnlyOnce(c), CacheSize \in Nat \ {0}, Len(c) <= CacheSize + 1
  PROVE  /\ Evict(c) \in Seq(Entries) /\ Len(Evict(c)) <= CacheSize /\ OnlyOnce(Evict(c))
         /\ Len(c) <= CacheSize => Evict(c) = c
<1>1. CASE Len(c) > CacheSize
  <2>1. /\ Tail(c) \in Seq(Entries) /\ Len(Tail(c)) = Len(c) - 1
        /\ \A i \in 1 .. Len(c) - 1 : Tail(c)[i] = c[i + 1]
    BY <1>1
  <2>2. OnlyOnce(Tail(c))
    <3> SUFFICES ASSUME NEW i \in DOMAIN Tail(c), NEW j \in DOMAIN Tail(c),
                        Tail(c)[i][1] = Tail(c)[j][1]
                 PROVE  i = j
      BY DEF OnlyOnce
    <3>1. i + 1 \in DOMAIN c /\ j + 1 \in DOMAIN c /\ i \in Nat /\ j \in Nat
      BY <2>1
    <3>2. c[i + 1][1] = c[j + 1][1]
      BY <2>1
    <3> QED BY <3>1, <3>2 DEF OnlyOnce
  <2>3. Evict(c) = Tail(c)
    BY <1>1 DEF Evict
  <2>4. Len(c) - 1 <= CacheSize /\ ~ (Len(c) <= CacheSize)
    BY <1>1
  <2> QED BY <2>1, <2>2, <2>3, <2>4
<1>2. CASE ~ (Len(c) > CacheSize)
  BY <1>2 DEF Evict
<1> QED BY <1>1, <1>2

-----------------------------------------------------------------------------
(* The main loop.                                                          *)

\* An activation is in one place.
QueueInv ==
  /\ IsInjective(queue)
  /\ \A a \in ToSet(queue) : stage[a] = "queued"
  /\ puller = "offer" => hand \in Activations /\ stage[hand] = "offered"

CacheInv ==
  /\ OnlyOnce(cache)
  /\ \A a \in Activations : stage[a] = "add" => doc[a] # 0

Coming == Stages \ {"return", "check", "done"}

AnswersInv ==
  \A a \in Activations :
    /\ stage[a] \in Coming => a \notin failed /\ sent[a] = {} /\ sending[a] = {}
    /\ a \in failed \/ CodeString(fn[a]) # "code" => sent[a] = {} /\ sending[a] = {}
    /\ stage[a] \notin Coming /\ a \notin failed =>
         \A m \in Answers(a) : m \in sent[a] \cup sending[a] \/ MayFail(m)

\* What the goroutine of an activation finds in err is its own outcome, unless
\* that has been replaced.
ErrInv ==
  /\ logged \subseteq failed
  /\ err \in failed \cup {None}
  /\ \A a \in Activations :
       stage[a] = "check" => a \in overwritten \/ (err = IF a \in failed THEN a ELSE None)
  /\ \A a \in failed : stage[a] = "done" => a \in logged \cup overwritten

\* Activations one at a time.
AloneInv ==
  InFlight = 1 => \A a, b \in Activations : OnItsWay(a) /\ OnItsWay(b) => a = b

\* What was in the cache is still there when it is got.
RoomInv ==
  Cardinality(Functions) <= CacheSize \/ InFlight = 1 =>
    /\ NeverPanics
    /\ \A a \in Activations : stage[a] = "get" => InCache(fn[a])

InvokerInv == TypeOK /\ QueueInv /\ CacheInv /\ AnswersInv /\ ErrInv /\ AloneInv /\ RoomInv

LEMMA InvokerInit == Init => InvokerInv
<1> SUFFICES ASSUME Init PROVE InvokerInv
  OBVIOUS
<1> USE ScenarioAssumption DEF Init, InvokerAssumption, NewFunctionStorage
<1>1. TypeOK
  <2>1. crashed \in BOOLEAN /\ setting.cacheSize \in Nat
    OBVIOUS
  <2>2. cache \in Seq(Entries) /\ Len(cache) = 0
    OBVIOUS
  <2> QED BY <2>1, <2>2 DEF TypeOK, Stages, CacheSize, Entries
<1>2. QueueInv
  BY DEF QueueInv, IsInjective, ToSet
<1>3. CacheInv
  BY DEF CacheInv, OnlyOnce
<1>4. AnswersInv
  BY DEF AnswersInv, Coming, Stages
<1>5. AloneInv
  BY DEF AloneInv, OnItsWay
<1>6. RoomInv
  BY DEF RoomInv, NeverPanics
<1>7. ErrInv
  BY DEF ErrInv
<1> QED BY <1>1, <1>2, <1>3, <1>4, <1>5, <1>6, <1>7 DEF InvokerInv

LEMMA CacheTyped ==
  ASSUME TypeOK
  PROVE  /\ cache \in Seq(Entries) /\ Len(cache) \in Nat /\ Len(cache) <= CacheSize
         /\ CacheSize \in Nat \ {0} /\ InFlight \in Nat \ {0}
BY ScenarioAssumption DEF TypeOK, Entries, InvokerAssumption, CacheSize,
   InFlight

\* What a step of the goroutine of an activation does to the cache.
LEMMA CacheStep ==
  ASSUME TypeOK, CacheInv, NEW a \in Activations, Consume(a)
  PROVE  /\ cache' \in Seq(Entries) /\ Len(cache') <= CacheSize /\ OnlyOnce(cache')
         /\ stage[a] # "add" => Names(cache') = Names(cache)
         /\ Cardinality(Functions) <= CacheSize => Names(cache) \subseteq Names(cache')
<1>1. fn[a] \in Functions
  BY DEF TypeOK
<1>2. CASE cache' = cache
  BY <1>2, CacheTyped DEF CacheInv
<1>3. CASE stage[a] = "get" /\ Get(a) /\ cache' # cache
  <2>1. PICK i \in DOMAIN cache : cache[i][1] = fn[a] /\ cache' = Used(fn[a], cache[i][2])
    BY <1>3 DEF Get
  <2>2. cache[i][2] \in 1 .. Versions /\ InCache(fn[a])
    BY <2>1, CacheTyped DEF Entries, InCache
  <2>3. fn[a] \in Names(cache)
    BY <2>2, InCacheNames
  <2>4. /\ cache' \in Seq(Entries) /\ OnlyOnce(cache') /\ Len(cache') = Len(cache)
        /\ Names(cache') = Names(cache) \cup {fn[a]}
    BY <1>1, <2>1, <2>2, UsedShape, CacheTyped DEF CacheInv
  <2> QED BY <2>3, <2>4, CacheTyped
<1>4. CASE stage[a] = "add" /\ Add(a)
  <2> DEFINE u == Used(fn[a], doc[a])
  <2>1. doc[a] \in 1 .. Versions
    BY <1>4, ScenarioAssumption DEF CacheInv, TypeOK, InvokerAssumption
  <2>2. /\ u \in Seq(Entries) /\ OnlyOnce(u) /\ Names(cache) \subseteq Names(u)
        /\ Len(u) = IF InCache(fn[a]) THEN Len(cache) ELSE Len(cache) + 1
    BY <1>1, <2>1, UsedShape, CacheTyped DEF CacheInv
  <2>3. cache' = Evict(u)
    BY <1>4 DEF Add
  <2> HIDE DEF u
  <2>4. Len(u) <= CacheSize + 1
    BY <2>2, CacheTyped
  <2>5. Cardinality(Functions) <= CacheSize => Len(u) <= CacheSize
    <3>1. Len(u) <= Cardinality(Functions) /\ Cardinality(Functions) \in Nat /\ Len(u) \in Nat
      BY <2>2, RoomForAll, FS_CardinalityType,
         ScenarioAssumption DEF InvokerAssumption
    <3> QED BY <3>1, CacheTyped
  <2> QED BY <1>4, <2>2, <2>3, <2>4, <2>5, EvictShape, CacheTyped
<1> QED
  BY <1>2, <1>3, <1>4 DEF Consume, CacheContains, Get, Fetch, Add, Run, Return,
     Check, cacheVars

\* What a step of the goroutine of an activation leaves alone, and where it is.
LEMMA ConsumeFrame ==
  ASSUME TypeOK, NEW a \in Activations, Consume(a)
  PROVE  /\ UNCHANGED <<given, pullVars, db, sent>>
         /\ \A b \in Activations \ {a} :
              /\ stage'[b] = stage[b] /\ doc'[b] = doc[b] /\ sending'[b] = sending[b]
              /\ b \in failed' <=> b \in failed
         /\ stage[a] \in {"contains", "get", "fetch", "add", "run", "return", "check"}
BY DEF Consume, CacheContains, Get, Fetch, Add, Run, Return, Check, Goto, Fail,
   cacheVars,
       errVars, sendVars, TypeOK

LEMMA ConsumeType ==
  ASSUME TypeOK, CacheInv, NEW a \in Activations, Consume(a)
  PROVE  TypeOK' /\ CacheInv'
<1>1. /\ UNCHANGED <<given, pullVars, db, sent>>
      /\ \A b \in Activations \ {a} : stage'[b] = stage[b] /\ doc'[b] = doc[b]
  BY ConsumeFrame
<1>2. cache' \in Seq(Entries) /\ Len(cache') <= CacheSize /\ OnlyOnce(cache')
  BY CacheStep
<1>3. crashed' \in BOOLEAN
  BY DEF TypeOK, Consume, CacheContains, Get, Fetch, Add, Run, Return, Check
<1>4. /\ stage' \in [Activations -> Stages]
      /\ failed' \subseteq Activations
      /\ logged' \subseteq Activations /\ err' \in Activations \cup {None}
      /\ overwritten' \subseteq Activations
      /\ sending' \in [Activations -> SUBSET Messages]
  <2> USE DEF TypeOK, errVars, sendVars
  <2>1. CASE CacheContains(a) \/ Get(a) \/ Fetch(a) \/ Add(a)
    BY <2>1 DEF CacheContains, Get, Fetch, Add, Goto, Fail, Stages
  <2>2. CASE Run(a)
    <3>1. Answers(a) \in SUBSET Messages
      BY DEF Answers, Messages
    <3> QED BY <2>2, <3>1 DEF Run, Goto, Fail, Stages
  <2>3. CASE Return(a) \/ Check(a)
    BY <2>3 DEF Return, Check, Goto, Stages
  <2> QED BY <2>1, <2>2, <2>3 DEF Consume
<1>5. doc' \in [Activations -> 0 .. Versions] /\ (stage'[a] = "add" => doc'[a] # 0)
  <2>1. CASE Get(a)
    <3>1. CASE crashed' = TRUE /\ UNCHANGED <<doc, cache, stage>>
      BY <2>1, <3>1 DEF TypeOK, Get
    <3>2. ASSUME NEW i \in DOMAIN cache, doc' = [doc EXCEPT ![a] = cache[i][2]], Goto(a, "run")
          PROVE  doc' \in [Activations -> 0 .. Versions] /\ stage'[a] = "run"
      <4>1. cache[i][2] \in 0 .. Versions
        BY CacheTyped DEF Entries
      <4> QED BY <3>2, <4>1 DEF TypeOK, Goto
    <3> QED BY <2>1, <3>1, <3>2 DEF Get
  <2>2. CASE Fetch(a)
    <3>1. db[fn[a]] \in 1 .. Versions
      BY DEF TypeOK
    <3> QED BY <2>2, <3>1 DEF TypeOK, Fetch, Goto, Fail
  <2>3. CASE CacheContains(a) \/ Add(a) \/ Run(a) \/ Return(a) \/ Check(a)
    BY <2>3 DEF TypeOK, CacheContains, Add, Run, Return, Check, Goto, Fail
  <2> QED BY <2>1, <2>2, <2>3 DEF Consume
<1>6. TypeOK'
  BY <1>1, <1>2, <1>3, <1>4, <1>5 DEF TypeOK, given, pullVars, CacheSize,
     Entries
<1>7. CacheInv'
  BY <1>1, <1>2, <1>5 DEF CacheInv
<1> QED BY <1>6, <1>7

\* What an activation has and gets: nothing before it has run, and its answers
\* if it did not fail.
LEMMA ConsumeAnswers ==
  ASSUME TypeOK, AnswersInv, NEW a \in Activations, Consume(a)
  PROVE  AnswersInv'
<1> USE DEF AnswersInv
<1>1. /\ UNCHANGED <<setting, fn, sent>>
      /\ \A b \in Activations \ {a} :
           /\ stage'[b] = stage[b] /\ sending'[b] = sending[b]
           /\ b \in failed' <=> b \in failed
  BY ConsumeFrame DEF given
<1>2. \A b \in Activations : CodeString(fn[b])' = CodeString(fn[b]) /\ Answers(b)' = Answers(b)
  BY <1>1 DEF CodeString, Answers, Java
<1>3. \A m : MayFail(m)' <=> MayFail(m)
  BY <1>1 DEF MayFail, Faults
<1>4. /\ stage'[a] \in Coming => a \notin failed' /\ sent[a] = {} /\ sending'[a] = {}
      /\ a \in failed' \/ CodeString(fn[a]) # "code" => sent[a] = {} /\ sending'[a] = {}
      /\ stage'[a] \notin Coming /\ a \notin failed' =>
           \A m \in Answers(a) : m \in sent[a] \cup sending'[a] \/ MayFail(m)
  <2>1. CASE CacheContains(a) \/ Get(a) \/ Add(a)
    BY <2>1 DEF TypeOK, CacheContains, Get, Add, Goto, errVars, sendVars,
       Coming, Stages
  <2>2. CASE Fetch(a)
    BY <2>2 DEF TypeOK, Fetch, Goto, Fail, sendVars, Coming, Stages
  <2>3. CASE Run(a)
    <3>1. stage[a] \in Coming /\ stage[a] = "run"
      BY <2>3 DEF Run, Coming, Stages
    <3>2. CASE Fail(a) /\ UNCHANGED sending
      BY <3>1, <3>2 DEF TypeOK, Fail, Goto, Coming
    <3>3. CASE UNCHANGED <<stage, failed, sending>>
      BY <3>1, <3>3
    <3>4. CASE /\ CodeString(fn[a]) = "code"
               /\ sending' = [sending EXCEPT ![a] = Answers(a)]
               /\ Goto(a, "return") /\ UNCHANGED failed
      BY <3>1, <3>4 DEF TypeOK, Goto, Coming
    <3>5. CASE Goto(a, "hung") /\ UNCHANGED <<failed, sending>>
      BY <3>1, <3>5 DEF TypeOK, Goto, Coming, Stages
    <3> QED BY <2>3, <3>2, <3>3, <3>4, <3>5 DEF Run
  <2>4. CASE Return(a) \/ Check(a)
    BY <2>4 DEF TypeOK, Return, Check, Goto, sendVars, Coming
  <2> QED BY <2>1, <2>2, <2>3, <2>4 DEF Consume
<1>5. ASSUME NEW b \in Activations
      PROVE  /\ stage'[b] \in Coming => b \notin failed' /\ sent'[b] = {} /\ sending'[b] = {}
             /\ b \in failed' \/ CodeString(fn[b])' # "code" => sent'[b] = {} /\ sending'[b] = {}
             /\ stage'[b] \notin Coming /\ b \notin failed' =>
                  \A m \in Answers(b)' : m \in sent'[b] \cup sending'[b] \/ MayFail(m)'
  <2>1. CASE b = a
    BY <1>1, <1>2, <1>3, <1>4, <2>1
  <2>2. CASE b # a
    BY <1>1, <1>2, <1>3, <2>2
  <2> QED BY <2>1, <2>2
<1> QED BY <1>5

\* What is found in err: a return replaces what others have not looked at yet.
LEMMA ConsumeErr ==
  ASSUME TypeOK, ErrInv, NEW a \in Activations, Consume(a)
  PROVE  ErrInv'
<1> USE DEF ErrInv
<1>1. /\ \A b \in Activations \ {a} : stage'[b] = stage[b] /\ (b \in failed' <=> b \in failed)
      /\ failed \subseteq Activations /\ None \notin Activations
  BY ConsumeFrame, ScenarioAssumption DEF TypeOK, InvokerAssumption
<1>2. CASE CacheContains(a) \/ Get(a) \/ Add(a)
  <2>1. UNCHANGED <<failed, err, logged, overwritten>> /\ stage'[a] \notin {"check", "done"}
    BY <1>2 DEF TypeOK, CacheContains, Get, Add, Goto, errVars
  <2> QED BY <1>1, <2>1
<1>3. CASE Fetch(a) \/ Run(a)
  <2>1. /\ UNCHANGED <<err, logged, overwritten>> /\ stage'[a] \notin {"check", "done"}
        /\ failed' \in {failed, failed \cup {a}}
    BY <1>3 DEF TypeOK, Fetch, Run, Goto, Fail
  <2> QED BY <1>1, <2>1
<1>4. CASE Return(a)
  <2>1. /\ UNCHANGED <<failed, logged>> /\ stage'[a] = "check"
        /\ err' = IF a \in failed THEN a ELSE None
        /\ overwritten' = overwritten \cup {b \in Activations : stage[b] = "check"}
    BY <1>4 DEF TypeOK, Return, Goto
  <2> QED BY <1>1, <2>1
<1>5. CASE Check(a)
  <2>1. /\ UNCHANGED <<failed, err, overwritten>> /\ stage[a] = "check" /\ stage'[a] = "done"
        /\ logged' = logged \cup ({err} \ {None})
    BY <1>5 DEF TypeOK, Check, Goto
  <2>2. a \in failed => a \in logged' \cup overwritten
    BY <1>1, <2>1
  <2> QED BY <1>1, <2>1, <2>2
<1> QED BY <1>2, <1>3, <1>4, <1>5 DEF Consume

LEMMA ConsumeAlone ==
  ASSUME TypeOK, AloneInv, NEW a \in Activations, Consume(a)
  PROVE  AloneInv'
<1> SUFFICES ASSUME InFlight = 1 PROVE AloneInv'
  BY ConsumeFrame DEF AloneInv, InFlight, given
<1>1. /\ \A b \in Activations \ {a} : stage'[b] = stage[b] /\ sending'[b] = sending[b]
      /\ stage[a] \notin {"new", "done", "dropped"}
  BY ConsumeFrame
<1>2. \A b \in Activations \ {a} : ~OnItsWay(b) /\ ~OnItsWay(b)'
  BY <1>1 DEF AloneInv, OnItsWay
<1> QED BY <1>2 DEF AloneInv

\* With room for every function, or with nobody beside it, an activation gets
\* what it has seen in the cache.
LEMMA ConsumeRoom ==
  ASSUME TypeOK, CacheInv, AloneInv, RoomInv, NEW a \in Activations, Consume(a)
  PROVE  RoomInv'
<1> SUFFICES ASSUME Cardinality(Functions) <= CacheSize \/ InFlight = 1
             PROVE  NeverPanics' /\ \A b \in Activations : stage'[b] = "get" => InCache(fn[b])'
  BY ConsumeFrame DEF RoomInv, InFlight, CacheSize, given
<1>1. /\ UNCHANGED <<setting, fn>>
      /\ \A b \in Activations \ {a} : stage'[b] = stage[b]
  BY ConsumeFrame DEF given
<1>2. \A b \in Activations : stage[b] = "get" => InCache(fn[b])
  BY DEF RoomInv
<1>3. ASSUME NEW b \in Activations, stage'[b] = "get" PROVE InCache(fn[b])'
  <2>1. CASE b = a
    <3>1. CacheContains(a) \/ (Get(a) /\ UNCHANGED <<stage, cache>>)
      <4>1. stage'[a] = "get"
        BY <1>3, <2>1
      <4>2. CASE Fetch(a) \/ Add(a) \/ Return(a) \/ Check(a)
        BY <4>1, <4>2 DEF TypeOK, Fetch, Add, Return, Check, Goto, Fail
      <4>3. CASE Run(a)
        BY <4>1, <4>3 DEF TypeOK, Run, Goto, Fail
      <4>4. CASE Get(a)
        BY <4>1, <4>4 DEF TypeOK, Get, Goto
      <4> QED BY <4>2, <4>3, <4>4 DEF Consume
    <3>2. InCache(fn[a]) /\ cache' = cache
      BY <1>2, <1>3, <2>1, <3>1 DEF TypeOK, CacheContains, Goto, cacheVars, Get
    <3> QED BY <1>1, <2>1, <3>2 DEF InCache
  <2>2. CASE b # a
    <3>1. stage[b] = "get" /\ fn[b] \in Names(cache)
      BY <1>1, <1>2, <1>3, <2>2, InCacheNames
    <3>2. InFlight = 1 => stage[a] # "add"
      BY <2>2, <3>1 DEF AloneInv, OnItsWay
    <3>3. Names(cache) \subseteq Names(cache')
      BY <3>2, CacheStep
    <3>4. fn[b] \in Names(cache')
      BY <3>1, <3>3
    <3> QED BY <1>1, <3>4 DEF InCache, Names
  <2> QED BY <2>1, <2>2
<1>4. NeverPanics'
  <2>1. ~crashed
    BY DEF Consume, CacheContains, Get, Fetch, Add, Run, Return, Check, Up
  <2>2. ASSUME crashed' PROVE stage' = stage /\ stage[a] = "run" /\ CodeString(fn[a]) = "panic"
    <3>1. Get(a) \/ Run(a)
      BY <2>1, <2>2 DEF Consume, CacheContains, Fetch, Add, Return, Check
    <3>2. ~Get(a)
      BY <1>2, <2>1, <2>2 DEF Get
    <3> QED BY <2>1, <2>2, <3>1, <3>2 DEF Run
  <2> QED BY <1>1, <2>2 DEF NeverPanics, CodeString, Java
<1> QED BY <1>3, <1>4

LEMMA ConsumeInv ==
  ASSUME InvokerInv, NEW a \in Activations, Consume(a)
  PROVE  InvokerInv'
<1>1. QueueInv'
  <2>1. a \notin ToSet(queue) /\ (puller = "offer" => hand # a)
    BY ConsumeFrame DEF InvokerInv, QueueInv
  <2>2. ToSet(queue) \subseteq Activations
    BY DEF InvokerInv, TypeOK, ToSet
  <2> QED
    BY <2>1, <2>2, ConsumeFrame DEF InvokerInv, QueueInv, pullVars
<1> QED
  BY <1>1, ConsumeType, ConsumeAnswers, ConsumeErr, ConsumeAlone,
     ConsumeRoom DEF InvokerInv

-----------------------------------------------------------------------------
\* The rest of Next.

\* A new activation finds nobody on its way, if they come one at a time.
LEMMA InvokeStep ==
  ASSUME InvokerInv, NEW a \in Activations, Invoke(a)
  PROVE  InvokerInv'
<1> USE DEF InvokerInv
<1>1. /\ stage[a] = "new" /\ queue' = Append(queue, a) /\ stage' = [stage EXCEPT ![a] = "queued"]
      /\ UNCHANGED <<hand, puller, main, db, cache, setting, fn, doc, failed, err, logged,
                     overwritten, sending, sent, crashed>>
  BY DEF Invoke, Goto, cacheVars, given, errVars, sendVars
<1>2. stage'[a] = "queued" /\ \A b \in Activations \ {a} : stage'[b] = stage[b]
  BY <1>1 DEF TypeOK
<1>3. TypeOK'
  BY <1>1 DEF TypeOK, Stages, CacheSize
<1>4. QueueInv'
  <2>1. queue \in Seq(Activations) /\ a \notin ToSet(queue)
    BY <1>1 DEF TypeOK, QueueInv
  <2>2. ToSet(queue') = ToSet(queue) \cup {a} /\ IsInjective(queue')
    BY <1>1, <2>1, AppendSet DEF QueueInv
  <2>3. ToSet(queue) \subseteq Activations
    BY <2>1 DEF ToSet
  <2>4. puller = "offer" => hand # a
    BY <1>1 DEF QueueInv
  <2> QED BY <1>1, <1>2, <2>2, <2>3, <2>4 DEF QueueInv
<1>5. CacheInv'
  BY <1>1, <1>2 DEF CacheInv
<1>6. AnswersInv'
  <2>1. "new" \in Coming /\ "queued" \in Coming
    BY DEF Coming, Stages
  <2>2. \A b \in Activations : stage'[b] \in Coming <=> stage[b] \in Coming
    BY <1>1, <1>2, <2>1
  <2>3. \A b \in Activations : CodeString(fn[b])' = CodeString(fn[b]) /\ Answers(b)' = Answers(b)
    BY <1>1 DEF CodeString, Answers, Java
  <2>4. \A m : MayFail(m)' <=> MayFail(m)
    BY <1>1 DEF MayFail, Faults
  <2> QED BY <1>1, <2>2, <2>3, <2>4 DEF AnswersInv
<1>7. AloneInv'
  <2> SUFFICES ASSUME InFlight = 1 PROVE AloneInv'
    BY <1>1 DEF AloneInv, InFlight
  <2> DEFINE W == {b \in Activations : OnItsWay(b)}
  <2>1. Cardinality(W) < 1
    BY DEF Invoke
  <2>2. IsFiniteSet(W)
    BY ScenarioAssumption, FS_Subset DEF InvokerAssumption
  <2>3. W = {}
    <3>1. Cardinality(W) \in Nat /\ (Cardinality(W) = 0 => W = {})
      BY <2>2, FS_CardinalityType, FS_EmptySet
    <3> HIDE DEF W
    <3> QED BY <2>1, <3>1
  <2>4. \A b \in Activations \ {a} : ~OnItsWay(b)'
    BY <1>1, <1>2, <2>3 DEF OnItsWay
  <2> QED BY <2>4 DEF AloneInv
<1>8. RoomInv'
  <2>1. \A b \in Activations : /\ stage'[b] = "get" => stage[b] = "get"
                               /\ stage[b] = "run" => stage'[b] = "run"
    BY <1>1, <1>2
  <2> QED
    BY <1>1, <2>1 DEF RoomInv, NeverPanics, CodeString, Java, InCache,
       CacheSize, InFlight
<1>9. ErrInv'
  BY <1>1, <1>2 DEF ErrInv
<1> QED BY <1>3, <1>4, <1>5, <1>6, <1>7, <1>8, <1>9

\* A step that moves one activation towards the loop, or none.
LEMMA MoveStep ==
  ASSUME InvokerInv, TypeOK', QueueInv',
         UNCHANGED <<setting, fn, doc, failed, err, logged, overwritten, sending,
                     sent, cache, crashed>>,
         \A b \in Activations :
           \/ stage'[b] = stage[b]
           \/ /\ stage[b] \in {"queued", "offered"}
              /\ stage'[b] \in {"offered", "contains", "dropped"}
  PROVE  InvokerInv'
<1> USE DEF InvokerInv
<1>1. CacheInv'
  BY DEF CacheInv
<1>2. AnswersInv'
  <2>1. \A b \in Activations : stage'[b] \in Coming <=> stage[b] \in Coming
    BY DEF Coming, Stages
  <2>2. \A b \in Activations : CodeString(fn[b])' = CodeString(fn[b]) /\ Answers(b)' = Answers(b)
    BY DEF CodeString, Answers, Java
  <2>3. \A m : MayFail(m)' <=> MayFail(m)
    BY DEF MayFail, Faults
  <2> QED BY <2>1, <2>2, <2>3 DEF AnswersInv
<1>3. AloneInv'
  <2>1. \A b \in Activations : OnItsWay(b)' => OnItsWay(b)
    BY DEF OnItsWay
  <2> QED BY <2>1 DEF AloneInv, InFlight
<1>4. RoomInv'
  <2>1. \A b \in Activations : /\ stage'[b] = "get" => stage[b] = "get"
                               /\ stage[b] = "run" => stage'[b] = "run"
    OBVIOUS
  <2> QED
    BY <2>1 DEF RoomInv, NeverPanics, CodeString, Java, InCache, CacheSize,
       InFlight
<1>5. ErrInv'
  BY DEF ErrInv, TypeOK
<1> QED BY <1>1, <1>2, <1>3, <1>4, <1>5

LEMMA GetActivationStep ==
  ASSUME InvokerInv, GetActivation
  PROVE  InvokerInv'
<1> USE DEF InvokerInv
<1>1. /\ puller = "pull" /\ puller' \in {"offer", "error"}
      /\ UNCHANGED <<main, db, cache, setting, fn, doc, failed, err, logged, overwritten,
                     sending, sent, crashed>>
  BY DEF GetActivation, cacheVars, given, errVars, sendVars
<1>2. CASE UNCHANGED <<queue, hand, stage>>
  <2>1. puller' = "error"
    <3>1. CASE queue # <<>> /\ queue' = Tail(queue)
      BY <1>2, <3>1, LenProperties, HeadTailProperties DEF TypeOK
    <3>2. CASE puller' = "error"
      BY <3>2
    <3> QED BY <3>1, <3>2 DEF GetActivation
  <2>2. TypeOK'
    BY <1>1, <1>2, <2>1 DEF TypeOK, CacheSize
  <2>3. QueueInv'
    BY <1>2, <2>1 DEF QueueInv
  <2> QED BY <1>1, <1>2, <2>2, <2>3, MoveStep
<1>3. CASE queue # <<>> /\ queue' = Tail(queue)
  <2>1. /\ queue \in Seq(Activations)
        /\ Tail(queue) \in Seq(Activations)
        /\ Head(queue) \in Activations /\ Head(queue) \in ToSet(queue)
        /\ IsInjective(Tail(queue))
        /\ ToSet(Tail(queue)) = ToSet(queue) \ {Head(queue)}
    BY <1>3, TailSet DEF TypeOK, QueueInv
  <2>2. stage[Head(queue)] = "queued" /\ ToSet(queue) \subseteq Activations
    BY <2>1 DEF QueueInv, ToSet
  <2>3. \/ puller' = "offer" /\ hand' = Head(queue)
             /\ stage' = [stage EXCEPT ![Head(queue)] = "offered"]
        \/ puller' = "error" /\ UNCHANGED hand
             /\ stage' = [stage EXCEPT ![Head(queue)] = "dropped"]
        \/ puller' = "error" /\ UNCHANGED <<queue, hand, stage>>
    BY DEF GetActivation, Goto
  <2>4. CASE UNCHANGED <<queue, hand, stage>>
    BY <1>2, <2>4
  <2>5. CASE \/ puller' = "offer" /\ hand' = Head(queue)
                  /\ stage' = [stage EXCEPT ![Head(queue)] = "offered"]
             \/ puller' = "error" /\ UNCHANGED hand
                  /\ stage' = [stage EXCEPT ![Head(queue)] = "dropped"]
    <3>1. /\ \A b \in Activations \ {Head(queue)} : stage'[b] = stage[b]
          /\ stage'[Head(queue)] \in {"offered", "dropped"}
          /\ puller' = "offer" => hand' = Head(queue) /\ stage'[Head(queue)] = "offered"
          /\ stage' \in [Activations -> Stages] /\ hand' \in Activations \cup {None}
      BY <2>1, <2>5 DEF TypeOK, Stages
    <3>2. TypeOK'
      BY <1>1, <1>3, <2>1, <3>1 DEF TypeOK, CacheSize
    <3>3. QueueInv'
      BY <1>3, <2>1, <2>2, <3>1 DEF QueueInv
    <3>4. \A b \in Activations :
            \/ stage'[b] = stage[b]
            \/ /\ stage[b] \in {"queued", "offered"}
               /\ stage'[b] \in {"offered", "contains", "dropped"}
      BY <2>2, <3>1
    <3> QED BY <1>1, <3>2, <3>3, <3>4, MoveStep
  <2> QED BY <2>3, <2>4, <2>5
<1> QED BY <1>2, <1>3 DEF GetActivation

LEMMA DispatchStep ==
  ASSUME InvokerInv, Dispatch
  PROVE  InvokerInv'
<1> USE DEF InvokerInv
<1>1. /\ puller = "offer" /\ puller' = "pull" /\ hand' = None
      /\ stage' = [stage EXCEPT ![hand] = "contains"]
      /\ UNCHANGED <<queue, main, db, cache, setting, fn, doc, failed, err, logged, overwritten,
                     sending, sent,
                     crashed>>
  BY DEF Dispatch, Goto, cacheVars, given, errVars, sendVars
<1>2. hand \in Activations /\ stage[hand] = "offered"
  BY <1>1 DEF QueueInv
<1>3. stage'[hand] = "contains" /\ \A b \in Activations \ {hand} : stage'[b] = stage[b]
  BY <1>1, <1>2 DEF TypeOK
<1>4. TypeOK'
  BY <1>1 DEF TypeOK, Stages, CacheSize
<1>5. QueueInv'
  <2>1. ToSet(queue) \subseteq Activations
    BY DEF TypeOK, ToSet
  <2> QED BY <1>1, <1>2, <1>3, <2>1 DEF QueueInv
<1> QED BY <1>1, <1>2, <1>3, <1>4, <1>5, MoveStep

LEMMA MainEndsStep ==
  ASSUME InvokerInv, Stop \/ Exit \/ \E f \in Functions : Update(f)
  PROVE  InvokerInv'
<1> USE DEF InvokerInv
<1>1. /\ puller' \in {puller, "ended"}
      /\ main' \in {main, "closing", "exited"}
      /\ UNCHANGED <<queue, hand, stage, cache, setting, fn, doc, failed, err, logged, overwritten,
                     sending, sent,
                     crashed>>
  BY DEF Stop, Exit, Update, pullVars, cacheVars, actVars, given, errVars,
     sendVars
<1>2. db' \in [Functions -> 1 .. Versions]
  <2>1. CASE Stop \/ Exit
    BY <2>1 DEF Stop, Exit, cacheVars, TypeOK
  <2>2. CASE \E f \in Functions : Update(f)
    <3>1. PICK f \in Functions : Update(f)
      BY <2>2
    <3>2. db[f] + 1 \in 1 .. Versions
      <4>1. db[f] \in 1 .. Versions /\ Versions \in Nat
        BY <3>1, ScenarioAssumption DEF InvokerAssumption, TypeOK
      <4> QED BY <3>1, <4>1 DEF Update
    <3> QED BY <3>1, <3>2 DEF Update, TypeOK
  <2> QED BY <2>1, <2>2
<1>3. TypeOK'
  BY <1>1, <1>2 DEF TypeOK, CacheSize
<1>4. QueueInv'
  BY <1>1 DEF QueueInv
<1> QED BY <1>1, <1>3, <1>4, MoveStep

\* A message is sent, or lost by a failure that may happen.
LEMMA SendStep ==
  ASSUME InvokerInv, NEW a \in Activations, Send(a)
  PROVE  InvokerInv'
<1> USE DEF InvokerInv
<1>1. PICK m \in sending[a] :
        /\ sending' = [sending EXCEPT ![a] = @ \ {m}]
        /\ \/ sent' = [sent EXCEPT ![a] = @ \cup {m}]
           \/ MayFail(m) /\ UNCHANGED sent
  BY DEF Send
<1>2. UNCHANGED <<queue, hand, puller, main, db, cache, stage, setting, fn, doc, failed, err,
                  logged, overwritten, crashed>>
  BY DEF Send, pullVars, cacheVars, given, errVars
<1>3. /\ \A b \in Activations \ {a} : sending'[b] = sending[b] /\ sent'[b] = sent[b]
      /\ sending'[a] = sending[a] \ {m}
      /\ (sent'[a] = sent[a] \cup {m}) \/ (MayFail(m) /\ sent'[a] = sent[a])
  BY <1>1 DEF TypeOK
<1>4. TypeOK'
  <2>1. m \in Messages
    BY <1>1 DEF TypeOK
  <2>2. sending' \in [Activations -> SUBSET Messages]
    BY <1>1 DEF TypeOK
  <2>3. sent' \in [Activations -> SUBSET Messages]
    <3>1. sent \in [Activations -> SUBSET Messages] /\ sent[a] \cup {m} \in SUBSET Messages
      BY <2>1 DEF TypeOK
    <3>2. CASE sent' = [sent EXCEPT ![a] = @ \cup {m}]
      BY <3>1, <3>2
    <3>3. CASE UNCHANGED sent
      BY <3>1, <3>3
    <3> QED BY <1>1, <3>2, <3>3
  <2> QED BY <1>2, <2>2, <2>3 DEF TypeOK, CacheSize
<1>5. QueueInv' /\ CacheInv'
  BY <1>2 DEF QueueInv, CacheInv
<1>6. AnswersInv'
  <2>1. \A b \in Activations : CodeString(fn[b])' = CodeString(fn[b]) /\ Answers(b)' = Answers(b)
    BY <1>2 DEF CodeString, Answers, Java
  <2>2. \A n : MayFail(n)' <=> MayFail(n)
    BY <1>2 DEF MayFail, Faults
  <2>3. stage[a] \notin Coming /\ a \notin failed /\ CodeString(fn[a]) = "code"
    BY <1>1 DEF AnswersInv
  <2>4. \A n \in Answers(a) : n \in sent'[a] \cup sending'[a] \/ MayFail(n)
    BY <1>3, <2>3 DEF AnswersInv
  <2> QED BY <1>2, <1>3, <2>1, <2>2, <2>3, <2>4 DEF AnswersInv
<1>7. AloneInv'
  <2>1. \A b \in Activations : OnItsWay(b)' => OnItsWay(b)
    BY <1>1, <1>2, <1>3 DEF OnItsWay
  <2> QED BY <1>2, <2>1 DEF AloneInv, InFlight
<1>8. RoomInv'
  BY <1>2 DEF RoomInv, NeverPanics, CodeString, Java, InCache, CacheSize,
     InFlight
<1>9. ErrInv'
  BY <1>2 DEF ErrInv
<1> QED BY <1>4, <1>5, <1>6, <1>7, <1>8, <1>9

LEMMA InvokerStep == InvokerInv /\ [Next]_vars => InvokerInv'
<1> SUFFICES ASSUME InvokerInv, [Next]_vars PROVE InvokerInv'
  OBVIOUS
<1>1. CASE UNCHANGED vars
  <2>1. UNCHANGED <<queue, hand, puller, main, db, cache, stage, setting, fn, doc, failed, err,
                    logged, overwritten,
                     sending, sent, crashed>>
    BY <1>1 DEF vars, pullVars, cacheVars, actVars, given, errVars, sendVars
  <2>2. TypeOK' /\ QueueInv'
    BY <2>1 DEF InvokerInv, TypeOK, QueueInv, CacheSize
  <2> QED BY <2>1, <2>2, MoveStep
<1>2. CASE Next
  BY <1>2, ConsumeInv, InvokeStep, GetActivationStep, DispatchStep,
     MainEndsStep, SendStep DEF Next
<1> QED BY <1>1, <1>2

LEMMA InvokerAlways == Spec => []InvokerInv
BY InvokerInit, InvokerStep, PTL DEF Spec

\* An execution of a scenario is one of the invoker, and one of the provider,
\* so that what is proved of these holds of every scenario.
LEMMA ScenariosAreExecutions == MCSpec \/ EvictsSpec => Spec /\ Provider!Spec
<1>1. MCInit \/ EvictsInit => Init /\ Provider!Init
  BY DEF MCInit, EvictsInit
<1>2. [MCNext]_mcVars => [Next]_vars /\ [Provider!Next]_(Provider!vars)
  BY DEF MCNext, AnswersNext, FaultsNext, OneNext, ProviderNext,
     mcVars, providerVars,
     Provider!vars, Provider!mainVars, Provider!connVars, Provider!sendVars, Provider!readVars
<1> QED BY <1>1, <1>2, PTL DEF MCSpec, EvictsSpec, Spec, Provider!Spec

\* An activation that failed, or whose function has no code that can be read
\* (types.go:136), has no answer; one that has returned without an error has all
\* its answers, sent, on their way or lost by a failure (main.go:160): for any
\* activations beside each other, and any cache.
THEOREM AnswersAlwaysAgree == Spec => []TypedAnswersAgree
<1>1. InvokerInv => TypedAnswersAgree
  BY DEF InvokerInv, AnswersInv, TypedAnswersAgree, AnswersAgree, Coming
<1> QED BY <1>1, InvokerAlways, PTL

\* The goroutines share err (main.go:129): for any activations beside each other,
\* an error that is not logged has been replaced by the outcome of one that
\* returned before its own goroutine looked at err.
THEOREM FailuresAreLogged == Spec => []FailureIsLogged
<1>1. InvokerInv => FailureIsLogged
  BY DEF InvokerInv, ErrInv, FailureIsLogged
<1> QED BY <1>1, InvokerAlways, PTL

\* GetFunction finds what it has seen in the cache, when there is room for all
\* functions or activations come one at a time (function_storage.go:63).
THEOREM RoomyNeverPanics == Spec => []NoPanicWithRoom
<1>1. InvokerInv => NoPanicWithRoom
  BY DEF InvokerInv, RoomInv, NoPanicWithRoom
<1> QED BY <1>1, InvokerAlways, PTL

-----------------------------------------------------------------------------
(* The message provider.                                                   *)

Sends(s) == Provider!Sending(s)

\* What its senders hold, and how far main has come: a writer belongs to the
\* topic its maker sent to.
SendersInv ==
  /\ \A s \in Senders :
       /\ s \in storing <=> pc[s] = "storing"
       /\ pc[s] \in {"idle", "lookup", "store"} => s \notin made
       /\ pc[s] = "storing" => s \in made /\ mine[s] = s
       /\ pc[s] # "idle" => topic[s] \in Provider!Topics
       /\ pc[s] = "write" => mine[s] \in made /\ topic[mine[s]] = topic[s]
       /\ pc[s] = "sent" => s \in written[topic[s]]
       /\ \A t \in Provider!Topics :
            s \in written[t] => topic[s] = t /\ pc[s] \in {"sent", "error"}
  /\ \A t \in Provider!Topics : writers[t] # None => writers[t] \in made /\ topic[writers[t]] = t
  /\ life \notin {"connect", "topic", "error"} => ensured
  /\ life = "closed" => conn = "closed"

\* A sender that makes a writer, or has made one.
Maker(s) == pc[s] \in {"store", "storing"} \/ s \in made

\* Once a writer is stored its topic always has one, so that only those that
\* looked before make another.
MakersInv ==
  /\ \A w \in made : pc[w] = "storing" \/ writers[topic[w]] # None
  /\ \A s, r \in Senders :
       Maker(s) /\ Maker(r) /\ topic[s] = topic[r] /\ s # r => {s, r} \in beside

\* Close finds every writer but those that were replaced, or stored late.
CloseInv ==
  /\ \A w \in made : \/ pc[w] = "storing" \/ writers[topic[w]] = w
                     \/ \E r \in made \ {w} : topic[r] = topic[w]
  /\ life \in {"readers", "connection", "closed"} =>
       \A t \in Provider!Topics : writers[t] \in closed \cup late \cup {None}

ProviderInv ==
  /\ Provider!TypeOK
  /\ brokerQueue + pulled <= 2
  /\ SendersInv
  /\ MakersInv
  /\ CloseInv

LEMMA ProviderInit == Provider!Init => ProviderInv
<1> SUFFICES ASSUME Provider!Init PROVE ProviderInv
  OBVIOUS
<1> USE ScenarioAssumption
    DEF Provider!Init, Provider!Topics, Provider!MessageProviderAssumption
<1>1. Provider!TypeOK /\ brokerQueue + pulled <= 2
  <2>1. ensured \in BOOLEAN /\ pulling \in BOOLEAN /\ raced \in BOOLEAN
    OBVIOUS
  <2>2. brokerQueue \in 0 .. 2 /\ pulled \in 0 .. 2 /\ brokerQueue + pulled <= 2
    OBVIOUS
  <2> QED BY <2>1, <2>2 DEF Provider!TypeOK, Provider!Lives, Provider!Starting
<1>2. SendersInv
  BY DEF SendersInv
<1>3. MakersInv /\ CloseInv
  BY DEF MakersInv, CloseInv, Maker
<1> QED BY <1>1, <1>2, <1>3 DEF ProviderInv

\* A step of main or of the reading goroutine that touches no sender and no
\* writer.
LEMMA AsideStep ==
  ASSUME ProviderInv, Provider!TypeOK', (brokerQueue + pulled <= 2)',
         UNCHANGED <<writers, made, written, storing, beside, late, pc, topic, mine>>,
         closed \subseteq closed',
         life' \notin {"connect", "topic", "error"} => ensured',
         life' = "closed" => conn' = "closed",
         life' \in {"readers", "connection", "closed"} =>
           \A t \in Provider!Topics : writers[t] \in closed' \cup late \cup {None}
  PROVE  ProviderInv'
<1>1. SendersInv'
  BY DEF ProviderInv, SendersInv
<1>2. MakersInv'
  BY DEF ProviderInv, MakersInv, Maker
<1>3. CloseInv'
  BY DEF ProviderInv, CloseInv
<1> QED BY <1>1, <1>2, <1>3 DEF ProviderInv

\* main's steps before anything is sent.
LEMMA StartStep ==
  ASSUME ProviderInv, Provider!NewMessenger
  PROVE  ProviderInv'
<1> USE DEF Provider!NewMessenger, Provider!NewMessageProvider, Provider!EnsureTopic,
            Provider!StartPings, Provider!StartPool, Provider!NewKafkaConnection,
            Provider!CreateTopics, Provider!sendVars, Provider!readVars, Provider!connVars
<1>1. /\ ensured' \in BOOLEAN /\ pulling' \in BOOLEAN /\ raced' = raced
      /\ (brokerQueue + pulled <= 2)'
  BY DEF ProviderInv, Provider!TypeOK
<1>2. Provider!TypeOK'
  BY <1>1 DEF ProviderInv, Provider!TypeOK, Provider!Lives, Provider!Starting, Provider!Closing
<1>3. /\ life' \notin {"connect", "topic", "error"} => ensured'
      /\ life' \notin {"readers", "connection", "closed"}
  BY DEF ProviderInv, SendersInv
<1>4. UNCHANGED <<writers, made, closed, written, storing, beside, late, pc, topic, mine>>
  OBVIOUS
<1> QED BY <1>1, <1>2, <1>3, <1>4, AsideStep

\* The steps of main that close, those of the pinger, and the reading.
LEMMA EndStep ==
  ASSUME ProviderInv,
         Provider!BeginClose \/ Provider!StopPings \/ Provider!CloseWriters
           \/ Provider!CloseReaders \/ Provider!CloseConnection \/ Provider!Wake \/ Provider!Read
  PROVE  ProviderInv'
<1> USE DEF Provider!BeginClose, Provider!StopPings, Provider!CloseWriters,
            Provider!CloseReaders, Provider!CloseConnection, Provider!Wake, Provider!Read,
            Provider!NewReader, Provider!sendVars, Provider!readVars, Provider!connVars
<1>1. UNCHANGED <<writers, made, written, storing, beside, late, pc, topic, mine, ensured>>
  OBVIOUS
<1>2. closed \subseteq closed' /\ closed' \subseteq made
  <2>1. \A t \in Provider!Topics : writers[t] # None => writers[t] \in made
    BY DEF ProviderInv, SendersInv
  <2>2. closed \subseteq made
    BY DEF ProviderInv, Provider!TypeOK
  <2> QED BY <2>1, <2>2
<1>3. raced' \in BOOLEAN /\ pulling' \in BOOLEAN
  BY DEF ProviderInv, Provider!TypeOK
<1>4. brokerQueue' \in 0 .. 2 /\ pulled' \in 0 .. 2 /\ (brokerQueue + pulled <= 2)'
  <2>1. brokerQueue \in 0 .. 2 /\ pulled \in 0 .. 2 /\ brokerQueue + pulled <= 2
    BY DEF ProviderInv, Provider!TypeOK
  <2>2. CASE UNCHANGED <<brokerQueue, pulled>>
    BY <2>1, <2>2
  <2>3. CASE /\ brokerQueue > 0 /\ brokerQueue' = brokerQueue - 1
             /\ (pulled' = pulled + 1) \/ (pulled' = pulled)
    BY <2>1, <2>3
  <2> QED BY <2>2, <2>3
<1>5. Provider!TypeOK'
  BY <1>1, <1>2, <1>3, <1>4 DEF ProviderInv, Provider!TypeOK, Provider!Lives,
     Provider!Starting, Provider!Closing
<1>6. /\ life' \notin {"connect", "topic", "error"} => ensured'
      /\ life' = "closed" => conn' = "closed"
  BY DEF ProviderInv, SendersInv
<1>7. ASSUME life' \in {"readers", "connection", "closed"}
      PROVE  \A t \in Provider!Topics : writers[t] \in closed' \cup late \cup {None}
  BY <1>2, <1>7 DEF ProviderInv, CloseInv
<1> QED BY <1>1, <1>2, <1>4, <1>5, <1>6, <1>7, AsideStep

-----------------------------------------------------------------------------
\* A message begins to be sent.
LEMMA BeginSendStep ==
  ASSUME ProviderInv, Provider!SendCompletion \/ Provider!Ping
  PROVE  ProviderInv'
<1> USE DEF Provider!SendCompletion, Provider!Ping, Provider!Goto, Provider!mainVars,
            Provider!readVars, Provider!connVars
<1>1. PICK t \in Provider!Topics : Provider!Start(t)
  BY DEF Provider!Topics
<1>2. PICK s \in Senders :
        /\ pc[s] = "idle"
        /\ pc' = [pc EXCEPT ![s] = "lookup"]
        /\ topic' = [topic EXCEPT ![s] = t]
  BY <1>1 DEF Provider!Start
<1>3. UNCHANGED <<writers, made, closed, written, storing, beside, late, mine, life, conn, ensured,
                  raced, reader, brokerQueue, pulled, pulling>>
  BY <1>1 DEF Provider!Start
<1>4. Provider!TypeOK' /\ (brokerQueue + pulled <= 2)'
  BY <1>2, <1>3 DEF ProviderInv, Provider!TypeOK
<1>5. /\ pc'[s] = "lookup" /\ topic'[s] = t
      /\ \A r \in Senders \ {s} : pc'[r] = pc[r] /\ topic'[r] = topic[r]
      /\ made \subseteq Senders /\ s \notin made
  BY <1>2 DEF ProviderInv, Provider!TypeOK, SendersInv
<1>6. \A r \in Senders : pc[r] = "write" => mine[r] # s
  BY <1>5 DEF ProviderInv, SendersInv
<1>7. SendersInv'
  BY <1>2, <1>3, <1>5, <1>6 DEF ProviderInv, SendersInv
<1>8. MakersInv'
  <2>1. \A r \in Senders : Maker(r)' <=> Maker(r) /\ r # s
    BY <1>2, <1>3, <1>5 DEF Maker
  <2> QED BY <1>3, <1>5, <2>1 DEF ProviderInv, MakersInv
<1>9. CloseInv'
  BY <1>3, <1>5 DEF ProviderInv, CloseInv
<1> QED BY <1>4, <1>7, <1>8, <1>9 DEF ProviderInv

\* What a step of a sender leaves alone.
LEMMA SenderFrame ==
  ASSUME ProviderInv, NEW s \in Senders,
         Provider!LookUp(s) \/ Provider!Store(s) \/ Provider!Write(s)
  PROVE  /\ UNCHANGED <<conn, ensured, closed, topic, pinger, life,
                        brokerQueue, pulled, pulling, reader>>
         /\ \A r \in Senders \ {s} : pc'[r] = pc[r] /\ (r \in storing' <=> r \in storing)
BY DEF Provider!LookUp, Provider!Store, Provider!Write, Provider!Goto, Provider!mainVars,
       Provider!readVars, Provider!connVars, Provider!NewWriter, ProviderInv, Provider!TypeOK

LEMMA LookUpStep ==
  ASSUME ProviderInv, NEW s \in Senders, Provider!LookUp(s)
  PROVE  ProviderInv'
<1> USE DEF Provider!LookUp, Provider!Goto
<1>1. /\ UNCHANGED <<conn, ensured, closed, topic, pinger, life, writers, made, written, storing,
                     late, brokerQueue, pulled, pulling, reader>>
      /\ \A r \in Senders \ {s} : pc'[r] = pc[r]
      /\ pc[s] = "lookup"
  BY SenderFrame
<1>2. topic[s] \in Provider!Topics
  BY DEF ProviderInv, SendersInv
<1>3. CASE UNCHANGED <<beside, pc, mine>>
  <2>1. Provider!TypeOK' /\ (brokerQueue + pulled <= 2)'
    <3>1. raced' \in BOOLEAN
      BY DEF ProviderInv, Provider!TypeOK
    <3> QED BY <1>1, <1>3, <3>1 DEF ProviderInv, Provider!TypeOK
  <2> QED BY <1>1, <1>3, <2>1, AsideStep DEF ProviderInv, SendersInv, CloseInv
<1>4. CASE /\ mine' = [mine EXCEPT ![s] = Provider!Found(s)]
           /\ pc' = [pc EXCEPT ![s] = IF Provider!Found(s) = None THEN "store" ELSE "write"]
           /\ beside' = beside \cup {{r, s} : r \in {q \in Senders : Provider!Making(q)}}
           /\ raced' = raced
  <2>1. Provider!TypeOK' /\ (brokerQueue + pulled <= 2)'
    <3>1. beside' \subseteq SUBSET Senders
      BY <1>4 DEF ProviderInv, Provider!TypeOK
    <3> QED BY <1>1, <1>2, <1>4, <3>1 DEF ProviderInv, Provider!TypeOK, Provider!Found
  <2>2. /\ mine'[s] = writers[topic[s]]
        /\ pc'[s] = IF writers[topic[s]] = None THEN "store" ELSE "write"
        /\ \A r \in Senders \ {s} : mine'[r] = mine[r]
    BY <1>4 DEF Provider!Found, ProviderInv, Provider!TypeOK
  <2>3. SendersInv'
    <3>1. pc'[s] = "write" => mine'[s] \in made /\ topic[mine'[s]] = topic[s]
      BY <1>2, <2>2 DEF ProviderInv, SendersInv, Provider!TypeOK
    <3>2. \A t \in Provider!Topics : s \notin written[t]
      BY <1>1 DEF ProviderInv, SendersInv
    <3>3. s \notin made /\ s \notin storing
      BY <1>1 DEF ProviderInv, SendersInv
    <3> QED BY <1>1, <1>2, <2>2, <3>1, <3>2, <3>3 DEF ProviderInv, SendersInv
  <2>4. MakersInv'
    <3>1. s \notin made /\ made \subseteq Senders
      BY <1>1 DEF ProviderInv, SendersInv, Provider!TypeOK
    <3>2. \A w \in made : pc'[w] = "storing" \/ writers[topic[w]] # None
      BY <1>1, <3>1 DEF ProviderInv, MakersInv
    <3>3. \A r \in Senders \ {s} : Maker(r)' <=> Maker(r)
      BY <1>1 DEF Maker
    <3>4. ASSUME NEW r \in Senders, r # s, Maker(r), Maker(s)', topic[r] = topic[s]
          PROVE  {r, s} \in beside'
      <4>1. writers[topic[s]] = None
        BY <2>2, <3>1, <3>4, <1>1 DEF Maker
      <4>2. Provider!Making(r)
        <5>1. r \in made => pc[r] = "storing"
          BY <3>4, <4>1 DEF ProviderInv, MakersInv
        <5> QED BY <3>4, <5>1 DEF Maker, Provider!Making
      <4> QED BY <1>4, <4>2
    <3>5. ASSUME NEW r \in Senders, NEW q \in Senders, r # q, Maker(r)', Maker(q)',
                 topic[r] = topic[q]
          PROVE  {r, q} \in beside'
      <4>1. CASE r = s
        <5>1. Maker(q) /\ {q, s} \in beside'
          BY <3>3, <3>4, <3>5, <4>1
        <5>2. {r, q} = {q, s}
          BY <4>1
        <5> QED BY <5>1, <5>2
      <4>2. CASE q = s
        BY <3>3, <3>4, <3>5, <4>2
      <4>3. CASE r # s /\ q # s
        BY <1>4, <3>3, <3>5, <4>3 DEF ProviderInv, MakersInv
      <4> QED BY <4>1, <4>2, <4>3
    <3> QED BY <1>1, <3>2, <3>5 DEF MakersInv
  <2>5. CloseInv'
    <3>1. s \notin made /\ made \subseteq Senders
      BY <1>1 DEF ProviderInv, SendersInv, Provider!TypeOK
    <3> QED BY <1>1, <3>1 DEF ProviderInv, CloseInv
  <2> QED BY <2>1, <2>3, <2>4, <2>5 DEF ProviderInv
<1> QED BY <1>3, <1>4

\* A writer is made for a topic, and kept for it.
LEMMA StoreStep ==
  ASSUME ProviderInv, NEW s \in Senders, Provider!Store(s)
  PROVE  ProviderInv'
<1> USE DEF Provider!Store, Provider!Goto, Provider!NewWriter
<1>1. /\ UNCHANGED <<conn, ensured, closed, topic, pinger, life, written, beside,
                     brokerQueue, pulled, pulling, reader>>
      /\ \A r \in Senders \ {s} : pc'[r] = pc[r] /\ (r \in storing' <=> r \in storing)
  BY SenderFrame
<1>2. topic[s] \in Provider!Topics /\ made \subseteq Senders
  BY DEF ProviderInv, SendersInv, Provider!TypeOK
<1>3. Provider!TypeOK' /\ (brokerQueue + pulled <= 2)'
  <2>1. raced' \in BOOLEAN
    BY DEF ProviderInv, Provider!TypeOK
  <2>2. /\ made \subseteq made' /\ made' \subseteq Senders /\ storing' \subseteq Senders
        /\ late' \subseteq Senders
        /\ pc' \in [Senders -> {"idle", "lookup", "store", "storing", "write", "sent", "error"}]
        /\ mine' \in [Senders -> Senders \cup {None}]
        /\ writers' \in [Provider!Topics -> Senders \cup {None}]
    BY <1>2 DEF ProviderInv, Provider!TypeOK
  <2> QED BY <1>1, <2>1, <2>2 DEF ProviderInv, Provider!TypeOK
<1>4. CASE UNCHANGED <<pc, storing, made, mine, writers, late>>
  BY <1>1, <1>3, <1>4, AsideStep DEF ProviderInv, SendersInv, CloseInv
<1>5. CASE pc[s] = "store" /\ Provider!NewWriter(s) /\ storing' = storing \cup {s}
           /\ pc' = [pc EXCEPT ![s] = "storing"] /\ UNCHANGED <<writers, late>>
  <2>1. /\ pc'[s] = "storing" /\ made' = made \cup {s} /\ s \notin made /\ mine'[s] = s
        /\ \A r \in Senders \ {s} : mine'[r] = mine[r]
    BY <1>5 DEF ProviderInv, SendersInv, Provider!TypeOK
  <2>2. SendersInv'
    BY <1>1, <1>2, <1>5, <2>1 DEF ProviderInv, SendersInv
  <2>3. MakersInv'
    <3>1. \A r \in Senders : Maker(r)' => Maker(r)
      BY <1>1, <1>5, <2>1 DEF Maker
    <3> QED BY <1>1, <1>2, <1>5, <2>1, <3>1 DEF ProviderInv, MakersInv
  <2>4. CloseInv'
    BY <1>1, <1>2, <1>5, <2>1 DEF ProviderInv, CloseInv
  <2> QED BY <1>3, <2>2, <2>3, <2>4 DEF ProviderInv
<1>6. CASE /\ pc[s] = "storing"
           /\ writers' = [writers EXCEPT ![topic[s]] = s]
           /\ storing' = storing \ {s}
           /\ late' = IF life \in {"writers", "readers", "connection"} THEN late \cup {s} ELSE late
           /\ pc' = [pc EXCEPT ![s] = "write"]
           /\ UNCHANGED <<made, mine>>
  <2>1. /\ pc'[s] = "write" /\ s \in made /\ s \notin storing' /\ None \notin Senders
        /\ writers'[topic[s]] = s
        /\ \A t \in Provider!Topics \ {topic[s]} : writers'[t] = writers[t]
    BY <1>2, <1>6, ScenarioAssumption
       DEF ProviderInv, SendersInv, Provider!TypeOK, Provider!MessageProviderAssumption
  <2>2. \A w \in made : topic[w] \in Provider!Topics
    BY <1>2 DEF ProviderInv, SendersInv
  <2>3. SendersInv'
    <3>1. mine'[s] \in made /\ topic[mine'[s]] = topic[s]
      BY <1>6, <2>1 DEF ProviderInv, SendersInv
    <3>2. \A t \in Provider!Topics :
            writers'[t] # None => writers'[t] \in made /\ topic[writers'[t]] = t
      BY <2>1 DEF ProviderInv, SendersInv
    <3>3. \A t \in Provider!Topics : s \notin written[t]
      BY <1>6 DEF ProviderInv, SendersInv
    <3> QED BY <1>1, <1>2, <1>6, <2>1, <3>1, <3>2, <3>3 DEF ProviderInv, SendersInv
  <2>4. MakersInv'
    <3>1. \A r \in Senders : Maker(r)' => Maker(r)
      BY <1>1, <1>6, <2>1 DEF Maker
    <3>2. \A w \in made : pc'[w] = "storing" \/ writers'[topic[w]] # None
      BY <1>1, <1>2, <2>1, <2>2 DEF ProviderInv, MakersInv
    <3> QED BY <1>1, <1>6, <3>1, <3>2 DEF ProviderInv, MakersInv
  <2>5. CloseInv'
    <3>1. ASSUME NEW w \in made
          PROVE  \/ pc'[w] = "storing" \/ writers'[topic[w]] = w
                 \/ \E r \in made \ {w} : topic[r] = topic[w]
      <4>1. CASE topic[w] = topic[s]
        BY <2>1, <4>1
      <4>2. CASE topic[w] # topic[s]
        <5>1. pc'[w] = pc[w] /\ writers'[topic[w]] = writers[topic[w]]
          BY <1>1, <1>2, <2>1, <2>2, <4>2
        <5> QED BY <5>1 DEF ProviderInv, CloseInv
      <4> QED BY <4>1, <4>2
    <3>2. ASSUME life' \in {"readers", "connection", "closed"}, NEW t \in Provider!Topics
          PROVE  writers'[t] \in closed \cup late' \cup {None}
      <4>1. life # "closed"
        BY DEF Provider!Up
      <4>2. late' = late \cup {s}
        BY <1>1, <1>6, <3>2, <4>1
      <4> QED BY <1>1, <2>1, <3>2, <4>2 DEF ProviderInv, CloseInv
    <3> QED BY <1>1, <1>6, <3>1, <3>2 DEF CloseInv
  <2> QED BY <1>3, <2>3, <2>4, <2>5 DEF ProviderInv
<1> QED BY <1>4, <1>5, <1>6

\* The writer in hand belongs to the topic of the message.
LEMMA WriteStep ==
  ASSUME ProviderInv, NEW s \in Senders, Provider!Write(s)
  PROVE  ProviderInv'
<1> USE DEF Provider!Write, Provider!Goto
<1>1. /\ UNCHANGED <<conn, ensured, closed, topic, mine, pinger, life, writers, made, storing,
                     beside, late, brokerQueue, pulled, pulling, reader, raced>>
      /\ \A r \in Senders \ {s} : pc'[r] = pc[r]
      /\ pc[s] = "write" /\ pc'[s] \in {"sent", "error"}
  BY SenderFrame DEF Provider!mainVars, ProviderInv, Provider!TypeOK
<1>2. topic[s] \in Provider!Topics /\ topic[mine[s]] = topic[s]
  BY <1>1 DEF ProviderInv, SendersInv
<1>3. /\ \A t \in Provider!Topics \ {topic[s]} : written'[t] = written[t]
      /\ written'[topic[s]] \in {written[topic[s]], written[topic[s]] \cup {s}}
      /\ pc'[s] = "sent" => s \in written'[topic[s]]
  BY <1>2 DEF ProviderInv, Provider!TypeOK
<1>4. Provider!TypeOK' /\ (brokerQueue + pulled <= 2)'
  <2>1. written' \in [Provider!Topics -> SUBSET Senders]
    BY <1>2 DEF ProviderInv, Provider!TypeOK
  <2>2. pc' \in [Senders -> {"idle", "lookup", "store", "storing", "write", "sent", "error"}]
    BY DEF ProviderInv, Provider!TypeOK
  <2> QED BY <1>1, <2>1, <2>2 DEF ProviderInv, Provider!TypeOK
<1>5. SendersInv'
  <2>1. \A t \in Provider!Topics, r \in Senders :
          r \in written'[t] => r \in written[t] \/ (r = s /\ t = topic[s])
    BY <1>2, <1>3
  <2>2. \A r \in Senders \ {s} : pc[r] = "sent" => r \in written'[topic[r]]
    <3>1. \A r \in Senders \ {s} : pc[r] = "sent" =>
            topic[r] \in Provider!Topics /\ r \in written[topic[r]]
      BY DEF ProviderInv, SendersInv
    <3> QED BY <1>2, <1>3, <3>1
  <2> QED BY <1>1, <1>2, <1>3, <2>1, <2>2 DEF ProviderInv, SendersInv
<1>6. MakersInv'
  <2>1. \A r \in Senders : Maker(r)' => Maker(r)
    BY <1>1 DEF Maker
  <2>2. \A w \in made : pc[w] = "storing" => pc'[w] = "storing"
    BY <1>1 DEF ProviderInv, Provider!TypeOK
  <2> QED BY <1>1, <2>1, <2>2 DEF ProviderInv, MakersInv
<1>7. CloseInv'
  <2>1. \A w \in made : pc[w] = "storing" => pc'[w] = "storing"
    BY <1>1 DEF ProviderInv, Provider!TypeOK
  <2> QED BY <1>1, <2>1 DEF ProviderInv, CloseInv
<1> QED BY <1>4, <1>5, <1>6, <1>7 DEF ProviderInv

LEMMA ProviderStep == ProviderInv /\ [Provider!Next]_(Provider!vars) => ProviderInv'
<1> SUFFICES ASSUME ProviderInv, [Provider!Next]_(Provider!vars) PROVE ProviderInv'
  OBVIOUS
<1>1. CASE UNCHANGED Provider!vars
  <2>1. UNCHANGED <<writers, made, closed, written, storing, beside, late, pc, topic, mine,
                    conn, ensured, pinger, life, brokerQueue, pulled, pulling, reader, raced>>
    BY <1>1 DEF Provider!vars, Provider!mainVars, Provider!connVars, Provider!sendVars,
       Provider!readVars
  <2>2. Provider!TypeOK' /\ (brokerQueue + pulled <= 2)'
    BY <2>1 DEF ProviderInv, Provider!TypeOK
  <2> QED BY <2>1, <2>2, AsideStep DEF ProviderInv, SendersInv, CloseInv
<1>2. CASE Provider!Next
  BY <1>2, StartStep, EndStep, BeginSendStep, LookUpStep, StoreStep,
     WriteStep DEF Provider!Next, Provider!Close, Provider!NewMessenger
<1> QED BY <1>1, <1>2

LEMMA ProviderAlways == Provider!Spec => []ProviderInv
BY ProviderInit, ProviderStep, PTL DEF Provider!Spec

\* Whatever writer a sender finds or makes, its message reaches no topic but its
\* own, and one that its sender takes for sent has reached it: for any senders,
\* however they and Close overlap (provider.go:66-77).
THEOREM SendsToTopic == Provider!Spec => []SentToTopic
<1>1. ProviderInv => SentToTopic
  BY DEF SentToTopic, Provider!SentToTopic, ProviderInv, SendersInv
<1> QED BY <1>1, ProviderAlways, PTL

\* For any senders beside each other: a topic gets a second writer only from one
\* that found none before the other's was stored (provider.go:66-70), and Close
\* leaves a writer open only if another took its place in the map or it was
\* stored when Close had come to the writers (provider.go:92).
THEOREM HasOneWriter == Provider!Spec => []OneWriter
<1>1. ProviderInv => OneWriter
  <2> SUFFICES ASSUME ProviderInv PROVE OneWriter
    OBVIOUS
  <2>1. Provider!OneWriter
    BY DEF Provider!OneWriter, ProviderInv, MakersInv, Maker, Provider!TypeOK
  <2>2. Provider!WritersClosed
    <3>1. ASSUME life = "closed", NEW w \in made \ closed
          PROVE  \/ w \in late \/ pc[w] = "storing"
                 \/ \E r \in made \ {w} : topic[r] = topic[w]
      <4>1. w \in Senders /\ (pc[w] = "storing" \/ topic[w] \in Provider!Topics)
        BY DEF ProviderInv, SendersInv, Provider!TypeOK
      <4>2. None \notin Senders
        BY ScenarioAssumption DEF Provider!MessageProviderAssumption
      <4> QED BY <3>1, <4>1, <4>2 DEF ProviderInv, CloseInv
    <3> QED BY <3>1 DEF Provider!WritersClosed, ProviderInv, SendersInv
  <2> QED BY <2>1, <2>2 DEF OneWriter
<1> QED BY <1>1, ProviderAlways, PTL

=============================================================================
