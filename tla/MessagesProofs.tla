--------------------------- MODULE MessagesProofs ---------------------------
(***************************************************************************)
(* Theorems about ControllerMessages, for every set of handlers and of     *)
(* functions, any number of clients, and every choice of faults.           *)
(***************************************************************************)
EXTENDS MCControllerMessages, SequenceTheorems, FiniteSetTheorems, TLAPS

-----------------------------------------------------------------------------
(* How many lines of a pipe belong to a command. *)

LEMMA LinesType ==
  ASSUME NEW q \in Seq(Message), NEW h
  PROVE  Lines(q, h) \in Nat /\ IsFiniteSet({i \in DOMAIN q : q[i].id = h})
<1>1. IsFiniteSet(1 .. Len(q)) /\ DOMAIN q = 1 .. Len(q)
  BY FS_Interval
<1>2. IsFiniteSet({i \in DOMAIN q : q[i].id = h})
  BY <1>1, FS_Subset
<1> QED BY <1>2, FS_CardinalityType DEF Lines

LEMMA LinesEmpty == \A h : Lines(<<>>, h) = 0
BY FS_EmptySet DEF Lines

LEMMA LinesAppend ==
  ASSUME NEW q \in Seq(Message), NEW m \in Message, NEW h
  PROVE  Lines(Append(q, m), h) = Lines(q, h) + (IF m.id = h THEN 1 ELSE 0)
<1> DEFINE r == Append(q, m)
           S == {i \in DOMAIN q : q[i].id = h}
           T == {i \in DOMAIN r : r[i].id = h}
<1>1. /\ Len(r) = Len(q) + 1 /\ r[Len(q) + 1] = m
      /\ \A i \in 1 .. Len(q) : r[i] = q[i]
      /\ DOMAIN r = 1 .. Len(q) + 1 /\ DOMAIN q = 1 .. Len(q)
  BY AppendProperties
<1>2. IsFiniteSet(S) /\ Cardinality(S) \in Nat
  BY LinesType DEF Lines
<1>5. Len(q) + 1 \notin S /\ Len(q) \in Nat
  BY <1>1
<1>6. Lines(q, h) = Cardinality(S) /\ Lines(Append(q, m), h) = Cardinality(T)
  BY DEF Lines
<1>3. CASE m.id = h
  <2>1. T = S \cup {Len(q) + 1}
    BY <1>1, <1>5, <1>3
  <2>2. Cardinality(S \cup {Len(q) + 1}) = Cardinality(S) + 1
    BY <1>2, <1>5, FS_AddElement
  <2> QED BY <1>3, <1>6, <2>1, <2>2
<1>4. CASE m.id # h
  <2>1. T = S
    BY <1>1, <1>5, <1>4
  <2> HIDE DEF S, T
  <2> QED BY <1>2, <1>4, <1>6, <2>1
<1> QED BY <1>3, <1>4

LEMMA LinesTail ==
  ASSUME NEW q \in Seq(Message), q # <<>>, NEW h
  PROVE  Lines(q, h) = Lines(Tail(q), h) + (IF Head(q).id = h THEN 1 ELSE 0)
<1> DEFINE r == Tail(q)
           S == {i \in DOMAIN q : q[i].id = h}
           T == {i \in DOMAIN r : r[i].id = h}
           U == S \ {1}
           next == [i \in T |-> i + 1]
<1>1. /\ r \in Seq(Message) /\ Len(r) = Len(q) - 1 /\ Len(q) \in Nat \ {0}
      /\ \A i \in 1 .. Len(q) - 1 : r[i] = q[i + 1]
      /\ DOMAIN r = 1 .. Len(q) - 1 /\ DOMAIN q = 1 .. Len(q)
      /\ Head(q) = q[1]
  BY HeadTailProperties, EmptySeq
<1>2. next \in Bijection(T, U)
  <2>1. next \in [T -> U]
    BY <1>1
  <2>2. \A i, j \in T : next[i] = next[j] => i = j
    BY <1>1
  <2>3. ASSUME NEW j \in U PROVE \E i \in T : next[i] = j
    <3>1. j - 1 \in T /\ next[j - 1] = j
      BY <1>1
    <3> QED BY <3>1
  <2> HIDE DEF T, U, next
  <2> QED BY <2>1, <2>2, <2>3 DEF Bijection, Injection, Surjection, IsInjective
<1>3. IsFiniteSet(S) /\ IsFiniteSet(T)
  BY <1>1, LinesType
<1>8. Lines(q, h) = Cardinality(S) /\ Lines(Tail(q), h) = Cardinality(T)
  BY DEF Lines
<1>4. Cardinality(U) = Cardinality(T)
  BY <1>2, <1>3, FS_Bijection DEF ExistsBijection
<1>5. Cardinality(S) \in Nat /\ Cardinality(T) \in Nat
  BY <1>3, FS_CardinalityType
<1>6. CASE Head(q).id = h
  <2>1. 1 \in S
    BY <1>1, <1>6
  <2>2. Cardinality(U) = Cardinality(S) - 1
    BY <1>3, <2>1, FS_RemoveElement
  <2> HIDE DEF S, T, U
  <2> QED BY <1>4, <1>5, <1>6, <1>8, <2>2
<1>7. CASE Head(q).id # h
  <2>1. U = S
    BY <1>1, <1>7
  <2> HIDE DEF S, T, U
  <2> QED BY <1>4, <1>5, <1>7, <1>8, <2>1
<1> QED BY <1>6, <1>7

\* An answer is one more reply at most.
LEMMA AnswersType ==
  ASSUME MessagesAssumption, NEW h
  PROVE  Answers(h) \in Nat
<1>1. IsFiniteSet({g \in Handlers : reply[g] # None /\ reply[g].id = h})
  BY FS_Subset DEF MessagesAssumption
<1> QED BY <1>1, FS_CardinalityType DEF Answers

LEMMA AnswersAdd ==
  ASSUME MessagesAssumption, NEW h, NEW g \in Handlers, NEW m,
         reply \in [Handlers -> Message \cup {None}],
         reply' = [reply EXCEPT ![g] = m]
  PROVE  Answers(h)' \in Nat /\ Answers(h)' <= Answers(h) + One(m, h)
<1> DEFINE S == {x \in Handlers : reply[x] # None /\ reply[x].id = h}
           T == {x \in Handlers : reply'[x] # None /\ reply'[x].id = h}
<1>1. IsFiniteSet(S) /\ IsFiniteSet(T) /\ IsFiniteSet(S \cup {g})
  BY FS_Subset, FS_AddElement DEF MessagesAssumption
<1>2. /\ Cardinality(S) \in Nat /\ Cardinality(T) \in Nat
      /\ Cardinality(S \cup {g}) <= Cardinality(S) + 1
  BY <1>1, FS_CardinalityType, FS_AddElement
<1>3. CASE One(m, h) = 1
  <2>1. T \subseteq S \cup {g}
    OBVIOUS
  <2>2. Cardinality(T) <= Cardinality(S \cup {g})
    BY <1>1, <2>1, FS_Subset
  <2>3. Cardinality(S \cup {g}) \in Nat
    BY <1>1, FS_CardinalityType
  <2> QED BY <1>2, <1>3, <2>2, <2>3 DEF Answers
<1>4. CASE One(m, h) = 0
  <2>1. T \subseteq S
    BY <1>4 DEF One
  <2>2. Cardinality(T) <= Cardinality(S)
    BY <1>1, <2>1, FS_Subset
  <2> QED BY <1>2, <1>4, <2>2 DEF Answers
<1> QED BY <1>3, <1>4 DEF One

-----------------------------------------------------------------------------
(* Type correctness: the program has a request while it is busy. *)

MessagesInv == TypeOK /\ (program = "busy" => job # None)

LEMMA TypeInit == Init => MessagesInv
BY DEF Init, MessagesInv, TypeOK, Commands

LEMMA MessageType ==
  ASSUME NEW t \in Types, NEW i \in Handlers \cup {None},
         NEW f \in Functions \cup {None}, NEW b \in BOOLEAN
  PROVE  Msg(t, i, f, b) \in Message /\ Msg(t, i, f, b).id = i
BY DEF Msg, Message

\* A handler writes its own line, or none.
LEMMA WrittenLine ==
  ASSUME TypeOK, NEW h \in Handlers, Write(h)
  PROVE  stdin' = stdin \/ \E m \in Message : m.id = h /\ stdin' = Append(stdin, m)
<1> DEFINE m == [type |-> cmd[h], id |-> h, fn |-> fn[h], ok |-> TRUE]
<1>1. m \in Message /\ m.id = h
  BY DEF Write, TypeOK, Message, Types
<1>2. stdin' = stdin \/ stdin' = Append(stdin, m)
  BY DEF Write, SendMessage, Msg
<1> HIDE DEF m
<1> QED BY <1>1, <1>2

LEMMA HeadType ==
  ASSUME NEW q \in Seq(Message), q # <<>>
  PROVE  Head(q) \in Message /\ Tail(q) \in Seq(Message)
           /\ Head(q).id \in Handlers \cup {None} /\ Head(q).fn \in Functions \cup {None}
<1>1. Head(q) \in Message /\ Tail(q) \in Seq(Message)
  BY HeadTailProperties, EmptySeq
<1> QED BY <1>1 DEF Message

LEMMA EmitType ==
  ASSUME NEW m \in Message, stdout \in Seq(Message), Emit(m)
  PROVE  stdout' \in Seq(Message)
BY AppendProperties DEF Emit

\* An answer is a line of the handler it is for, whether Go can read it or not.
LEMMA AnswerLine ==
  ASSUME NEW t \in Types, NEW i \in Handlers \cup {None}, NEW f \in Functions \cup {None},
         EmitAnswer(t, i, f)
  PROVE  \E m \in Message : m.id = i /\ Emit(m)
<1>1. Msg(t, i, f, TRUE) \in Message /\ Msg(t, i, f, TRUE).id = i
  BY MessageType
<1>2. Msg("garbled", i, f, TRUE) \in Message /\ Msg("garbled", i, f, TRUE).id = i
  BY MessageType DEF Types
<1> QED BY <1>1, <1>2 DEF EmitAnswer

LEMMA AnswerType ==
  ASSUME NEW t \in Types, NEW i \in Handlers \cup {None}, NEW f \in Functions \cup {None},
         stdout \in Seq(Message), EmitAnswer(t, i, f)
  PROVE  stdout' \in Seq(Message)
BY AnswerLine, EmitType

LEMMA TypeNext ==
  ASSUME MessagesAssumption, MessagesInv, [Next]_vars
  PROVE  MessagesInv'
<1> USE DEF MessagesInv, progVars, pipeVars, readVars, callVars
<1>1. CASE Started
  <2>1. stdout' \in Seq(Message)
    BY <1>1, MessageType, EmitType DEF Started, TypeOK, Types
  <2> QED BY <1>1, <2>1 DEF Started, TypeOK
<1>2. CASE ReadAhead
  BY <1>2 DEF ReadAhead, TypeOK
<1>3. CASE LoadFunction
  <2>1. ahead' \in Seq(Message) /\ loaded' \in Functions \cup {None} /\ job' = job
    BY <1>3, HeadType DEF LoadFunction, TypeOK
  <2>2. stdout' \in Seq(Message)
    <3>1. Head(ahead).id \in Handlers \cup {None} /\ Head(ahead).fn \in Functions \cup {None}
      BY <1>3, HeadType DEF LoadFunction, TypeOK
    <3>2. /\ Msg("function_loaded", Head(ahead).id, Head(ahead).fn, FALSE) \in Message
          /\ EmitAnswer("function_loaded", Head(ahead).id, Head(ahead).fn) => stdout' \in Seq(Message)
      BY <3>1, MessageType, AnswerType DEF TypeOK, Types
    <3> QED BY <1>3, <3>2, EmitType DEF LoadFunction, TypeOK
  <2>3. program' \in {"load", "serve"}
    BY <1>3 DEF LoadFunction
  <2>4. UNCHANGED <<stdin, streams, readVars, callVars>>
    BY <1>3 DEF LoadFunction
  <2> QED BY <2>1, <2>2, <2>3, <2>4 DEF TypeOK
<1>4. CASE ReceiveRequest
  <2>1. Head(ahead) \in Message /\ ahead' \in Seq(Message)
    BY <1>4, HeadType DEF ReceiveRequest, TypeOK
  <2>2. /\ program' \in {"serve", "busy"} /\ job' \in {job, Head(ahead)}
        /\ program' = "busy" => job' = Head(ahead)
    BY <1>4 DEF ReceiveRequest
  <2> QED BY <1>4, <2>1, <2>2 DEF ReceiveRequest, TypeOK, MessagesAssumption
<1>5. CASE Compute
  <2>1. job \in Message /\ job.id \in Handlers \cup {None}
    BY <1>5 DEF Compute, TypeOK, Message
  <2>2. stdout' \in Seq(Message)
    <3>1. /\ EmitAnswer("response", job.id, loaded) => stdout' \in Seq(Message)
          /\ Msg("log", None, None, TRUE) \in Message
      BY <2>1, MessageType, AnswerType DEF TypeOK, Types
    <3> QED BY <1>5, <3>1, EmitType DEF Compute, TypeOK
  <2>3. /\ program' \in {"serve", "dead", "busy"} /\ job' \in {None, job}
        /\ program' = "busy" => job' = job
    BY <1>5 DEF Compute
  <2> QED BY <1>5, <2>1, <2>2, <2>3 DEF Compute, TypeOK, MessagesAssumption
<1>6. CASE ReadLine
  BY <1>6, HeadType DEF ReadLine, TypeOK
<1>7. CASE Deliver
  BY <1>7 DEF Deliver, TypeOK
<1>8. CASE AttachStreams
  BY <1>8 DEF AttachStreams, TypeOK
<1>9. ASSUME NEW h \in Handlers, Begin(h) PROVE MessagesInv'
  <2>1. PICK c \in Commands :
          /\ cmd' = [cmd EXCEPT ![h] = c]
          /\ \/ c = "function" /\ \E f \in Functions : fn' = [fn EXCEPT ![h] = f]
             \/ c = "request" /\ fn' = [fn EXCEPT ![h] = believed] /\ Legal(c)
             \/ fn' = fn
          /\ pc' = [pc EXCEPT ![h] = IF c = "activate" THEN "await" ELSE "write"]
    BY <1>9 DEF Begin, Goto
  <2>2. c = "request" /\ Legal(c) => believed \in Functions
    BY DEF Legal
  <2>3. fn' \in [Handlers -> Functions \cup {None}]
    BY <2>1, <2>2 DEF TypeOK
  <2>4. cmd' \in [Handlers -> Commands \cup {None}]
    BY <2>1 DEF TypeOK
  <2> QED BY <1>9, <2>1, <2>3, <2>4 DEF Begin, TypeOK
<1>10. ASSUME NEW h \in Handlers, Write(h) PROVE MessagesInv'
  <2>1. stdin' \in Seq(Message)
    <3>1. stdin' = stdin \/ \E m \in Message : stdin' = Append(stdin, m)
      BY <1>10, WrittenLine
    <3>2. ASSUME NEW m \in Message, stdin' = Append(stdin, m) PROVE stdin' \in Seq(Message)
      BY <3>2, AppendProperties DEF TypeOK
    <3> QED BY <3>1, <3>2 DEF TypeOK
  <2>2. /\ reply' \in [Handlers -> Message \cup {None}] /\ waiting' \subseteq Handlers
        /\ believed' \in Functions \cup {None, "new", "unknown"}
    BY <1>10 DEF Write, Answered, TypeOK
  <2> QED BY <1>10, <2>1, <2>2 DEF Write, Goto, TypeOK
<1>11. ASSUME NEW h \in Handlers, AwaitDrops(h) PROVE MessagesInv'
  BY <1>11 DEF AwaitDrops, TypeOK
<1>12. ASSUME NEW h \in Handlers, AwaitReturns(h) PROVE MessagesInv'
  BY <1>12 DEF AwaitReturns, Answered, Goto, TypeOK
<1>13. ASSUME NEW h \in Handlers, Restore(h) PROVE MessagesInv'
  <2>1. /\ program' \in {"load", program} /\ loaded' \in {None, loaded}
        /\ job' \in {None, job} /\ ahead' \in {<<>>, ahead}
        /\ program' = "busy" => UNCHANGED progVars
    BY <1>13 DEF Restore
  <2>2. /\ reply' = [reply EXCEPT ![h] = None] /\ waiting' = waiting \ {h}
        /\ believed' \in {None, "unknown", believed}
        /\ \E p \in {"done", "error"} : pc' = [pc EXCEPT ![h] = p]
        /\ UNCHANGED <<pipeVars, readVars, cmd, fn>>
    BY <1>13 DEF Restore, Answered, Goto
  <2>3. /\ pc' \in [Handlers -> {"new", "write", "await", "done", "error"}]
        /\ reply' \in [Handlers -> Message \cup {None}]
    BY <2>2 DEF TypeOK
  <2>4. ahead' \in Seq(Message)
    <3>1. <<>> \in Seq(Message)
      OBVIOUS
    <3> QED BY <2>1, <3>1 DEF TypeOK
  <2> QED BY <2>1, <2>2, <2>3, <2>4 DEF TypeOK
<1>14. ASSUME NEW h \in Handlers, Timeout(h) PROVE MessagesInv'
  BY <1>14 DEF Timeout, TypeOK
<1>15. CASE UNCHANGED vars
  BY <1>15 DEF vars, TypeOK
<1> QED BY <1>1, <1>2, <1>3, <1>4, <1>5, <1>6, <1>7, <1>8, <1>9, <1>10, <1>11,
       <1>12,
           <1>13, <1>14, <1>15 DEF Next, Program, Reader, Handler

\* Every variable has its type.
THEOREM TypeCorrect == ASSUME MessagesAssumption PROVE Spec => []TypeOK
<1>1. Init => MessagesInv
  BY TypeInit
<1>2. MessagesInv /\ [Next]_vars => MessagesInv'
  BY TypeNext
<1>3. MessagesInv => TypeOK
  BY DEF MessagesInv
<1> QED BY <1>1, <1>2, <1>3, PTL DEF Spec

-----------------------------------------------------------------------------
(* A command runs once. *)

LEMMA PlacesType ==
  ASSUME MessagesAssumption, TypeOK, NEW h
  PROVE  /\ Lines(stdin, h) \in Nat /\ Lines(ahead, h) \in Nat /\ Lines(stdout, h) \in Nat
         /\ One(job, h) \in {0, 1} /\ One(hand, h) \in {0, 1} /\ One(chan, h) \in {0, 1}
         /\ Answers(h) \in Nat
BY LinesType, AnswersType DEF TypeOK, One

PlacesAreNat == \A h \in Handlers : Places(h) \in Nat

LEMMA PlacesNat == ASSUME MessagesAssumption PROVE TypeOK => PlacesAreNat
BY PlacesType DEF Places, PlacesAreNat

LEMMA AnswersSame == ASSUME NEW h, reply' = reply PROVE Answers(h)' = Answers(h)
BY DEF Answers

\* What the program prints is one line more at most.
LEMMA EmitAdds ==
  ASSUME NEW m \in Message, NEW h, stdout \in Seq(Message), Emit(m)
  PROVE  Lines(stdout', h) \in Nat /\ Lines(stdout', h) <= Lines(stdout, h) + (IF m.id = h THEN 1 ELSE 0)
<1>1. Lines(stdout, h) \in Nat
  BY LinesType
<1> QED BY <1>1, LinesAppend DEF Emit

\* The lines of a command are never more than they were, but for the step
\* that writes it.
LEMMA PlacesShrink ==
  ASSUME MessagesAssumption, MessagesInv, [Next]_vars, NEW h \in Handlers,
         ~Write(h)
  PROVE  Places(h)' <= Places(h)
<1> USE DEF MessagesInv, progVars, pipeVars, readVars, callVars
<1> /\ Lines(stdin, h) \in Nat /\ Lines(ahead, h) \in Nat /\ Lines(stdout, h) \in Nat
    /\ One(job, h) \in {0, 1} /\ One(hand, h) \in {0, 1} /\ One(chan, h) \in {0, 1}
    /\ Answers(h) \in Nat
  BY PlacesType
<1>1. CASE Started
  <2>1. PICK m \in Message : m.id = None /\ Emit(m)
    BY <1>1 DEF Started, Msg, Message, Types
  <2>2. Lines(stdout', h) \in Nat /\ Lines(stdout', h) <= Lines(stdout, h)
    BY <2>1, EmitAdds DEF TypeOK, MessagesAssumption
  <2> QED BY <1>1, <2>2, AnswersSame DEF Started, Places
<1>2. CASE ReadAhead
  BY <1>2, AnswersSame DEF ReadAhead, Places
<1>3. CASE LoadFunction
  <2>1. ahead # <<>> /\ ahead \in Seq(Message) /\ ahead' = Tail(ahead)
        /\ UNCHANGED <<job, stdin, readVars, callVars>>
    BY <1>3 DEF LoadFunction, TypeOK
  <2>2. Lines(ahead, h) = Lines(ahead', h) + (IF Head(ahead).id = h THEN 1 ELSE 0)
        /\ Lines(ahead', h) \in Nat
    BY <2>1, LinesTail, LinesType, HeadType
  <2>3. Lines(stdout', h) \in Nat
        /\ Lines(stdout', h) <= Lines(stdout, h) + (IF Head(ahead).id = h THEN 1 ELSE 0)
    <3>1. Head(ahead).id \in Handlers \cup {None} /\ Head(ahead).fn \in Functions \cup {None}
      BY <2>1, HeadType
    <3>2. \/ stdout' = stdout
          \/ \E m \in Message : m.id = Head(ahead).id /\ Emit(m)
      <4>1. "function_loaded" \in Types
        BY DEF Types
      <4>2. /\ Msg("function_loaded", Head(ahead).id, Head(ahead).fn, FALSE) \in Message
            /\ Msg("function_loaded", Head(ahead).id, Head(ahead).fn, FALSE).id = Head(ahead).id
        BY <3>1, <4>1, MessageType
      <4>3. EmitAnswer("function_loaded", Head(ahead).id, Head(ahead).fn) =>
              \E m \in Message : m.id = Head(ahead).id /\ Emit(m)
        BY <3>1, <4>1, AnswerLine
      <4> QED BY <1>3, <4>2, <4>3 DEF LoadFunction
    <3>3. ASSUME NEW m \in Message, m.id = Head(ahead).id, Emit(m)
          PROVE  /\ Lines(stdout', h) \in Nat
                 /\ Lines(stdout', h) <= Lines(stdout, h) + (IF Head(ahead).id = h THEN 1 ELSE 0)
      BY <3>3, EmitAdds DEF TypeOK
    <3> QED BY <3>2, <3>3
  <2>4. Answers(h)' = Answers(h)
    BY <2>1, AnswersSame
  <2>5. /\ One(job', h) = One(job, h) /\ One(hand', h) = One(hand, h)
        /\ One(chan', h) = One(chan, h) /\ Lines(stdin', h) = Lines(stdin, h)
    BY <2>1
  <2> QED BY <2>2, <2>3, <2>4, <2>5 DEF Places
<1>4. CASE ReceiveRequest
  <2>1. /\ ahead # <<>> /\ ahead \in Seq(Message) /\ ahead' = Tail(ahead)
        /\ UNCHANGED <<stdin, stdout, readVars, callVars>>
        /\ job' = job \/ job' = Head(ahead)
    BY <1>4 DEF ReceiveRequest, TypeOK
  <2>2. Lines(ahead, h) = Lines(ahead', h) + (IF Head(ahead).id = h THEN 1 ELSE 0)
        /\ Lines(ahead', h) \in Nat
    BY <2>1, LinesTail, LinesType, HeadType
  <2>3. One(job', h) \in {0, 1} /\ One(job', h) <= One(job, h) + (IF Head(ahead).id = h THEN 1 ELSE 0)
    BY <2>1 DEF One
  <2>4. Answers(h)' = Answers(h)
    BY <2>1, AnswersSame
  <2>5. /\ One(hand', h) = One(hand, h) /\ One(chan', h) = One(chan, h)
        /\ Lines(stdin', h) = Lines(stdin, h) /\ Lines(stdout', h) = Lines(stdout, h)
    BY <2>1
  <2> QED BY <2>2, <2>3, <2>4, <2>5 DEF Places
<1>5. CASE Compute
  <2>1. job \in Message /\ job.id \in Handlers \cup {None}
    BY <1>5 DEF Compute, TypeOK, Message
  <2>2. UNCHANGED <<ahead, stdin, readVars, callVars>>
    BY <1>5 DEF Compute
  <2>3. \/ /\ job' = None
           /\ \E m \in Message : m.id = job.id /\ Emit(m)
        \/ job' = None /\ stdout' = stdout
        \/ job' = job /\ \E m \in Message : m.id = None /\ Emit(m)
    <3>1. EmitAnswer("response", job.id, loaded) => \E m \in Message : m.id = job.id /\ Emit(m)
      BY <2>1, AnswerLine DEF TypeOK, Types
    <3>2. Emit(Msg("log", None, None, TRUE)) => \E m \in Message : m.id = None /\ Emit(m)
      BY MessageType DEF Types
    <3> QED BY <1>5, <3>1, <3>2 DEF Compute
  <2>4. ASSUME NEW m \in Message, m.id = job.id, Emit(m), job' = None
        PROVE  Places(h)' <= Places(h)
    <3>1. One(job', h) = 0 /\ One(job, h) = IF job.id = h THEN 1 ELSE 0
      BY <1>5, <2>4 DEF One, Compute
    <3>2. Lines(stdout', h) \in Nat
          /\ Lines(stdout', h) <= Lines(stdout, h) + (IF job.id = h THEN 1 ELSE 0)
      BY <2>4, EmitAdds DEF TypeOK
    <3> QED BY <2>2, <3>1, <3>2, AnswersSame DEF Places
  <2>5. CASE job' = None /\ stdout' = stdout
    <3>1. One(job', h) = 0
      BY <2>5 DEF One
    <3> QED BY <2>2, <2>5, <3>1, AnswersSame DEF Places
  <2>6. ASSUME NEW m \in Message, m.id = None, Emit(m), job' = job
        PROVE  Places(h)' <= Places(h)
    <3>1. Lines(stdout', h) \in Nat /\ Lines(stdout', h) <= Lines(stdout, h)
      BY <2>6, EmitAdds DEF TypeOK, MessagesAssumption
    <3> QED BY <2>2, <2>6, <3>1, AnswersSame DEF Places
  <2> QED BY <2>3, <2>4, <2>5, <2>6
<1>6. CASE ReadLine
  <2>1. /\ stdout # <<>> /\ stdout \in Seq(Message) /\ stdout' = Tail(stdout)
        /\ UNCHANGED <<progVars, stdin, chan, callVars>>
        /\ hand' = None \/ hand' = Head(stdout)
    BY <1>6 DEF ReadLine, TypeOK
  <2>2. Lines(stdout, h) = Lines(stdout', h) + (IF Head(stdout).id = h THEN 1 ELSE 0)
        /\ Lines(stdout', h) \in Nat
    BY <2>1, LinesTail, LinesType, HeadType
  <2>3. One(hand', h) \in {0, 1} /\ One(hand', h) <= IF Head(stdout).id = h THEN 1 ELSE 0
    BY <2>1 DEF One
  <2>4. UNCHANGED <<ahead, job, stdin, chan>> /\ Answers(h)' = Answers(h)
    BY <2>1, AnswersSame DEF progVars, callVars
  <2> QED BY SMTT(60), <2>2, <2>3, <2>4 DEF Places
<1>7. CASE Deliver
  BY <1>7, AnswersSame DEF Deliver, Places, One
<1>8. CASE AttachStreams
  BY <1>8, AnswersSame DEF AttachStreams, Places
<1>9. ASSUME NEW g \in Handlers, Begin(g) PROVE Places(h)' <= Places(h)
  BY <1>9, AnswersSame DEF Begin, Places
<1>10. ASSUME NEW g \in Handlers \ {h}, Write(g) PROVE Places(h)' <= Places(h)
  <2>1. Lines(stdin', h) = Lines(stdin, h)
    <3>1. stdin' = stdin \/ \E m \in Message : m.id = g /\ stdin' = Append(stdin, m)
      BY <1>10, WrittenLine
    <3>2. ASSUME NEW m \in Message, m.id = g, stdin' = Append(stdin, m)
          PROVE  Lines(stdin', h) = Lines(stdin, h)
      BY <3>2, LinesAppend DEF TypeOK
    <3> QED BY <3>1, <3>2
  <2>2. Answers(h)' \in Nat /\ Answers(h)' <= Answers(h)
    <3>1. reply' = reply \/ reply' = [reply EXCEPT ![g] = None]
      BY <1>10 DEF Write, Answered
    <3> QED BY <3>1, AnswersSame, AnswersAdd DEF TypeOK, One
  <2> QED BY <1>10, <2>1, <2>2 DEF Write, Places
<1>11. ASSUME NEW g \in Handlers, AwaitDrops(g) PROVE Places(h)' <= Places(h)
  <2>1. One(chan', h) = 0 /\ UNCHANGED <<progVars, pipeVars, hand, callVars>>
    BY <1>11 DEF AwaitDrops, One
  <2> QED BY <2>1, AnswersSame DEF Places
<1>12. ASSUME NEW g \in Handlers, AwaitReturns(g) PROVE Places(h)' <= Places(h)
  <2>1. /\ One(chan', h) = 0 /\ UNCHANGED <<progVars, pipeVars, hand>>
        /\ reply' = [reply EXCEPT ![g] = chan]
    BY <1>12 DEF AwaitReturns, Answered, One
  <2>2. Answers(h)' \in Nat /\ Answers(h)' <= Answers(h) + One(chan, h)
    BY <2>1, AnswersAdd DEF TypeOK
  <2> QED BY <2>1, <2>2 DEF Places
<1>13. ASSUME NEW g \in Handlers, Restore(g) PROVE Places(h)' <= Places(h)
  <2>1. Lines(ahead', h) \in Nat /\ Lines(ahead', h) <= Lines(ahead, h)
    BY <1>13, LinesEmpty DEF Restore
  <2>2. One(job', h) \in {0, 1} /\ One(job', h) <= One(job, h)
    BY <1>13 DEF Restore, One
  <2>3. Answers(h)' \in Nat /\ Answers(h)' <= Answers(h)
    <3>1. reply' = [reply EXCEPT ![g] = None] /\ One(None, h) = 0
      BY <1>13 DEF Restore, Answered, One
    <3>2. Answers(h)' \in Nat /\ Answers(h)' <= Answers(h) + One(None, h)
      BY <3>1, AnswersAdd DEF TypeOK
    <3> QED BY <3>1, <3>2
  <2>4. UNCHANGED <<stdin, stdout, hand, chan>>
    BY <1>13 DEF Restore, pipeVars, readVars
  <2> QED BY SMTT(60), <2>1, <2>2, <2>3, <2>4 DEF Places
<1>14. ASSUME NEW g \in Handlers, Timeout(g) PROVE Places(h)' <= Places(h)
  BY <1>14, AnswersSame DEF Timeout, Places
<1>15. CASE UNCHANGED vars
  BY <1>15, AnswersSame DEF vars, Places
<1> QED BY <1>1, <1>2, <1>3, <1>4, <1>5, <1>6, <1>7, <1>8, <1>9, <1>10, <1>11,
       <1>12,
           <1>13, <1>14, <1>15 DEF Next, Program, Reader, Handler

\* The step that writes a command makes one line of it.
LEMMA WriteOnce ==
  ASSUME MessagesAssumption, TypeOK, NEW h \in Handlers, Write(h), Places(h) = 0
  PROVE  Places(h)' <= 1 /\ pc'[h] \notin {"new", "write"}
<1> /\ Lines(stdin, h) \in Nat /\ Lines(ahead, h) \in Nat /\ Lines(stdout, h) \in Nat
    /\ One(job, h) \in {0, 1} /\ One(hand, h) \in {0, 1} /\ One(chan, h) \in {0, 1}
    /\ Answers(h) \in Nat
  BY PlacesType
<1>1. Lines(stdin', h) \in Nat /\ Lines(stdin', h) <= Lines(stdin, h) + 1
  <2>1. stdin' = stdin \/ \E m \in Message : m.id = h /\ stdin' = Append(stdin, m)
    BY WrittenLine
  <2>2. ASSUME NEW m \in Message, stdin' = Append(stdin, m)
        PROVE  Lines(stdin', h) \in Nat /\ Lines(stdin', h) <= Lines(stdin, h) + 1
    BY <2>2, LinesAppend DEF TypeOK
  <2> QED BY <2>1, <2>2
<1>2. Answers(h)' \in Nat /\ Answers(h)' <= Answers(h)
  <2>1. reply' = reply \/ reply' = [reply EXCEPT ![h] = None]
    BY DEF Write, Answered
  <2> QED BY <2>1, AnswersSame, AnswersAdd DEF TypeOK, One
<1>3. UNCHANGED <<progVars, stdout, streams, readVars>>
  BY DEF Write
<1>4. pc'[h] \in {"await", "error"}
  BY DEF Write, Goto, TypeOK
<1> QED BY <1>1, <1>2, <1>3, <1>4 DEF Places, progVars, readVars

LEMMA BeforeWrite ==
  ASSUME TypeOK, [Next]_vars, NEW h \in Handlers, pc'[h] \in {"new", "write"}
  PROVE  pc[h] \in {"new", "write"}
<1>1. CASE Program \/ Reader \/ AttachStreams \/ UNCHANGED vars
  BY <1>1 DEF Program, Reader, Started, ReadAhead, LoadFunction, ReceiveRequest, Compute,
              ReadLine, Deliver, AttachStreams, vars, callVars
<1>2. ASSUME NEW g \in Handlers, Begin(g) \/ Handler(g) \/ Timeout(g)
      PROVE  pc[h] \in {"new", "write"}
  BY <1>2 DEF Begin, Handler, Write, AwaitDrops, AwaitReturns, Restore, Timeout, Goto, TypeOK,
              callVars
<1> QED BY <1>1, <1>2 DEF Next

\* A command runs at most once and its answer goes to one handler at most,
\* however clients give up, handlers live on, and Restores come between
\* (controller.go:256).
THEOREM Once == ASSUME MessagesAssumption PROVE Spec => []RunsOnce
<1>1. Init => MessagesInv /\ RunsOnce
  <2> SUFFICES ASSUME Init PROVE RunsOnce
    BY TypeInit
  <2>1. ASSUME NEW h PROVE Places(h) = 0
    <3>1. {g \in Handlers : reply[g] # None /\ reply[g].id = h} = {}
      BY DEF Init
    <3>2. Answers(h) = 0
      BY <3>1, FS_EmptySet DEF Answers
    <3> QED BY <3>2, LinesEmpty DEF Init, Places, One
  <2> QED BY <2>1 DEF RunsOnce
<1>2. MessagesInv /\ RunsOnce /\ [Next]_vars => MessagesInv' /\ RunsOnce'
  <2> SUFFICES ASSUME MessagesInv, RunsOnce, [Next]_vars, NEW h \in Handlers
               PROVE  /\ Places(h)' <= 1
                      /\ pc'[h] \in {"new", "write"} => Places(h)' = 0
    BY TypeNext DEF RunsOnce
  <2>1. Places(h) \in Nat /\ Places(h)' \in Nat
    <3>1. TypeOK /\ TypeOK'
      BY TypeNext DEF MessagesInv
    <3>2. PlacesAreNat /\ PlacesAreNat'
      BY <3>1, PlacesNat, PTL
    <3> QED BY <3>2 DEF PlacesAreNat
  <2>2. CASE Write(h)
    BY <2>2, WriteOnce DEF RunsOnce, Write, MessagesInv
  <2>3. CASE ~Write(h)
    BY <2>1, <2>3, PlacesShrink, BeforeWrite DEF RunsOnce, MessagesInv
  <2> QED BY <2>2, <2>3
<1> QED BY <1>1, <1>2, PTL DEF Spec

-----------------------------------------------------------------------------
(* A client that sends one command after the other and waits for each      *)
(* answer, whatever fails to load, raises, prints or garbles its answer.   *)
(*                                                                         *)
(* The argument: there is one command at a time, and it is in one place,   *)
(* as the line it wrote or as the answer; everything else is empty but for *)
(* what functions print, which the reader skips.  An answer Go cannot read *)
(* is skipped as well, and then nothing comes: the command stays.          *)

Serial == Clients = 1 /\ Faults \cap {"timeout", "late"} = {}

OnlyLogs(q) == \A i \in DOMAIN q : q[i].type = "log"

\* One line, and logs.
Holds(q, m) ==
  \E i \in DOMAIN q : q[i] = m /\ \A k \in DOMAIN q \ {i} : q[k].type = "log"

\* Nothing comes from the program but logs; or the message m does, and no other.
Silent == OnlyLogs(stdout) /\ hand = None /\ chan = None

Coming(m) ==
  \/ Holds(stdout, m) /\ hand = None /\ chan = None
  \/ OnlyLogs(stdout) /\ hand = m /\ chan = None
  \/ OnlyLogs(stdout) /\ hand = None /\ chan = m

NoLine == stdin = <<>> /\ ahead = <<>> /\ job = None

\* The loop the program is in when f is loaded.
Serves(f) == program = (IF f = None THEN "load" ELSE "serve") /\ loaded = f

StartedMessage == [type |-> "started", id |-> None, fn |-> None, ok |-> TRUE]
Line(h) == [type |-> cmd[h], id |-> h, fn |-> fn[h], ok |-> TRUE]
Answer(h, ok) == [type |-> Awaited(cmd[h]), id |-> h, fn |-> fn[h], ok |-> ok]
Garbled(h) == [type |-> "garbled", id |-> h, fn |-> fn[h], ok |-> TRUE]

Booting ==
  /\ NoLine /\ loaded = None
  /\ \/ program = "starting" /\ Silent
     \/ program = "load" /\ Coming(StartedMessage)

Idle == NoLine /\ Silent /\ believed \in Functions \cup {None} /\ Serves(believed)

\* What the client takes for loaded while its command is on the way.
Asks(h) ==
  fn[h] \in Functions /\ believed = (IF cmd[h] = "request" THEN fn[h] ELSE None)

Requested(h) ==
  /\ Silent
  /\ \/ stdin = <<Line(h)>> /\ ahead = <<>> /\ job = None /\ Serves(believed)
     \/ stdin = <<>> /\ ahead = <<Line(h)>> /\ job = None /\ Serves(believed)
     \/ /\ stdin = <<>> /\ ahead = <<>> /\ job = Line(h) /\ cmd[h] = "request"
        /\ program = "busy" /\ loaded = fn[h]

Replied(h) ==
  /\ NoLine
  /\ \E ok \in BOOLEAN :
       /\ Coming(Answer(h, ok))
       /\ Serves(IF ok THEN fn[h] ELSE None)
       /\ cmd[h] = "request" => ok

\* The answer is a line that Go cannot read, or was.
Unread(h) ==
  /\ NoLine /\ hand = None /\ chan = None
  /\ OnlyLogs(stdout) \/ Holds(stdout, Garbled(h))
  /\ Serves(fn[h])

Progress(h) ==
  /\ cmd[h] \in Commands
  /\ cmd[h] = "activate" => pc[h] = "await" /\ Booting
  /\ cmd[h] = "restore" => pc[h] = "write" /\ Idle
  /\ cmd[h] \in {"function", "request"} =>
       /\ Asks(h)
       /\ pc[h] = "write" => Idle
       /\ pc[h] = "await" => Requested(h) \/ Replied(h) \/ Unread(h)

SerialInv ==
  /\ streams
  /\ \A g, h \in waiting : g = h
  /\ \A h \in Handlers : h \in waiting <=> pc[h] \in {"write", "await"}
  /\ program = "dead" => Silent
  /\ program # "dead" => \A h \in waiting : Progress(h)
  /\ program # "dead" /\ waiting = {} => IF believed = "new" THEN Booting ELSE Idle

-----------------------------------------------------------------------------
(* Lines in a pipe. *)

LEMMA OneLine ==
  ASSUME NEW m
  PROVE  <<m>> # <<>> /\ Head(<<m>>) = m /\ Tail(<<m>>) = <<>> /\ Append(<<>>, m) = <<m>>
OBVIOUS

LEMMA LogAppended ==
  ASSUME NEW q \in Seq(Message), NEW m \in Message, OnlyLogs(q), m.type = "log"
  PROVE  OnlyLogs(Append(q, m))
BY AppendProperties DEF OnlyLogs

LEMMA MessageAppended ==
  ASSUME NEW q \in Seq(Message), NEW m \in Message, OnlyLogs(q)
  PROVE  Holds(Append(q, m), m)
<1> DEFINE r == Append(q, m)
<1>1. /\ Len(q) \in Nat /\ r[Len(q) + 1] = m
      /\ \A i \in 1 .. Len(q) : r[i] = q[i]
      /\ DOMAIN r = 1 .. Len(q) + 1 /\ DOMAIN q = 1 .. Len(q)
  BY AppendProperties
<1>2. Len(q) + 1 \in DOMAIN r
  BY <1>1
<1>3. ASSUME NEW k \in DOMAIN r \ {Len(q) + 1} PROVE r[k].type = "log"
  BY <1>1 DEF OnlyLogs
<1> QED BY <1>1, <1>2, <1>3 DEF Holds

LEMMA TailProperties ==
  ASSUME NEW q \in Seq(Message), q # <<>>
  PROVE  /\ DOMAIN q = 1 .. Len(q) /\ Len(q) \in Nat \ {0} /\ Head(q) = q[1]
         /\ DOMAIN Tail(q) = 1 .. Len(q) - 1
         /\ \A i \in 1 .. Len(q) - 1 : Tail(q)[i] = q[i + 1]
BY HeadTailProperties, EmptySeq

LEMMA LogsRead ==
  ASSUME NEW q \in Seq(Message), q # <<>>, OnlyLogs(q)
  PROVE  Head(q).type = "log" /\ OnlyLogs(Tail(q))
BY TailProperties DEF OnlyLogs

LEMMA MessageRead ==
  ASSUME NEW q \in Seq(Message), q # <<>>, NEW m, Holds(q, m)
  PROVE  \/ Head(q) = m /\ OnlyLogs(Tail(q))
         \/ Head(q).type = "log" /\ Holds(Tail(q), m)
<1>1. PICK i \in DOMAIN q : q[i] = m /\ \A k \in DOMAIN q \ {i} : q[k].type = "log"
  BY DEF Holds
<1> DEFINE r == Tail(q)
<1>2. /\ DOMAIN q = 1 .. Len(q) /\ Len(q) \in Nat \ {0} /\ Head(q) = q[1]
      /\ DOMAIN r = 1 .. Len(q) - 1
      /\ \A k \in 1 .. Len(q) - 1 : r[k] = q[k + 1]
  BY TailProperties
<1> HIDE DEF r
<1>3. CASE i = 1
  <2>1. \A k \in DOMAIN r : k + 1 \in DOMAIN q \ {i} /\ r[k] = q[k + 1]
    BY <1>2, <1>3
  <2> QED BY <1>1, <1>2, <1>3, <2>1 DEF OnlyLogs, r
<1>4. CASE i # 1
  <2>1. 1 \in DOMAIN q \ {i} /\ i - 1 \in DOMAIN r /\ r[i - 1] = m
    BY <1>1, <1>2, <1>4
  <2>2. \A k \in DOMAIN r \ {i - 1} : k + 1 \in DOMAIN q \ {i} /\ r[k] = q[k + 1]
    BY <1>1, <1>2, <1>4
  <2> QED BY <1>1, <1>2, <2>1, <2>2 DEF Holds, r
<1> QED BY <1>3, <1>4

-----------------------------------------------------------------------------
(* The reader brings what comes nearer, and nothing else.                  *)

LEMMA ReaderSilent ==
  ASSUME TypeOK, Silent, Reader
  PROVE  Silent'
<1>1. ReadLine
  BY DEF Reader, Silent, Deliver
<1>2. Head(stdout).type = "log" /\ OnlyLogs(Tail(stdout))
  BY <1>1, LogsRead DEF TypeOK, Silent, ReadLine
<1> QED BY <1>1, <1>2 DEF Silent, ReadLine, OnlyLogs

LEMMA ReaderBrings ==
  ASSUME MessagesAssumption, TypeOK, NEW m \in Message, m.type \notin {"log", "garbled"},
         Coming(m), Reader
  PROVE  Coming(m)'
<1>0. m # None
  BY DEF MessagesAssumption
<1>1. CASE Deliver
  BY <1>0, <1>1 DEF Coming, Deliver, pipeVars
<1>2. CASE ReadLine
  <2>1. stdout \in Seq(Message) /\ stdout # <<>> /\ stdout' = Tail(stdout) /\ chan' = chan
          /\ hand' = (IF Head(stdout).type \in {"log", "garbled"} THEN None ELSE Head(stdout))
          /\ hand = None
    BY <1>2 DEF ReadLine, TypeOK
  <2>2. CASE OnlyLogs(stdout)
    <3>1. chan = m
      BY <2>1, <2>2, <1>0, LogsRead DEF Coming, Holds, OnlyLogs
    <3>2. Head(stdout).type = "log" /\ OnlyLogs(Tail(stdout))
      BY <2>1, <2>2, LogsRead
    <3> QED BY <2>1, <3>1, <3>2 DEF Coming, OnlyLogs
  <2>3. CASE ~OnlyLogs(stdout)
    <3>1. Holds(stdout, m) /\ chan = None
      BY <2>3 DEF Coming
    <3>2. \/ Head(stdout) = m /\ OnlyLogs(Tail(stdout))
          \/ Head(stdout).type = "log" /\ Holds(Tail(stdout), m)
      BY <2>1, <3>1, MessageRead
    <3> QED BY <2>1, <3>1, <3>2 DEF Coming, OnlyLogs, Holds
  <2> QED BY <2>2, <2>3
<1> QED BY <1>1, <1>2 DEF Reader

-----------------------------------------------------------------------------
(* The invariant.                                                          *)

LEMMA SerialInit ==
  ASSUME Serial, Init
  PROVE  SerialInv
<1>1. streams /\ program = "starting" /\ waiting = {} /\ believed = "new"
  BY DEF Serial, Init
<1>2. OnlyLogs(<<>>)
  BY DEF OnlyLogs
<1>3. Booting
  BY <1>2 DEF Init, Booting, NoLine, Silent
<1>4. \A h \in Handlers : pc[h] = "new"
  BY DEF Init
<1> QED BY <1>1, <1>3, <1>4 DEF SerialInv

\* The messages of the program.
LEMMA Replies ==
  ASSUME TypeOK, NEW h \in Handlers, cmd[h] \in Commands, NEW ok \in BOOLEAN
  PROVE  /\ Answer(h, ok) \in Message /\ Answer(h, ok).type \notin {"log", "garbled"}
         /\ Answer(h, ok).ok = ok
         /\ StartedMessage \in Message /\ StartedMessage.type = "started"
<1>1. Awaited(cmd[h]) \in {"started", "function_loaded", "response"}
  BY DEF Awaited
<1>2. fn[h] \in Functions \cup {None}
  BY DEF TypeOK
<1> QED BY <1>1, <1>2 DEF Answer, StartedMessage, Message, Types

LEMMA GarbledType ==
  ASSUME TypeOK, NEW h \in Handlers
  PROVE  Garbled(h) \in Message
BY DEF Garbled, Message, Types, TypeOK

\* The program has answered, with a line that Go cannot read.
LEMMA GarbledLine ==
  ASSUME MessagesAssumption, NEW h \in waiting, fn[h] \in Functions, Silent, NoLine',
         program' = "serve", loaded' = fn[h], Holds(stdout', Garbled(h)),
         UNCHANGED <<readVars, callVars>>
  PROVE  Unread(h)'
<1>1. Garbled(h)' = Garbled(h) /\ fn'[h] = fn[h] /\ fn[h] # None
  BY DEF callVars, Garbled, MessagesAssumption
<1>2. Holds(stdout, Garbled(h))'
  BY <1>1 DEF Holds
<1>3. Serves(fn[h])'
  BY <1>1 DEF Serves
<1>4. hand' = None /\ chan' = None
  BY DEF Silent, readVars
<1> QED BY <1>2, <1>3, <1>4 DEF Unread

\* A step of the program or of the reader: the commands are where they were.
LEMMA ProgramStep ==
  ASSUME TypeOK, SerialInv, UNCHANGED <<streams, callVars>>,
         program = "dead" => program' = "dead" /\ Silent',
         program # "dead" /\ program' = "dead" => Silent',
         Booting => Booting' /\ program' # "dead",
         Idle => Idle' /\ program' # "dead",
         \A h \in waiting :
           program # "dead" /\ program' # "dead" /\ cmd[h] \in {"function", "request"}
             /\ Asks(h) /\ (Requested(h) \/ Replied(h) \/ Unread(h)) =>
               Requested(h)' \/ Replied(h)' \/ Unread(h)'
  PROVE  SerialInv'
<1> USE DEF callVars
<1>1. ASSUME program' # "dead", NEW h \in waiting
      PROVE  Progress(h)'
  <2>1. program # "dead" /\ Progress(h)
    BY <1>1 DEF SerialInv
  <2>2. Asks(h) => Asks(h)'
    BY DEF Asks
  <2> QED BY <1>1, <2>1, <2>2 DEF Progress
<1>2. ASSUME program' # "dead", waiting = {}
      PROVE  IF believed = "new" THEN Booting' ELSE Idle'
  BY <1>2 DEF SerialInv
<1> QED BY <1>1, <1>2 DEF SerialInv

\* The command of a program that has something to do.
LEMMA NoLineIdle ==
  ASSUME TypeOK
  PROVE  /\ Booting => stdin = <<>> /\ ahead = <<>> /\ program \in {"starting", "load"}
         /\ Idle => stdin = <<>> /\ ahead = <<>> /\ program \in {"load", "serve"}
         /\ \A h : Replied(h) \/ Unread(h) =>
              stdin = <<>> /\ ahead = <<>> /\ program \in {"load", "serve"}
         /\ \A h : Requested(h) => program \in {"load", "serve", "busy"}
BY DEF Booting, Idle, Replied, Unread, Requested, NoLine, Serves

LEMMA StartedStep ==
  ASSUME MessagesAssumption, TypeOK, SerialInv, Started
  PROVE  SerialInv'
<1> USE DEF Started
<1>1. StartedMessage \in Message /\ stdout \in Seq(Message)
  BY DEF StartedMessage, Message, Types, TypeOK
<1>2. stdout' = Append(stdout, StartedMessage)
  BY DEF SerialInv, Emit, Msg, StartedMessage
<1>3. Booting => Booting'
  <2>1. Booting => Holds(stdout, StartedMessage)' /\ hand' = None /\ chan' = None
    BY <1>1, <1>2, MessageAppended DEF Booting, Silent, readVars, Holds
  <2> QED BY <2>1 DEF Booting, NoLine, Coming
<1>4. ~Idle /\ \A h : ~Requested(h) /\ ~Replied(h) /\ ~Unread(h)
  BY NoLineIdle
<1> QED BY <1>3, <1>4, ProgramStep

LEMMA ReadAheadStep ==
  ASSUME MessagesAssumption, TypeOK, SerialInv, ReadAhead
  PROVE  SerialInv'
<1> USE DEF ReadAhead
<1>1. ~Idle /\ ~Booting /\ \A h : ~Replied(h) /\ ~Unread(h)
  BY NoLineIdle
<1>2. ASSUME NEW h \in waiting, Requested(h)
      PROVE  Requested(h)'
  BY <1>2 DEF Requested, Silent, OnlyLogs, Serves, Line, readVars, callVars
<1> QED BY <1>1, <1>2, ProgramStep

LEMMA LoadFunctionStep ==
  ASSUME MessagesAssumption, TypeOK, SerialInv, LoadFunction
  PROVE  SerialInv'
<1> USE DEF LoadFunction
<1>1. ~Idle /\ ~Booting /\ \A h : ~Replied(h) /\ ~Unread(h)
  BY NoLineIdle
<1>2. ASSUME NEW h \in waiting, Requested(h), Asks(h), cmd[h] \in {"function", "request"}
      PROVE  Replied(h)' \/ Unread(h)'
  <2>1. h \in Handlers /\ cmd[h] \in Commands /\ stdout \in Seq(Message)
    BY <1>2 DEF TypeOK, Commands
  <2>2. stdin = <<>> /\ ahead = <<Line(h)>> /\ job = None /\ Serves(believed) /\ Silent
    BY <1>2 DEF Requested
  <2>3. cmd[h] = "function" /\ believed = None
    BY <1>2, <2>2 DEF Serves, Asks, MessagesAssumption
  <2>4. Head(ahead) = Line(h) /\ Tail(ahead) = <<>> /\ Line(h).type = "function"
          /\ Line(h).id = h /\ Line(h).fn = fn[h]
    BY <2>2, <2>3, OneLine DEF Line
  <2>5. NoLine' /\ fn[h] \in Functions
    BY <1>2, <2>2, <2>4 DEF NoLine, Asks
  <2>6. \/ \E ok \in BOOLEAN :
             /\ stdout' = Append(stdout, Answer(h, ok))
             /\ ok => program' = "serve" /\ loaded' = fn[h]
             /\ ~ok => UNCHANGED <<program, loaded>>
        \/ stdout' = Append(stdout, Garbled(h)) /\ program' = "serve" /\ loaded' = fn[h]
    <3>1. /\ Msg("function_loaded", h, fn[h], TRUE) = Answer(h, TRUE)
          /\ Msg("function_loaded", h, fn[h], FALSE) = Answer(h, FALSE)
          /\ Msg("garbled", h, fn[h], TRUE) = Garbled(h)
      BY <2>3 DEF Msg, Answer, Garbled, Awaited
    <3>2. \/ /\ program' = "serve" /\ loaded' = fn[h]
             /\ EmitAnswer("function_loaded", h, fn[h])
          \/ Emit(Msg("function_loaded", h, fn[h], FALSE)) /\ UNCHANGED <<program, loaded>>
      BY <2>4
    <3>3. streams
      BY DEF SerialInv
    <3> QED BY <3>1, <3>2, <3>3 DEF Emit, EmitAnswer
  <2>7. ASSUME NEW ok \in BOOLEAN,
               stdout' = Append(stdout, Answer(h, ok)),
               ok => program' = "serve" /\ loaded' = fn[h],
               ~ok => UNCHANGED <<program, loaded>>
        PROVE  Replied(h)'
    <3>1. Answer(h, ok)' = Answer(h, ok)
      BY DEF callVars, Answer
    <3>2. Coming(Answer(h, ok))'
      <4>1. Holds(stdout', Answer(h, ok))
        BY <2>1, <2>2, <2>7, Replies, MessageAppended DEF Silent
      <4> QED BY <2>2, <3>1, <4>1 DEF Coming, Silent, readVars, Holds
    <3>3. Serves(IF ok THEN fn[h] ELSE None)' /\ (cmd[h] = "request" => ok)'
      BY <1>2, <2>2, <2>3, <2>7 DEF Serves, Asks, MessagesAssumption, callVars
    <3> QED BY <2>5, <3>2, <3>3 DEF Replied
  <2>8. CASE stdout' = Append(stdout, Garbled(h)) /\ program' = "serve" /\ loaded' = fn[h]
    <3>1. Holds(stdout', Garbled(h))
      BY <2>1, <2>2, <2>8, GarbledType, MessageAppended DEF Silent
    <3> QED BY <2>2, <2>5, <2>8, <3>1, GarbledLine
  <2> QED BY <2>6, <2>7, <2>8
<1> QED BY <1>1, <1>2, ProgramStep

LEMMA ReceiveRequestStep ==
  ASSUME MessagesAssumption, TypeOK, SerialInv, ReceiveRequest
  PROVE  SerialInv'
<1> USE DEF ReceiveRequest
<1>1. ~Idle /\ ~Booting /\ \A h : ~Replied(h) /\ ~Unread(h)
  BY NoLineIdle
<1>2. ASSUME NEW h \in waiting, Requested(h), Asks(h), cmd[h] \in {"function", "request"}
      PROVE  Requested(h)'
  <2>1. stdin = <<>> /\ ahead = <<Line(h)>> /\ job = None /\ Serves(believed) /\ Silent
    BY <1>2 DEF Requested
  <2>2. cmd[h] = "request" /\ loaded = fn[h]
    BY <1>2, <2>1 DEF Serves, Asks
  <2>3. ahead' = <<>> /\ job' = Line(h) /\ program' = "busy"
    BY <2>1, <2>2, OneLine DEF Line
  <2>4. Silent' /\ Line(h)' = Line(h) /\ UNCHANGED <<stdin, loaded, cmd, fn>>
    BY <2>1 DEF Silent, OnlyLogs, Line, pipeVars, readVars, callVars
  <2> QED BY <2>1, <2>2, <2>3, <2>4 DEF Requested
<1> QED BY <1>1, <1>2, ProgramStep DEF pipeVars

\* The result of a function is one line, which Go can read or not.
LEMMA Result ==
  ASSUME MessagesAssumption, TypeOK, NEW h \in Handlers, Asks(h), Silent, streams,
         job.id = h, cmd[h] = "request", loaded = fn[h], loaded' = loaded,
         program' = "serve", stdin = <<>>, ahead = <<>>, job' = None,
         EmitAnswer("response", job.id, loaded), h \in waiting,
         UNCHANGED <<ahead, stdin, readVars, callVars>>
  PROVE  Replied(h)' \/ Unread(h)'
<1>1. NoLine' /\ fn[h] \in Functions /\ stdout \in Seq(Message) /\ cmd[h] \in Commands
  BY DEF NoLine, Asks, TypeOK, Commands
<1>2. Serves(fn[h])' /\ (cmd[h] = "request")'
  BY <1>1 DEF Serves, MessagesAssumption, callVars
<1>3. \/ stdout' = Append(stdout, Answer(h, TRUE))
      \/ stdout' = Append(stdout, Garbled(h))
  <2>1. /\ Msg("response", job.id, loaded, TRUE) = Answer(h, TRUE)
        /\ Msg("garbled", job.id, loaded, TRUE) = Garbled(h)
    BY DEF Msg, Answer, Garbled, Awaited
  <2> QED BY <2>1 DEF Emit, EmitAnswer
<1>4. ASSUME stdout' = Append(stdout, Answer(h, TRUE))
      PROVE  Replied(h)'
  <2>1. Answer(h, TRUE) \in Message /\ Answer(h, TRUE)' = Answer(h, TRUE)
    BY <1>1, Replies DEF Answer, callVars
  <2>2. Holds(stdout', Answer(h, TRUE))
    BY <1>1, <1>4, <2>1, MessageAppended DEF Silent
  <2>3. Coming(Answer(h, TRUE))'
    BY <2>1, <2>2 DEF Coming, Silent, readVars, Holds
  <2> QED BY <1>1, <1>2, <2>3 DEF Replied
<1>5. ASSUME stdout' = Append(stdout, Garbled(h))
      PROVE  Unread(h)'
  <2>1. Holds(stdout', Garbled(h))
    BY <1>1, <1>5, GarbledType, MessageAppended DEF Silent
  <2> QED BY <1>1, <2>1, GarbledLine
<1> QED BY <1>3, <1>4, <1>5

LEMMA ComputeStep ==
  ASSUME MessagesAssumption, TypeOK, SerialInv, Compute
  PROVE  SerialInv'
<1> USE DEF Compute
<1>1. ~Idle /\ ~Booting /\ \A h : ~Replied(h) /\ ~Unread(h)
  BY NoLineIdle
<1>2. PICK h \in waiting : Progress(h)
  BY <1>1 DEF SerialInv
<1>3. cmd[h] \in {"function", "request"} /\ Asks(h) /\ Requested(h)
  BY <1>1, <1>2 DEF Progress, SerialInv, TypeOK, Commands
<1>4. /\ job = Line(h) /\ job.id = h /\ cmd[h] = "request" /\ loaded = fn[h]
      /\ stdin = <<>> /\ ahead = <<>> /\ Silent /\ fn[h] # None
  BY <1>3 DEF Requested, Serves, Line, Asks, MessagesAssumption
<1>5. waiting = {h} /\ streams /\ stdout \in Seq(Message) /\ h \in Handlers
  BY <1>2 DEF SerialInv, TypeOK
<1>6. CASE program' = "serve"
  <2>1. Replied(h)' \/ Unread(h)'
    <3>1. /\ job' = None /\ EmitAnswer("response", job.id, loaded)
          /\ UNCHANGED <<ahead, stdin, readVars, callVars>>
      BY <1>6
    <3> QED BY <1>3, <1>4, <1>5, <1>6, <3>1, Result
  <2> QED BY <1>1, <1>5, <1>6, <2>1, ProgramStep
<1>7. CASE program' = "dead"
  <2>1. Silent'
    BY <1>4, <1>7 DEF Silent, OnlyLogs, readVars
  <2> QED BY <1>1, <1>7, <2>1, ProgramStep
<1>8. CASE program' = "busy"
  <2>1. stdout' = Append(stdout, Msg("log", None, None, TRUE))
    BY <1>5, <1>8 DEF Emit
  <2>2. PICK m \in Message : stdout' = Append(stdout, m) /\ m.type = "log"
    <3>1. [type |-> "log", id |-> None, fn |-> None, ok |-> TRUE] \in Message
      BY DEF Message, Types
    <3> QED BY <2>1, <3>1 DEF Msg
  <2>3. OnlyLogs(stdout')
    BY <1>4, <1>5, <2>2, LogAppended DEF Silent
  <2>4. Silent'
    BY <1>4, <2>3 DEF Silent, OnlyLogs, readVars
  <2>5. job' = job /\ Line(h)' = Line(h) /\ UNCHANGED <<stdin, ahead, loaded, cmd, fn>>
    BY <1>8 DEF Line, callVars
  <2>6. Requested(h)'
    BY <1>4, <1>8, <2>4, <2>5 DEF Requested
  <2> QED BY <1>1, <1>5, <1>8, <2>6, ProgramStep
<1> QED BY <1>6, <1>7, <1>8

LEMMA ReaderStep ==
  ASSUME MessagesAssumption, TypeOK, SerialInv, Reader
  PROVE  SerialInv'
<1>1. UNCHANGED <<progVars, stdin, streams, callVars>>
  BY DEF Reader, ReadLine, Deliver, pipeVars
<1>2. Booting => Booting'
  <2>1. StartedMessage \in Message /\ StartedMessage.type \notin {"log", "garbled"}
    BY DEF StartedMessage, Message, Types
  <2>2. Silent => Silent'
    BY ReaderSilent
  <2>3. Coming(StartedMessage) => Coming(StartedMessage)'
    BY <2>1, ReaderBrings
  <2> QED BY <1>1, <2>2, <2>3 DEF Booting, NoLine, progVars
<1>3. Idle => Idle'
  BY <1>1, ReaderSilent DEF Idle, NoLine, Serves, progVars, callVars
<1>4. ASSUME NEW h \in waiting, Requested(h)
      PROVE  Requested(h)'
  <2>1. Silent'
    BY <1>4, ReaderSilent DEF Requested
  <2> QED BY <1>1, <1>4, <2>1 DEF Requested, Line, Serves, progVars, callVars
<1>5. ASSUME NEW h \in waiting, Replied(h), cmd[h] \in {"function", "request"}
      PROVE  Replied(h)'
  <2>1. PICK ok \in BOOLEAN :
          /\ Coming(Answer(h, ok))
          /\ Serves(IF ok THEN fn[h] ELSE None)
          /\ cmd[h] = "request" => ok
    BY <1>5 DEF Replied
  <2>2. PICK m \in Message : m = Answer(h, ok) /\ m.type \notin {"log", "garbled"}
    BY <1>5, Replies DEF TypeOK, Commands
  <2>3. Answer(h, ok)' = m
    BY <1>1, <2>2 DEF Answer, callVars
  <2>4. Coming(Answer(h, ok))'
    <3>1. Coming(m)'
      BY <2>1, <2>2, ReaderBrings
    <3> QED BY <2>3, <3>1 DEF Coming
  <2> QED BY <1>1, <1>5, <2>1, <2>4 DEF Replied, NoLine, Serves, progVars,
         callVars
<1>9. ASSUME NEW h \in waiting, Unread(h)
      PROVE  Unread(h)'
  <2>1. ReadLine
    BY <1>9 DEF Unread, Reader, Deliver
  <2>2. stdout \in Seq(Message) /\ stdout # <<>> /\ stdout' = Tail(stdout) /\ chan' = chan
    BY <2>1 DEF ReadLine, TypeOK
  <2>3. /\ Head(stdout).type \in {"log", "garbled"}
        /\ OnlyLogs(Tail(stdout)) \/ Holds(Tail(stdout), Garbled(h))
    BY <1>9, <2>2, LogsRead, MessageRead DEF Unread, Garbled
  <2>4. hand' = None /\ Garbled(h)' = Garbled(h)
    BY <1>1, <2>1, <2>3 DEF ReadLine, Garbled, callVars
  <2>5. (OnlyLogs(stdout) \/ Holds(stdout, Garbled(h)))'
    BY <2>2, <2>3, <2>4 DEF OnlyLogs, Holds
  <2> QED BY <1>1, <1>9, <2>2, <2>4, <2>5 DEF Unread, NoLine, Serves, progVars, callVars
<1>6. program = "dead" => Silent'
  BY ReaderSilent DEF SerialInv
<1>7. Booting \/ Idle => program # "dead"
  BY NoLineIdle
<1>8. program' = program
  BY <1>1 DEF progVars
<1> QED BY <1>1, <1>2, <1>3, <1>4, <1>5, <1>6, <1>7, <1>8, <1>9, ProgramStep

-----------------------------------------------------------------------------
(* The steps of the handlers.                                              *)

LEMMA BeginStep ==
  ASSUME MessagesAssumption, Serial, TypeOK, SerialInv, NEW h \in Handlers, Begin(h)
  PROVE  SerialInv'
<1>1. waiting = {} /\ waiting' = {h}
  <2>1. IsFiniteSet(waiting) /\ Cardinality(waiting) < 1
    BY FS_Subset DEF MessagesAssumption, Serial, Begin, TypeOK
  <2>2. Cardinality(waiting) = 0
    BY <2>1, FS_CardinalityType
  <2> QED BY <2>1, <2>2, FS_EmptySet DEF Begin
<1>2. PICK c \in Commands :
        /\ Legal(c)
        /\ cmd' = [cmd EXCEPT ![h] = c]
        /\ \/ c = "function" /\ \E f \in Functions : fn' = [fn EXCEPT ![h] = f]
           \/ c = "request" /\ fn' = [fn EXCEPT ![h] = believed]
           \/ c \notin {"function", "request"} /\ UNCHANGED fn
        /\ pc' = [pc EXCEPT ![h] = IF c = "activate" THEN "await" ELSE "write"]
  BY DEF Begin, Goto
<1>3. UNCHANGED <<progVars, pipeVars, readVars>>
  BY DEF Begin
<1>4. cmd'[h] = c /\ pc'[h] = IF c = "activate" THEN "await" ELSE "write"
  BY <1>2 DEF TypeOK
<1>5. \A g \in Handlers : g \in waiting' <=> pc'[g] \in {"write", "await"}
  BY <1>1, <1>2, <1>4 DEF SerialInv, TypeOK
<1>6. ASSUME program # "dead"
      PROVE  Progress(h)'
  <2>1. CASE c = "activate"
    <3>1. believed = "new"
      BY <1>2, <2>1 DEF Legal
    <3>2. Booting
      BY <1>1, <1>6, <3>1 DEF SerialInv
    <3>3. Booting'
      BY <1>3, <3>2 DEF Booting, NoLine, Silent, OnlyLogs, Coming, Holds,
                        progVars, pipeVars, readVars
    <3> QED BY <1>4, <2>1, <3>3 DEF Progress, Commands
  <2>2. CASE c # "activate"
    <3>1. believed # "new"
      BY <1>2, <2>2 DEF Legal, Commands, MessagesAssumption
    <3>2. Idle /\ believed' = believed
      BY <1>1, <1>6, <3>1 DEF SerialInv, Begin
    <3>3. Idle'
      BY <1>3, <3>2 DEF Idle, NoLine, Silent, OnlyLogs, Serves, progVars,
         pipeVars, readVars
    <3>4. cmd'[h] \in {"function", "request"} => Asks(h)'
      BY <1>2, <1>4, <3>2 DEF Asks, Legal, TypeOK, Commands
    <3> QED BY <1>4, <2>2, <3>3, <3>4 DEF Progress, Commands
  <2> QED BY <2>1, <2>2
<1>7. (program = "dead" => Silent)'
  BY <1>3 DEF SerialInv, Silent, OnlyLogs, progVars, pipeVars, readVars
<1> QED BY <1>1, <1>3, <1>5, <1>6, <1>7 DEF SerialInv, progVars, pipeVars

\* A command that is over leaves the next client a program that is idle.
LEMMA Finished ==
  ASSUME TypeOK, SerialInv, NEW h \in waiting, NEW p \in {"done", "error"},
         pc' = [pc EXCEPT ![h] = p], waiting' = waiting \ {h}, streams',
         program' = "dead" => Silent',
         program' # "dead" => believed' # "new" /\ Idle'
  PROVE  SerialInv'
<1>1. waiting = {h} /\ h \in Handlers
  BY DEF SerialInv, TypeOK
<1>2. \A g \in Handlers : g \in waiting' <=> pc'[g] \in {"write", "await"}
  BY <1>1 DEF SerialInv, TypeOK
<1> QED BY <1>1, <1>2 DEF SerialInv

LEMMA WriteStep ==
  ASSUME MessagesAssumption, TypeOK, SerialInv, NEW h \in Handlers, Write(h)
  PROVE  SerialInv'
<1> USE DEF Write, Goto
<1>1. h \in waiting /\ waiting = {h}
  BY DEF SerialInv, TypeOK
<1>2. CASE pc' = [pc EXCEPT ![h] = "await"] /\ UNCHANGED <<waiting, believed>> /\ SendMessage(h)
  <2>1. pc'[h] = "await" /\ UNCHANGED <<progVars, stdout, streams, readVars, cmd, fn>>
    BY <1>2 DEF TypeOK
  <2>2. \A g \in Handlers : g \in waiting' <=> pc'[g] \in {"write", "await"}
    BY <1>1, <1>2 DEF SerialInv, TypeOK
  <2>3. ASSUME program # "dead"
        PROVE  Progress(h)'
    <3>1. Idle /\ Asks(h)
      BY <1>1, <2>3 DEF SerialInv, Progress
    <3>2. stdin' = <<Line(h)>> /\ Line(h)' = Line(h)
      BY <1>2, <2>1, <3>1, OneLine DEF SendMessage, Idle, NoLine, Line, Msg
    <3>3. Requested(h)'
      BY <1>2, <2>1, <3>1, <3>2
         DEF Requested, Idle, NoLine, Silent, OnlyLogs, Serves, progVars, readVars
    <3>4. Asks(h)'
      BY <1>2, <2>1, <3>1 DEF Asks
    <3> QED BY <2>1, <3>3, <3>4 DEF Progress, Commands
  <2>4. (program = "dead" => Silent)'
    BY <2>1 DEF SerialInv, Silent, OnlyLogs, progVars, readVars
  <2> QED BY <1>1, <1>2, <2>1, <2>2, <2>3, <2>4 DEF SerialInv, progVars
<1>3. CASE program = "dead" /\ pc' = [pc EXCEPT ![h] = "error"] /\ Answered(h, None, "unknown")
  <2>1. program' = "dead" /\ Silent' /\ streams'
    BY <1>3 DEF SerialInv, Silent, OnlyLogs, progVars, readVars
  <2>2. waiting' = waiting \ {h}
    BY <1>3 DEF Answered
  <2> QED BY <1>1, <1>3, <2>1, <2>2, Finished
<1> QED BY <1>2, <1>3

\* What a handler that waits takes from the channel.
LEMMA Received ==
  ASSUME MessagesAssumption, TypeOK, SerialInv, NEW h \in Handlers, pc[h] = "await", chan # None
  PROVE  /\ waiting = {h} /\ program # "dead"
         /\ OnlyLogs(stdout) /\ hand = None /\ NoLine /\ chan.type = Awaited(cmd[h])
         /\ \/ cmd[h] = "activate" /\ Serves(None)
            \/ /\ cmd[h] \in {"function", "request"}
               /\ chan.id = h /\ chan.fn = fn[h] /\ chan.ok \in BOOLEAN
               /\ fn[h] \in Functions /\ Serves(IF chan.ok THEN fn[h] ELSE None)
               /\ cmd[h] = "request" => chan.ok /\ believed = fn[h]
<1>1. waiting = {h} /\ program # "dead" /\ Progress(h)
  BY DEF SerialInv, Silent
<1>2. CASE cmd[h] = "activate"
  <2>1. Booting /\ Coming(StartedMessage) /\ program = "load"
    BY <1>1, <1>2 DEF Progress, Booting, Silent
  <2>2. chan = StartedMessage /\ OnlyLogs(stdout) /\ hand = None
    BY <2>1 DEF Coming
  <2> QED BY <1>1, <1>2, <2>1, <2>2 DEF StartedMessage, Awaited, Booting,
         Serves
<1>3. CASE cmd[h] \in {"function", "request"}
  <2>1. Replied(h) /\ Asks(h)
    BY <1>1, <1>3 DEF Progress, Requested, Unread, Silent
  <2>2. PICK ok \in BOOLEAN : /\ Coming(Answer(h, ok))
                              /\ Serves(IF ok THEN fn[h] ELSE None)
                              /\ cmd[h] = "request" => ok
    BY <2>1 DEF Replied
  <2>3. chan = Answer(h, ok) /\ OnlyLogs(stdout) /\ hand = None
    BY <2>2 DEF Coming
  <2>4. chan.id = h /\ chan.fn = fn[h] /\ chan.ok = ok /\ chan.type = Awaited(cmd[h])
    BY <2>3 DEF Answer
  <2> QED BY <1>1, <1>3, <2>1, <2>2, <2>3, <2>4 DEF Replied, Asks
<1>4. cmd[h] # "restore"
  BY <1>1 DEF Progress
<1> QED BY <1>1, <1>2, <1>3, <1>4 DEF Progress, Commands

LEMMA AwaitReturnsStep ==
  ASSUME MessagesAssumption, TypeOK, SerialInv, NEW h \in Handlers, AwaitReturns(h)
  PROVE  SerialInv'
<1> USE DEF AwaitReturns
<1>1. /\ waiting = {h} /\ program # "dead"
      /\ OnlyLogs(stdout) /\ hand = None /\ NoLine
      /\ \/ cmd[h] = "activate" /\ Serves(None)
         \/ /\ cmd[h] \in {"function", "request"} /\ chan.ok \in BOOLEAN
            /\ fn[h] \in Functions /\ Serves(IF chan.ok THEN fn[h] ELSE None)
            /\ cmd[h] = "request" => chan.ok /\ believed = fn[h]
  BY Received
<1>2. /\ waiting' = waiting \ {h} /\ chan' = None /\ UNCHANGED <<progVars, pipeVars, hand>>
      /\ believed' = (IF cmd[h] = "function" /\ chan.ok THEN fn[h]
                      ELSE IF cmd[h] = "request" THEN believed ELSE None)
      /\ pc' = [pc EXCEPT ![h] = IF chan.ok THEN "done" ELSE "error"]
  BY <1>1 DEF Answered, Goto
<1>3. believed' \in Functions \cup {None} /\ Serves(believed')
  BY <1>1, <1>2
<1>4. Idle' /\ believed' # "new"
  BY <1>1, <1>2, <1>3
     DEF Idle, NoLine, Silent, OnlyLogs, Serves, progVars, pipeVars, MessagesAssumption
<1>5. streams'
  BY <1>2 DEF SerialInv, pipeVars
<1>6. \E p \in {"done", "error"} : pc' = [pc EXCEPT ![h] = p]
  BY <1>2
<1> QED BY <1>1, <1>2, <1>4, <1>5, <1>6, Finished DEF Idle, Serves

LEMMA RestoreStep ==
  ASSUME MessagesAssumption, TypeOK, SerialInv, NEW h \in Handlers, Restore(h)
  PROVE  SerialInv'
<1> USE DEF Restore, Goto
<1>1. waiting = {h} /\ streams' /\ waiting' = waiting \ {h}
  BY DEF SerialInv, Answered, pipeVars
<1>2. CASE program = "dead"
  <2>1. program' = "dead" /\ Silent' /\ pc' = [pc EXCEPT ![h] = "error"]
    BY <1>2 DEF SerialInv, Silent, OnlyLogs, progVars, pipeVars, readVars
  <2> QED BY <1>1, <2>1, Finished
<1>3. CASE program # "dead"
  <2>1. Idle
    BY <1>1, <1>3 DEF SerialInv, Progress
  <2>2. program \notin {"dead", "starting"}
    BY <2>1 DEF Idle, Serves
  <2>3. /\ program' = "load" /\ loaded' = None /\ job' = None /\ ahead' = <<>>
        /\ believed' = None /\ pc' = [pc EXCEPT ![h] = "done"]
    BY <1>1, <2>2 DEF Answered
  <2>4. Idle' /\ believed' # "new"
    BY <2>1, <2>3
       DEF Idle, NoLine, Silent, OnlyLogs, Serves, pipeVars, readVars, MessagesAssumption
  <2> QED BY <1>1, <2>3, <2>4, Finished
<1> QED BY <1>2, <1>3

LEMMA SerialStep ==
  ASSUME MessagesAssumption, Serial, TypeOK, SerialInv, [Next]_vars
  PROVE  SerialInv'
<1>1. CASE Program
  BY <1>1, StartedStep, ReadAheadStep, LoadFunctionStep, ReceiveRequestStep,
     ComputeStep
     DEF Program
<1>2. CASE Reader
  BY <1>2, ReaderStep
<1>3. CASE AttachStreams
  BY <1>3 DEF AttachStreams, SerialInv
<1>4. ASSUME NEW h \in Handlers, Begin(h) PROVE SerialInv'
  BY <1>4, BeginStep
<1>5. ASSUME NEW h \in Handlers, Handler(h) PROVE SerialInv'
  <2>1. ~AwaitDrops(h)
    BY Received DEF AwaitDrops
  <2> QED BY <1>5, <2>1, WriteStep, AwaitReturnsStep, RestoreStep DEF Handler
<1>6. ASSUME NEW h \in Handlers, Timeout(h) PROVE SerialInv'
  BY <1>6 DEF Timeout, Serial
<1>7. CASE UNCHANGED vars
  BY <1>7 DEF vars, progVars, pipeVars, readVars, callVars, SerialInv,
     Progress, Booting, Idle,
              Requested, Replied, Unread, Garbled, Asks, Answer, Line, NoLine, Silent, Coming, OnlyLogs, Holds, Serves
<1> QED BY <1>1, <1>2, <1>3, <1>4, <1>5, <1>6, <1>7 DEF Next

LEMMA SerialAlways ==
  ASSUME MessagesAssumption, Serial
  PROVE  Spec => []SerialInv
<1>1. Init => SerialInv
  BY SerialInit
<1>2. TypeOK /\ SerialInv /\ [Next]_vars => SerialInv'
  BY SerialStep
<1>3. Spec => []TypeOK
  BY TypeCorrect
<1> QED BY <1>1, <1>2, <1>3, PTL DEF Spec

-----------------------------------------------------------------------------
LEMMA QuietAtRest == SerialInv => QuietBetweenCommands
BY DEF SerialInv, QuietBetweenCommands, Idle, NoLine, Silent, OnlyLogs

LEMMA BeliefAtRest ==
  ASSUME MessagesAssumption
  PROVE  SerialInv => BeliefIsTrue
BY DEF SerialInv, BeliefIsTrue, Idle, Serves, MessagesAssumption

\* Between two commands of a client that waits for its answers nothing is left
\* on its way, so that a Restore, which does not empty the channel, leaves
\* nothing behind for the next command (controller.go:325).
THEOREM Quiet ==
  ASSUME MessagesAssumption, Serial
  PROVE  Spec => []QuietBetweenCommands
BY QuietAtRest, SerialAlways, PTL

\* What such a client takes for loaded, after loads that may have failed,
\* requests and Restores, is what the program holds (controller.go:240).
THEOREM Belief ==
  ASSUME MessagesAssumption, Serial
  PROVE  Spec => []BeliefIsTrue
<1>1. SerialInv => BeliefIsTrue
  BY BeliefAtRest
<1> QED BY <1>1, SerialAlways, PTL

LEMMA OwnStep ==
  ASSUME MessagesAssumption, Serial, TypeOK, SerialInv, [Next]_vars
  PROVE  AnswersItsOwn
<1>1. ASSUME NEW h \in Handlers, h \in waiting, h \notin waiting', pc'[h] = "done",
             cmd[h] \in {"function", "request"}, NEW g \in Handlers, Handler(g)
      PROVE  reply'[h].id = h /\ reply'[h].fn = fn[h]
  <2>1. g = h
    BY <1>1 DEF Handler, Write, AwaitDrops, AwaitReturns, Restore, Answered,
       callVars,
                SerialInv, TypeOK
  <2>2. AwaitReturns(h)
    <3>1. Handler(h) /\ ~AwaitDrops(h) /\ ~Restore(h)
      BY <1>1, <2>1 DEF AwaitDrops, Restore, callVars
    <3>2. Write(h) => pc'[h] \in {"await", "error"}
      BY DEF Write, Goto, TypeOK
    <3> QED BY <1>1, <3>1, <3>2 DEF Handler
  <2>3. chan.id = h /\ chan.fn = fn[h]
    <3>1. pc[h] = "await" /\ chan # None
      BY <2>2 DEF AwaitReturns
    <3> QED BY <1>1, <3>1, Received
  <2>4. reply'[h] = chan
    BY <2>2 DEF AwaitReturns, Answered, TypeOK
  <2> QED BY <2>3, <2>4
<1>2. ASSUME NEW h \in Handlers, h \in waiting, h \notin waiting', Next
      PROVE  \E g \in Handlers : Handler(g)
  <2>1. ~Program /\ ~Reader /\ ~AttachStreams
    BY <1>2 DEF Program, Reader, AttachStreams, Started, ReadAhead,
       LoadFunction,
                ReceiveRequest, Compute, ReadLine, Deliver, callVars
  <2>2. \A g \in Handlers : ~Begin(g) /\ ~Timeout(g)
    BY <1>2 DEF Begin, Timeout, Serial
  <2> QED BY <1>2, <2>1, <2>2 DEF Next
<1>3. UNCHANGED vars => waiting' = waiting
  BY DEF vars, callVars
<1> QED BY <1>1, <1>2, <1>3 DEF AnswersItsOwn

\* The answer such a client gets is the answer to its own command, from the
\* function that was loaded when it asked (controller.go:256).
THEOREM Own ==
  ASSUME MessagesAssumption, Serial
  PROVE  Spec => [][AnswersItsOwn]_vars
<1>1. ASSUME TypeOK, SerialInv, [Next]_vars PROVE [AnswersItsOwn]_vars
  BY <1>1, OwnStep
<1>2. Spec => []TypeOK
  BY TypeCorrect
<1> QED BY <1>1, <1>2, SerialAlways, PTL DEF Spec

-----------------------------------------------------------------------------
(* The scenarios of MCControllerMessages.                                  *)

MCInv == scenario = "serial" => MessagesInv /\ SerialInv

LEMMA MCInvStep ==
  ASSUME MessagesAssumption, Serial
  PROVE  MCInv /\ [MCNext]_mcVars => MCInv'
<1> SUFFICES ASSUME MCInv, [MCNext]_mcVars, scenario' = "serial" PROVE MessagesInv' /\ SerialInv'
  BY DEF MCInv
<1>1. scenario = "serial" /\ [Next]_vars
  BY DEF MCNext, SerialNext, ImpatientNext, FunkNext, mcVars
<1> QED
  BY <1>1, TypeNext, SerialStep DEF MCInv, MessagesInv

LEMMA MCAlways ==
  ASSUME MessagesAssumption, Serial
  PROVE  MCSpec => []MCInv
<1>1. MCInit => MCInv
  <2>1. Init => MessagesInv /\ SerialInv
    BY SerialInit, TypeInit
  <2> QED
    BY <2>1 DEF MCInit, MCInv
<1> QED
  BY <1>1, MCInvStep, PTL DEF MCSpec

\* Quiet and Belief, as the run of the scenarios checks them: between two
\* commands of a client that waits nothing is left on its way, and what it takes
\* for loaded is what the program holds (controller.go:325).
THEOREM ScenarioIsQuiet ==
  ASSUME MessagesAssumption, Serial
  PROVE  MCSpec => []SerialIsQuiet
<1>1. MCInv => SerialIsQuiet
  BY QuietAtRest, BeliefAtRest DEF MCInv, SerialIsQuiet
<1> QED
  BY <1>1, MCAlways, PTL

\* Own, as the run of the scenarios checks it: the answer a client gets is the
\* answer to its own command (controller.go:256).
THEOREM ScenarioAnswersItsOwn ==
  ASSUME MessagesAssumption, Serial
  PROVE  MCSpec => OwnAnswer
<1>1. MCInv /\ [MCNext]_mcVars => [scenario = "serial" => AnswersItsOwn]_mcVars
  <2> SUFFICES ASSUME MCInv, [MCNext]_mcVars, scenario = "serial" PROVE AnswersItsOwn \/ UNCHANGED mcVars
    OBVIOUS
  <2>1. [Next]_vars
    BY DEF MCNext, SerialNext, ImpatientNext, FunkNext, mcVars
  <2> QED
    BY <2>1, OwnStep DEF MCInv, MessagesInv
<1> QED
  BY <1>1, MCAlways, PTL DEF MCSpec, OwnAnswer

-----------------------------------------------------------------------------
(* The command line.                                                       *)

\* Where a process is and what has become of its call.
Calling(p) ==
  /\ stage[p] \in {"open", "write"} => command[p] = "target" /\ address[p] \in Funk!Targets
  /\ stage[p] \in {"start", "dial", "call", "await", "close"} => command[p] \in Funk!Calls
  /\ stage[p] \in {"new", "open", "write", "start", "dial", "call"} => p \notin calls
  /\ address[p] \in Funk!Targets /\ (command[p] = "target" \/ ~overlapped) =>
       address[p] \in saved
  /\ stage[p] \in {"close", "ok"} /\ command[p] # "target" =>
       answer[p] = "success" /\ address[p] \in Services /\ served[address[p]][p] = 1

\* A call is on its way, or has been carried out by the service it is for.
Served(p) ==
  /\ p \in calls \/ (\E s \in Services : served[s][p] # 0) =>
       stage[p] \in {"await", "close", "ok", "error"} /\ command[p] \in Funk!Calls
  /\ \A s \in Services : served[s][p] # 0 =>
       served[s][p] = 1 /\ address[p] = s /\ p \notin calls
  /\ p \in calls => address[p] \in Services
  /\ answer[p] # None => address[p] \in Services /\ served[address[p]][p] = 1

\* While nobody has written beside another, the file is empty for the one that
\* writes it.
Alone ==
  ~overlapped =>
    /\ funkrc \in Funk!Targets => funkrc \in saved
    /\ \A p \in Processes : stage[p] = "write" =>
         funkrc = Empty /\ \A q \in Processes : stage[q] = "write" => q = p

FunkInv ==
  /\ Funk!TypeOK
  /\ Alone
  /\ \A p \in Processes : Calling(p) /\ Served(p)

LEMMA FunkInit == Funk!Init => FunkInv
<1> SUFFICES ASSUME Funk!Init PROVE FunkInv
  OBVIOUS
<1>1. /\ funkrc = None /\ saved = {} /\ overlapped = FALSE
      /\ calls = {} /\ served = [s \in Services |-> [p \in Processes |-> 0]]
      /\ \A p \in Processes : stage[p] = "new" /\ address[p] = None /\ answer[p] = None
  BY DEF Funk!Init
<1>2. Funk!TypeOK
  BY DEF Funk!Init, Funk!TypeOK
<1>3. None \notin Funk!Targets
  BY ScenarioAssumption DEF Funk!FunkerAssumption
<1> QED BY <1>1, <1>2, <1>3 DEF FunkInv, Alone, Calling, Served

\* A step of one process: nobody else is disturbed, and saved addresses stay.
LEMMA OthersStay ==
  ASSUME FunkInv, NEW p \in Processes, NEW q \in Processes, q # p,
         stage'[q] = stage[q], command'[q] = command[q], address'[q] = address[q],
         answer'[q] = answer[q], saved \subseteq saved', overlapped => overlapped',
         q \in calls' <=> q \in calls,
         \A s \in Services : served'[s][q] = served[s][q]
  PROVE  (Calling(q) /\ Served(q))'
BY DEF FunkInv, Calling, Served

LEMMA RunStep ==
  ASSUME FunkInv, NEW p \in Processes, Funk!Run(p)
  PROVE  FunkInv'
<1> USE DEF Funk!Run, Funk!Goto
<1>1. PICK c \in Funk!Commands :
        /\ command' = [command EXCEPT ![p] = c]
        /\ IF c = "target"
           THEN /\ \E t \in Funk!Targets : /\ address' = [address EXCEPT ![p] = t]
                                           /\ saved' = saved \cup {t}
                /\ Funk!Goto(p, "open")
           ELSE Funk!Goto(p, "start") /\ UNCHANGED <<address, saved>>
  OBVIOUS
<1>2. Funk!TypeOK'
  BY <1>1 DEF FunkInv, Funk!TypeOK
<1>3. saved \subseteq saved'
  BY <1>1
<1>4. \A q \in Processes \ {p} : (Calling(q) /\ Served(q))'
  BY <1>1, <1>3, OthersStay DEF FunkInv, Funk!TypeOK
<1>5. (Calling(p) /\ Served(p))'
  BY <1>1 DEF FunkInv, Funk!TypeOK, Funk!Commands, Funk!Calls, Calling, Served
<1>6. \A q \in Processes : stage'[q] = "write" => stage[q] = "write"
  BY <1>1 DEF FunkInv, Funk!TypeOK
<1>7. Alone'
  BY <1>3, <1>6 DEF FunkInv, Alone
<1> QED BY <1>2, <1>4, <1>5, <1>7 DEF FunkInv

LEMMA SaveTargetStep ==
  ASSUME FunkInv, NEW p \in Processes, Funk!SaveTarget(p)
  PROVE  FunkInv'
<1> USE DEF Funk!Goto
<1>1. /\ stage[p] \in {"open", "write"} /\ command[p] = "target"
      /\ address[p] \in Funk!Targets /\ address[p] \in saved
  BY DEF FunkInv, Calling, Funk!SaveTarget
<1>2. UNCHANGED <<saved, command, address, conn, calls, served, answer>>
  BY DEF Funk!SaveTarget
<1>3. \E s \in {"write", "ok", "error"} : stage' = [stage EXCEPT ![p] = s]
  BY DEF Funk!SaveTarget
<1>4. overlapped' \in BOOLEAN
  BY DEF FunkInv, Funk!TypeOK, Funk!SaveTarget
<1>5. overlapped => overlapped'
  BY DEF Funk!SaveTarget
<1>6. funkrc' \in Funk!Targets \cup {None, Empty}
  BY <1>1, ScenarioAssumption DEF FunkInv, Funk!TypeOK, Funk!SaveTarget, Funk!FunkerAssumption
<1>7. Funk!TypeOK'
  BY <1>2, <1>3, <1>4, <1>6 DEF FunkInv, Funk!TypeOK
<1>8. \A q \in Processes \ {p} : (Calling(q) /\ Served(q))'
  <2>1. \A q \in Processes \ {p} : stage'[q] = stage[q]
    BY <1>3 DEF FunkInv, Funk!TypeOK
  <2> QED BY <1>2, <1>5, <2>1, OthersStay
<1>9. (Calling(p) /\ Served(p))'
  BY <1>1, <1>2, <1>3 DEF FunkInv, Funk!TypeOK, Calling, Served, Funk!Calls
<1>10. Alone'
  <2> SUFFICES ASSUME ~overlapped' PROVE Alone'
    BY DEF Alone
  <2>1. Alone /\ ~overlapped
    BY <1>5 DEF FunkInv
  <2>2. CASE stage[p] = "open" /\ funkrc' = Empty /\ stage' = [stage EXCEPT ![p] = "write"]
             /\ ~\E q \in Processes : stage[q] = "write"
    <3>1. \A q \in Processes : stage'[q] = "write" => q = p
      BY <2>2 DEF FunkInv, Funk!TypeOK
    <3> QED BY <2>2, <3>1, ScenarioAssumption DEF Alone, Funk!FunkerAssumption
  <2>3. CASE stage[p] = "write" /\ stage' = [stage EXCEPT ![p] = "ok"]
             /\ funkrc' = IF funkrc \in Funk!Targets THEN Overlay[<<address[p], funkrc>>]
                          ELSE address[p]
    <3>1. \A q \in Processes : stage'[q] # "write"
      BY <2>1, <2>3 DEF FunkInv, Funk!TypeOK, Alone
    <3>2. funkrc' = address[p]
      BY <2>1, <2>3, ScenarioAssumption DEF Alone, Funk!FunkerAssumption
    <3> QED BY <1>1, <1>2, <3>1, <3>2 DEF Alone
  <2>4. CASE stage' = [stage EXCEPT ![p] = "error"] /\ funkrc' = funkrc
    <3>1. \A q \in Processes : stage'[q] = "write" => stage[q] = "write"
      BY <2>4 DEF FunkInv, Funk!TypeOK
    <3> QED BY <1>2, <2>1, <2>4, <3>1 DEF Alone
  <2> QED BY <2>2, <2>3, <2>4 DEF Funk!SaveTarget
<1> QED BY <1>7, <1>8, <1>9, <1>10 DEF FunkInv

\* A step that leaves the file alone and writes nothing.
LEMMA AloneStays ==
  ASSUME FunkInv, UNCHANGED <<funkrc, saved, overlapped>>,
         \A q \in Processes : stage'[q] = "write" => stage[q] = "write"
  PROVE  Alone'
BY DEF FunkInv, Alone

LEMMA GetTargetStep ==
  ASSUME FunkInv, NEW p \in Processes, Funk!getTarget(p)
  PROVE  FunkInv'
<1> USE DEF Funk!getTarget, Funk!Goto
<1>1. Funk!TypeOK'
  BY DEF FunkInv, Funk!TypeOK
<1>2. \A q \in Processes \ {p} : (Calling(q) /\ Served(q))'
  BY OthersStay DEF FunkInv, Funk!TypeOK
<1>3. (Calling(p) /\ Served(p))'
  BY DEF FunkInv, Funk!TypeOK, Funk!Calls, Alone, Calling, Served
<1>4. Alone'
  BY AloneStays DEF FunkInv, Funk!TypeOK
<1> QED BY <1>1, <1>2, <1>3, <1>4 DEF FunkInv

LEMMA DialCallStep ==
  ASSUME FunkInv, NEW p \in Processes, Funk!Dial(p) \/ Funk!Call(p)
  PROVE  FunkInv'
<1> USE DEF Funk!Dial, Funk!Call, Funk!Goto
<1>1. Funk!TypeOK'
  BY DEF FunkInv, Funk!TypeOK
<1>2. \A q \in Processes \ {p} : (Calling(q) /\ Served(q))'
  BY OthersStay DEF FunkInv, Funk!TypeOK
<1>3. (Calling(p) /\ Served(p))'
  BY DEF FunkInv, Funk!TypeOK, Funk!Calls, Calling, Served
<1>4. Alone'
  BY AloneStays DEF FunkInv, Funk!TypeOK
<1> QED BY <1>1, <1>2, <1>3, <1>4 DEF FunkInv

\* The service a call reaches is the one the process dialled, and nobody carries
\* it out a second time: it is no longer on its way.
LEMMA ServeStep ==
  ASSUME FunkInv, NEW p \in Processes, Funk!Serve(p)
  PROVE  FunkInv'
<1> USE DEF Funk!Serve
<1>1. address[p] \in Services /\ p \in calls /\ \A s \in Services : served[s][p] = 0
  BY DEF FunkInv, Served
<1>9. served[address[p]] \in [Processes -> Nat] /\ served[address[p]][p] + 1 = 1
  BY <1>1 DEF FunkInv, Funk!TypeOK
<1>2. /\ served' = [served EXCEPT ![address[p]] = [served[address[p]] EXCEPT ![p] = 1]]
      /\ served[address[p]] \in [Processes -> Nat]
  BY <1>9
<1>3. Funk!TypeOK'
  <2>1. served' \in [Services -> [Processes -> Nat]]
    BY <1>1, <1>2 DEF FunkInv, Funk!TypeOK
  <2> QED BY <2>1 DEF FunkInv, Funk!TypeOK
<1>4. \A s \in Services : served'[s][p] = IF s = address[p] THEN 1 ELSE 0
  BY <1>1, <1>2 DEF FunkInv, Funk!TypeOK
<1>5. \A q \in Processes \ {p} : (Calling(q) /\ Served(q))'
  <2> SUFFICES ASSUME NEW q \in Processes, q # p PROVE (Calling(q) /\ Served(q))'
    OBVIOUS
  <2>1. \A s \in Services : served'[s][q] = served[s][q]
    BY <1>1, <1>2 DEF FunkInv, Funk!TypeOK
  <2> QED BY <2>1, OthersStay DEF FunkInv, Funk!TypeOK
<1>6. Calling(p)' /\ stage[p] \in {"await", "error"}
  BY <1>1 DEF FunkInv, Calling, Served, Funk!Calls
<1>7. Served(p)'
  BY <1>1, <1>4, <1>6 DEF FunkInv, Funk!TypeOK, Served
<1>8. Alone'
  BY AloneStays
<1> QED BY <1>3, <1>5, <1>6, <1>7, <1>8 DEF FunkInv

LEMMA EndOfCallStep ==
  ASSUME FunkInv, NEW p \in Processes, Funk!Return(p) \/ Funk!Timeout(p) \/ Funk!Close(p)
  PROVE  FunkInv'
<1> USE DEF Funk!Return, Funk!Timeout, Funk!Close, Funk!Goto
<1>1. Funk!TypeOK'
  BY DEF FunkInv, Funk!TypeOK
<1>2. \A q \in Processes \ {p} : (Calling(q) /\ Served(q))'
  BY OthersStay DEF FunkInv, Funk!TypeOK
<1>3. (Calling(p) /\ Served(p))'
  BY DEF FunkInv, Funk!TypeOK, Calling, Served
<1>4. Alone'
  BY AloneStays DEF FunkInv, Funk!TypeOK
<1> QED BY <1>1, <1>2, <1>3, <1>4 DEF FunkInv

LEMMA FunkStep == FunkInv /\ [MCNext]_mcVars => FunkInv'
<1> SUFFICES ASSUME FunkInv, [MCNext]_mcVars PROVE FunkInv'
  OBVIOUS
<1>1. CASE UNCHANGED funkVars
  BY <1>1 DEF funkVars, FunkInv, Funk!TypeOK, Alone, Calling, Served
<1>2. CASE Funk!Next
  BY <1>2, RunStep, SaveTargetStep, GetTargetStep, DialCallStep, ServeStep,
     EndOfCallStep
     DEF Funk!Next
<1> QED
  BY <1>1, <1>2 DEF MCNext, SerialNext, ImpatientNext, FunkNext, mcVars

\* A command that reports success was carried out exactly once, by the service
\* it was sent to, and no service carries out a command twice; a service that is
\* called is at an address that somebody saved, unless two processes have had the
\* file open for writing at a time: for any number of processes and services, and
\* whatever addresses written over each other read as (funker.go:113,
\* client.go:63).
THEOREM FunkServes == MCSpec => []FunkServedWhereSaved
<1>1. MCInit => FunkInv
  BY FunkInit DEF MCInit
<1>2. FunkInv => FunkServedWhereSaved
  <2> SUFFICES ASSUME FunkInv PROVE FunkServedWhereSaved
    OBVIOUS
  <2>1. Funk!ServedWhereSaved
    BY DEF FunkInv, Funk!TypeOK, Funk!Targets, Calling, Served, Funk!ServedWhereSaved
  <2>2. Funk!CarriedOutOnce
    <3>1. ASSUME NEW p \in Processes, NEW s \in Services
          PROVE  served[s][p] <= (IF s = address[p] THEN 1 ELSE 0)
      BY DEF FunkInv, Served
    <3>2. ASSUME NEW p \in Processes, stage[p] = "ok", command[p] \in Funk!Calls
          PROVE  answer[p] = "success" /\ \E s \in Services : served[s][p] = 1
      BY <3>2 DEF FunkInv, Calling, Funk!Calls
    <3> QED BY <3>1, <3>2 DEF Funk!CarriedOutOnce
  <2> QED
    BY <2>1, <2>2 DEF FunkServedWhereSaved, FunkInv
<1> QED
  BY <1>1, <1>2, FunkStep, PTL DEF MCSpec

=============================================================================
