------------------------------ MODULE Invoker -------------------------------
(***************************************************************************)
(* The main loop of the invoker (src/invoker/main.go) with the function    *)
(* storage and its cache (src/invoker/storage): activations are pulled     *)
(* from the queue one by one and each is consumed by a goroutine of its    *)
(* own, which gets the function, runs it, and sends the answers in         *)
(* goroutines again.                                                       *)
(*                                                                         *)
(* Abstractions: workers.Run is one step that gives a result, fails, or    *)
(* never ends (see Scheduler and ControllerMessages); sending a message is *)
(* one step that works or fails (see MessageProvider); a function document *)
(* is its version; documents that cannot be parsed and databases that do   *)
(* not answer are one failure.  One variable is history: overwritten.      *)
(***************************************************************************)
EXTENDS Naturals, FiniteSets, Sequences, SequencesExt

CONSTANTS
  Activations,  \* activation messages
  Blocking,     \* those whose caller waits for the result
  Functions,    \* full names of functions
  None,         \* no activation
  Versions,     \* bound on the versions of a function
  Settings      \* the circumstances an invoker may run in: [code, java, cacheSize,
                \* inFlight, faults], see the definitions below

\* "text"; "base64": an attachment; "base64url": in the base64 that URLs take;
\* "short": an attachment shorter than its prefix; "none": not there, or not of
\* a type that is expected
Codes == {"text", "base64", "base64url", "short", "none"}

\* "database": the function or the record store fails   "run": workers.Run fails
\* "hang": workers.Run never returns    "send": a message is not sent
\* "pull": the queue fails, or a message in it cannot be parsed
\* "signal": the invoker is told to stop
FaultKinds == {"database", "run", "hang", "send", "pull", "signal"}

InvokerAssumption ==
  /\ IsFiniteSet(Activations) /\ IsFiniteSet(Functions)
  /\ None \notin Activations
  /\ Versions \in Nat \ {0}
  /\ Settings \subseteq [code : [Functions -> Codes], java : SUBSET Functions,
                         cacheSize : Nat \ {0}, inFlight : Nat \ {0},
                         faults : SUBSET FaultKinds]

VARIABLES
  setting,   \* the circumstances of this invoker
  queue,     \* the activations in the invoker's topic
  hand,      \* the activation the pulling goroutine offers to main
  puller,    \* "pull" | "offer" | "error" | "ended"
  main,      \* "select" | "closing" | "exited"
  stage,     \* where the goroutine of each activation is
  fn,        \* its function
  doc,       \* the version that GetFunction returned
  failed,    \* activations whose consumeMessage returned an error
  err,       \* the variable all the goroutines share: whose error, or None
  logged,    \* activations whose error was logged
  overwritten,  \* those whose outcome was replaced in err before they looked at it
  sending,   \* messages that goroutines are to send for each activation
  sent,      \* those that were sent
  db,        \* version of each function in the database
  cache,     \* functionCache: pairs <<function, version>>, latest used last
  crashed    \* a goroutine has panicked

given     == <<setting, fn>>
errVars   == <<failed, err, logged, overwritten>>
sendVars  == <<sending, sent>>
pullVars  == <<queue, hand, puller, main>>
cacheVars == <<db, cache>>
actVars   == <<given, stage, doc, errVars, sendVars>>
vars      == <<pullVars, cacheVars, actVars, crashed>>

Java      == setting.java       \* functions that are a Java archive
CacheSize == setting.cacheSize  \* functions the cache holds
InFlight  == setting.inFlight   \* activations that may be on their way at a time
Faults    == setting.faults     \* what may go wrong

Messages == {"result", "completion", "record"}
Stages == {"new", "queued", "offered", "contains", "get", "fetch", "add", "run", "hung",
           "return", "check", "done", "dropped"}

TypeOK ==
  /\ setting \in Settings
  /\ queue \in Seq(Activations)
  /\ hand \in Activations \cup {None}
  /\ puller \in {"pull", "offer", "error", "ended"}
  /\ main \in {"select", "closing", "exited"}
  /\ stage \in [Activations -> Stages]
  /\ fn \in [Activations -> Functions]
  /\ doc \in [Activations -> 0 .. Versions]
  /\ failed \subseteq Activations /\ logged \subseteq Activations
  /\ overwritten \subseteq Activations
  /\ err \in Activations \cup {None}
  /\ sending \in [Activations -> SUBSET Messages]
  /\ sent \in [Activations -> SUBSET Messages]
  /\ db \in [Functions -> 1 .. Versions]
  /\ cache \in Seq(Functions \X (1 .. Versions)) /\ Len(cache) <= CacheSize
  /\ crashed \in BOOLEAN

\* NewFunctionStorage: clients of the databases, and an empty cache.
NewFunctionStorage == cache = <<>>

Init ==
  /\ setting \in Settings
  /\ queue = <<>> /\ hand = None
  /\ puller = "pull" /\ main = "select"
  /\ stage = [a \in Activations |-> "new"]
  /\ fn \in [Activations -> Functions]
  /\ doc = [a \in Activations |-> 0]
  /\ failed = {} /\ logged = {} /\ overwritten = {} /\ err = None
  /\ sending = [a \in Activations |-> {}]
  /\ sent = [a \in Activations |-> {}]
  /\ db = [f \in Functions |-> 1]
  /\ NewFunctionStorage
  /\ crashed = FALSE

-----------------------------------------------------------------------------
Up == ~crashed /\ main # "exited"
Goto(a, s) == stage' = [stage EXCEPT ![a] = s]
OnItsWay(a) == stage[a] \notin {"new", "done", "dropped"} \/ sending[a] # {}

\* OpenWhisk: an activation is put into the queue; a function is updated.
Invoke(a) ==
  /\ stage[a] = "new"
  /\ Cardinality({b \in Activations : OnItsWay(b)}) < InFlight
  /\ queue' = Append(queue, a)
  /\ Goto(a, "queued")
  /\ UNCHANGED <<hand, puller, main, cacheVars, given, doc, errVars, sendVars, crashed>>

Update(f) ==
  /\ db[f] < Versions
  /\ db' = [db EXCEPT ![f] = @ + 1]
  /\ UNCHANGED <<pullVars, cache, actVars, crashed>>

-----------------------------------------------------------------------------
(* The pulling goroutine, and main.                                        *)

\* GetActivation: what is read is gone from the queue, parsed or not.
GetActivation ==
  /\ Up
  /\ puller = "pull"
  /\ \/ /\ queue # <<>>
        /\ queue' = Tail(queue)
        /\ \/ /\ hand' = Head(queue)
              /\ puller' = "offer"
              /\ Goto(Head(queue), "offered")
           \/ /\ "pull" \in Faults
              /\ puller' = "error"
              /\ Goto(Head(queue), "dropped")
              /\ UNCHANGED hand
     \/ /\ "pull" \in Faults
        /\ puller' = "error"
        /\ UNCHANGED <<queue, hand, stage>>
  /\ UNCHANGED <<main, cacheVars, given, doc, errVars, sendVars, crashed>>

\* Variant: the goroutine pulls once.
DispatchOnce ==
  /\ Up
  /\ main = "select"
  /\ puller = "offer"
  /\ puller' = "ended"
  /\ hand' = None
  /\ Goto(hand, "contains")
  /\ UNCHANGED <<queue, main, cacheVars, given, doc, errVars, sendVars, crashed>>

\* case message := <-messageChan
Dispatch ==
  /\ Up
  /\ main = "select"
  /\ puller = "offer"
  /\ puller' = "pull"
  /\ hand' = None
  /\ Goto(hand, "contains")
  /\ UNCHANGED <<queue, main, cacheVars, given, doc, errVars, sendVars, crashed>>

\* case <-stopChan, case err := <-errorChan: main returns.
Stop ==
  /\ Up
  /\ main = "select"
  /\ \/ "signal" \in Faults /\ UNCHANGED puller
     \/ puller = "error" /\ puller' = "ended"
  /\ main' = "closing"
  /\ UNCHANGED <<queue, hand, cacheVars, actVars, crashed>>

\* The deferred calls close workers, pings and messenger, and os.Exit ends
\* the goroutines.
Exit ==
  /\ Up
  /\ main = "closing"
  /\ main' = "exited"
  /\ UNCHANGED <<queue, hand, puller, cacheVars, actVars, crashed>>

-----------------------------------------------------------------------------
(* GetFunction.                                                            *)

InCache(f) == \E i \in DOMAIN cache : cache[i][1] = f
Drop(f) ==
  IF InCache(f) THEN RemoveAt(cache, CHOOSE i \in DOMAIN cache : cache[i][1] = f) ELSE cache
Used(f, v) == Append(Drop(f), <<f, v>>)

Fail(a) == failed' = failed \cup {a} /\ Goto(a, "return")

CacheContains(a) ==
  /\ Up
  /\ stage[a] = "contains"
  /\ Goto(a, IF InCache(fn[a]) THEN "get" ELSE "fetch")
  /\ UNCHANGED <<pullVars, cacheVars, given, doc, errVars, sendVars, crashed>>

\* Get returns nil for an entry that has gone, and the type assertion panics.
Get(a) ==
  /\ Up
  /\ stage[a] = "get"
  /\ \/ \E i \in DOMAIN cache :
          /\ cache[i][1] = fn[a]
          /\ doc' = [doc EXCEPT ![a] = cache[i][2]]
          /\ cache' = Used(fn[a], cache[i][2])
          /\ Goto(a, "run")
          /\ UNCHANGED crashed
     \/ /\ ~InCache(fn[a])
        /\ crashed' = TRUE
        /\ UNCHANGED <<doc, cache, stage>>
  /\ UNCHANGED <<pullVars, db, given, errVars, sendVars>>

Fetch(a) ==
  /\ Up
  /\ stage[a] = "fetch"
  /\ \/ /\ doc' = [doc EXCEPT ![a] = db[fn[a]]]
        /\ Goto(a, "add")
        /\ UNCHANGED failed
     \/ /\ "database" \in Faults
        /\ Fail(a)
        /\ UNCHANGED doc
  /\ UNCHANGED <<pullVars, cacheVars, given, err, logged, overwritten, sendVars, crashed>>

EvictOneMore(c) == IF Len(c) >= CacheSize THEN Tail(c) ELSE c

\* lru.Add removes the oldest entry of a cache that is full.
Evict(c) == IF Len(c) > CacheSize THEN Tail(c) ELSE c

Add(a) ==
  /\ Up
  /\ stage[a] = "add"
  /\ cache' = Evict(Used(fn[a], doc[a]))
  /\ Goto(a, "run")
  /\ UNCHANGED <<pullVars, db, given, doc, errVars, sendVars, crashed>>

-----------------------------------------------------------------------------
(* consumeMessage, and the goroutine around it.                            *)

Answers(a) == {"completion", "record"} \cup (IF a \in Blocking THEN {"result"} ELSE {})

\* The code of a function: "mem:" is cut off the name of its attachment, which
\* must have four characters, and only an archive is spared decoding.
CodeString(f) ==
  IF setting.code[f] \in {"text", "base64"} \/ (setting.code[f] = "base64url" /\ f \in Java)
  THEN "code"
  ELSE IF setting.code[f] = "short" THEN "panic" ELSE "error"

\* Variant: the goroutines that answer are started first.
RunAnswersFirst(a) ==
  /\ Up
  /\ stage[a] = "run"
  /\ sending' = [sending EXCEPT ![a] = Answers(a)]
  /\ \/ "run" \in Faults /\ Fail(a)
     \/ Goto(a, "return") /\ UNCHANGED failed
  /\ UNCHANGED <<pullVars, cacheVars, given, doc, err, logged, overwritten, sent, crashed>>

\* workers.Run fails, as it does when the pool is closed or the function has no
\* code; or it never returns, waiting for a function that raises, a load or a
\* worker (controller.go:272, scheduler.go:194); or it has a result and
\* goroutines are started that send it.
Run(a) ==
  /\ Up
  /\ stage[a] = "run"
  /\ \/ /\ "run" \in Faults \/ main = "closing" \/ CodeString(fn[a]) = "error"
        /\ Fail(a)
        /\ UNCHANGED <<sending, crashed>>
     \/ /\ CodeString(fn[a]) = "panic"
        /\ crashed' = TRUE
        /\ UNCHANGED <<stage, failed, sending>>
     \/ /\ "hang" \in Faults /\ CodeString(fn[a]) = "code"
        /\ Goto(a, "hung")
        /\ UNCHANGED <<failed, sending, crashed>>
     \/ /\ CodeString(fn[a]) = "code"
        /\ sending' = [sending EXCEPT ![a] = Answers(a)]
        /\ Goto(a, "return")
        /\ UNCHANGED <<failed, crashed>>
  /\ UNCHANGED <<pullVars, cacheVars, given, doc, err, logged, overwritten, sent>>

\* Variant: an error is kept until it is cleared.
ReturnKeeps(a) ==
  /\ Up
  /\ stage[a] = "return"
  /\ err' = IF a \in failed /\ err = None THEN a ELSE err
  /\ Goto(a, "check")
  /\ UNCHANGED <<pullVars, cacheVars, given, doc, failed, logged, overwritten, sendVars, crashed>>

\* err = consumeMessage(...): err is main's, and every goroutine's.
Return(a) ==
  /\ Up
  /\ stage[a] = "return"
  /\ err' = IF a \in failed THEN a ELSE None
  /\ overwritten' = overwritten \cup {b \in Activations : stage[b] = "check"}
  /\ Goto(a, "check")
  /\ UNCHANGED <<pullVars, cacheVars, given, doc, failed, logged, sendVars, crashed>>

\* if err != nil { log.Error(err) }
Check(a) ==
  /\ Up
  /\ stage[a] = "check"
  /\ logged' = logged \cup ({err} \ {None})
  /\ Goto(a, "done")
  /\ UNCHANGED <<pullVars, cacheVars, given, doc, failed, err, overwritten, sendVars, crashed>>

MayFail(m) == (IF m = "record" THEN "database" ELSE "send") \in Faults

\* SendResult, SendCompletion, StoreActivation: each in its goroutine.  One
\* that fails is logged, and not tried again.
Send(a) ==
  /\ Up
  /\ \E m \in sending[a] :
       /\ sending' = [sending EXCEPT ![a] = @ \ {m}]
       /\ \/ sent' = [sent EXCEPT ![a] = @ \cup {m}]
          \/ MayFail(m) /\ UNCHANGED sent
  /\ UNCHANGED <<pullVars, cacheVars, stage, given, doc, errVars, crashed>>

-----------------------------------------------------------------------------
Consume(a) == CacheContains(a) \/ Get(a) \/ Fetch(a) \/ Add(a) \/ Run(a) \/ Return(a) \/ Check(a)

Next ==
  \/ GetActivation \/ Dispatch \/ Stop \/ Exit
  \/ \E a \in Activations : Invoke(a) \/ Consume(a) \/ Send(a)
  \/ \E f \in Functions : Update(f)

Spec == Init /\ [][Next]_vars

\* Every goroutine is scheduled.
Fairness ==
  /\ WF_vars(GetActivation) /\ WF_vars(Dispatch)
  /\ \A a \in Activations : WF_vars(Consume(a)) /\ WF_vars(Send(a))

FairSpec == Spec /\ Fairness

-----------------------------------------------------------------------------
(* Properties.                                                             *)

\* Nothing but an attachment that is too short (types.go:156) makes a goroutine
\* panic (function_storage.go:63).
NeverPanics ==
  crashed => \E a \in Activations : stage[a] = "run" /\ CodeString(fn[a]) = "panic"

\* GetFunction does not, as long as the cache has room for all the functions in
\* use, or activations come one at a time (function_storage.go:63).
NoPanicWithRoom ==
  Cardinality(Functions) <= CacheSize \/ InFlight = 1 => NeverPanics

\* An activation that failed, or whose function has no code that can be read
\* (types.go:136), has no answer, not even a completion, and one that has returned without
\* an error has all of its answers, sent, on their way, or lost by a failure
\* of the queue or of the record store (main.go:160).
AnswersAgree ==
  \A a \in Activations :
    /\ a \in failed \/ CodeString(fn[a]) # "code" => sent[a] = {} /\ sending[a] = {}
    /\ stage[a] \in {"check", "done"} /\ a \notin failed =>
         \A m \in Answers(a) : m \in sent[a] \cup sending[a] \/ MayFail(m)

\* The goroutines share err (main.go:129): an activation whose error is not
\* logged has had it replaced by the outcome of one that returned between its
\* return and its look at err, and nothing but errors is logged.
FailureIsLogged ==
  /\ logged \subseteq failed
  /\ \A a \in failed : stage[a] = "done" => a \in logged \cup overwritten

=============================================================================
