----------------------------- MODULE MCInvoker ------------------------------
(***************************************************************************)
(* Invoker for TLC, in several settings, and the message provider below    *)
(* it.  In an execution one of the two runs and the other is at rest.      *)
(*                                                                         *)
(* "answers": activations beside each other, that may fail to run, or hang *)
(* "faults": the same, and everything else may fail too; the code of one   *)
(*        function is shorter than its prefix                              *)
(* "one": one activation at a time, a cache for one function, and updates  *)
(*        of the functions, one a Java archive and one without code        *)
(* "provider": the provider, with messages and Close beside each other     *)
(* and, in a run of its own,                                               *)
(* "evicts": activations beside each other, a cache for one function       *)
(***************************************************************************)
EXTENDS Invoker

CONSTANTS
  Third,                                   \* one of the activations
  Odd,                                     \* one of the functions
  Senders, Completed, Health               \* of MessageProvider

VARIABLES
  scenario,    \* fixed at the start
  \* of MessageProvider
  conn, ensured, writers, made, closed, written, storing, beside, late, pc, topic, mine, pinger,
  pulling, reader, brokerQueue, pulled, life, raced

Coded(c) == [f \in Functions |-> c]

Answering == [code |-> Coded("text"), java |-> {}, cacheSize |-> 2, inFlight |-> 2,
              faults |-> {"run", "hang"}]

Failing == [code |-> [Coded("base64") EXCEPT ![Odd] = "short"], java |-> {},
            cacheSize |-> 2, inFlight |-> 2, faults |-> FaultKinds]

OneByOne == [code |-> Coded("base64url"), java |-> Functions \ {Odd},
             cacheSize |-> 1, inFlight |-> 1, faults |-> {"database", "run", "send"}]

Evicting == [code |-> Coded("text"), java |-> {}, cacheSize |-> 1, inFlight |-> 3,
             faults |-> {}]

MCSettings == {Answering, Failing, OneByOne, Evicting}

Provider == INSTANCE MessageProvider WITH
              Activations <- 2, queue <- brokerQueue, crashed <- raced

ASSUME ScenarioAssumption ==
  /\ Third \in Activations /\ Odd \in Functions
  /\ InvokerAssumption
  /\ Provider!MessageProviderAssumption

providerVars == <<conn, ensured, writers, made, closed, written, storing, beside, late, pc, topic,
                  mine, pinger, pulling, reader, brokerQueue, pulled, life, raced>>
mcVars == <<scenario, vars, providerVars>>

Given(s) ==
  CASE s = "faults" -> Failing
    [] s = "one"    -> OneByOne
    [] s = "evicts" -> Evicting
    [] OTHER        -> Answering

MCInit ==
  /\ scenario \in {"answers", "faults", "one", "provider"}
  /\ Init /\ setting = Given(scenario)
  /\ Provider!Init
  /\ scenario = "provider" => fn = [a \in Activations |-> Odd]

\* No function is updated.
AnswersNext ==
  scenario \in {"answers", "evicts"} /\ Next /\ UNCHANGED <<scenario, db, providerVars>>

\* The same, and one activation less.
FaultsNext ==
  scenario = "faults" /\ Next /\ stage'[Third] = "new" /\ UNCHANGED <<scenario, db, providerVars>>

\* One activation less.
OneNext ==
  scenario = "one" /\ Next /\ stage'[Third] = "new" /\ UNCHANGED <<scenario, providerVars>>

ProviderNext == scenario = "provider" /\ Provider!Next /\ UNCHANGED <<scenario, vars>>

MCNext == AnswersNext \/ FaultsNext \/ OneNext \/ ProviderNext

MCSpec == MCInit /\ [][MCNext]_mcVars

EvictsInit ==
  /\ scenario = "evicts"
  /\ Init /\ setting = Given(scenario)
  /\ Provider!Init

EvictsSpec == EvictsInit /\ [][MCNext]_mcVars

\* The fairness of Invoker and of MessageProvider, for the scenarios whose
\* properties need it.
Invoked(A)  == scenario = "answers" /\ A /\ UNCHANGED <<scenario, providerVars>>
Provided(A) == scenario = "provider" /\ A /\ UNCHANGED <<scenario, vars>>

MCFairness ==
  /\ WF_mcVars(Invoked(GetActivation))
  /\ WF_mcVars(Invoked(Dispatch))
  /\ \A a \in Activations : WF_mcVars(Invoked(Consume(a))) /\ WF_mcVars(Invoked(Send(a)))
  /\ WF_mcVars(Provided(Provider!Wake))
  /\ WF_mcVars(Provided(Provider!StopPings))

MCFairSpec == MCSpec /\ MCFairness

-----------------------------------------------------------------------------
(* NoPanicWithRoom and FailureIsLogged of Invoker are checked in every     *)
(* setting; the properties here add the types, and those of the provider.  *)

\* Every variable of Invoker has its type, and an activation that failed, or
\* whose function has no code that can be read (types.go:136), has no answer,
\* not even a completion, and one that has returned without an error has all of
\* its answers, sent, on their way, or lost by a failure of the queue or of the
\* record store (main.go:160).
TypedAnswersAgree == TypeOK /\ AnswersAgree

\* Every activation in the queue is answered, or found to have failed, after
\* which nobody answers it, or is left in workers.Run, unless the invoker stops
\* (main.go:129, :160, :180): those beside it, hanging or failing, keep none
\* from getting there.
EveryActivationSettled ==
  \A a \in Activations :
    scenario = "answers" /\ stage[a] = "queued" ~>
      \/ scenario # "answers"
      \/ "completion" \in sent[a]
      \/ stage[a] = "done" /\ a \in failed
      \/ stage[a] = "hung"
      \/ main # "select"

\* A topic gets a second writer only from a sender that found none before the
\* other's was stored (provider.go:66-70), and Close leaves a writer open only
\* if another took its place in the map, or it was stored when Close had come
\* to the writers (provider.go:92), however senders and Close overlap.
OneWriter == Provider!OneWriter /\ Provider!WritersClosed

\* Whatever writer a sender finds or makes, a message reaches no topic but its
\* own, and one that its sender takes for sent has reached it, however sends
\* and Close overlap (provider.go:66-77).
SentToTopic == Provider!TypeOK /\ Provider!SentToTopic

\* main's send to the loop of the pings is received: closing goes on
\* (messenger.go:104).
CloseReturns ==
  scenario = "provider" /\ life = "health" ~> life # "health" \/ raced

=============================================================================
