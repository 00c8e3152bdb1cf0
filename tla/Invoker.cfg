SPECIFICATION MCFairSpec
CONSTANTS
  Activations = {a1, a2, a3}
  Third = a3
  Blocking = {a1}
  Functions = {f1, f2}
  Odd = f2
  Versions = 2
  Settings <- MCSettings
  Senders = {s1, s2}
  Completed = {completed0}
  Health = health
  None = None
INVARIANTS NoPanicWithRoom TypedAnswersAgree FailureIsLogged OneWriter SentToTopic
PROPERTIES EveryActivationSettled CloseReturns
CHECK_DEADLOCK FALSE
