SPECIFICATION MCFairSpec
CONSTANTS
  Tasks = {t1, t2, t3}
  Main = t1
  None = None
  Callers = {c1}
  Operations = {"activate", "checkpoint", "restore", "detach", "stop",
                "continue"}
  Behaviours = {"strace"}
INVARIANTS SlotHonest StoppedWhileWorking NobodyLeftBehind
PROPERTIES OperationsReturn AwaitSignalContinues
CHECK_DEADLOCK FALSE
