SPECIFICATION LifeSpec
CONSTANTS
    Targets = {t1, t2}
    Contents = {x, y}
    Calls = {c1, c2}
    MaxStamp = 2
    None = None
    Commands = {k1, k2}
    Invocations <- InvocationsThere
    Forms = {"serve", "wheel", "command", "bookmark"}
    MaxSignals = 2
INVARIANTS ServesWhatItNamed StopLeavesNothing AnswerIsOnDisk
PROPERTY StopsReturn
CHECK_DEADLOCK FALSE
