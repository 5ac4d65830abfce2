CONSTANTS
    Execs = {e1, e2, e3}
    Closers = {c1, c2}
    WithDeadline = {c1}
SPECIFICATION FairSpec
INVARIANTS TypeOK NoWorkAfterDrain NoLostWakeup
PROPERTIES ImplementsQuiescence DrainCompletes DeadlineHonoured
