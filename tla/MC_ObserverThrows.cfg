\* The Java observer throws from its notify method.
CONSTANTS
    Threads = {t1, t2}
    ObserverMayThrow = TRUE
    ClassMayBeMissing = FALSE
    LocalCapacity <- MCLocalCapacity
    MaxNotifications <- MCMaxNotifications

SPECIFICATION Spec

INVARIANT JniCallsLegal

\* The notifier is destroyed at shutdown, after which no handler runs.
CHECK_DEADLOCK FALSE
