\* The BlockView class configured for the extension cannot be found.
CONSTANTS
    Threads = {t1, t2}
    ObserverMayThrow = FALSE
    ClassMayBeMissing = TRUE
    LocalCapacity <- MCLocalCapacity
    MaxNotifications <- MCMaxNotifications

SPECIFICATION Spec

INVARIANT JniCallsLegal

\* The notifier is destroyed at shutdown, after which no handler runs.
CHECK_DEADLOCK FALSE
