\* Two native threads, fifteen notifications, any answer of the JVM.
CONSTANTS
    Threads = {t1, t2}
    ObserverMayThrow = TRUE
    ClassMayBeMissing = TRUE
    LocalCapacity <- MCLocalCapacity
    MaxNotifications <- MCMaxNotifications

SPECIFICATION Spec

INVARIANT TypeOK
INVARIANT LocalRefsWithinCapacity

\* The notifier is destroyed at shutdown, after which no handler runs.
CHECK_DEADLOCK FALSE
