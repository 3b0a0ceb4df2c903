------------------------ MODULE JniBlockChangeNotifier ------------------------
(***************************************************************************)
(* The JNI block change notifier (extensions/jninotification): a block     *)
(* change subscriber that, for every block, builds a Java BlockView object *)
(* and calls the observer's notify method.  What is modelled is its use of *)
(* the JNI protocol: which threads are attached, the Java exception        *)
(* pending on each thread's JNIEnv, the local references each thread holds *)
(* (a natively attached thread that is never detached frees them only by   *)
(* DeleteLocalRef), and the two global class references.  Block fields,    *)
(* method names and signatures are data the properties do not tell apart. *)
(***************************************************************************)
EXTENDS Naturals

CONSTANTS
    Threads,            \* native threads that call into the notifier
    ObserverMayThrow,   \* the Java notify method may throw
    ClassMayBeMissing,  \* FindClass(BlockViewClassPath) may fail
    LocalCapacity,      \* local references the JVM guarantees a thread
    MaxNotifications    \* bound on the notifications delivered

ASSUME NotifierAssumption ==
    /\ Threads # {}
    /\ {ObserverMayThrow, ClassMayBeMissing} \subseteq BOOLEAN
    /\ LocalCapacity \in Nat /\ MaxNotifications \in Nat

VARIABLES
    notifier,        \* the subscriber object: unregistered, live or destroyed
    attached,        \* threads AttachCurrentThread attached (never detached)
    pending,         \* pending[t]: a Java exception is pending on t's JNIEnv
    localRefs,       \* localRefs[t]: local references t holds
    globalRefs,      \* the global references the notifier holds
    classBlockView,  \* m_classBlockView is a class (FALSE: it is null)
    notified,        \* notifications delivered so far
    illegal          \* history: a JNI call was made with an exception
                     \* pending, or on a null class

vars == <<notifier, attached, pending, localRefs, globalRefs, classBlockView,
          notified, illegal>>

\* What the JVM may answer: whether FindClass finds the BlockView class, and
\* whether the observer's notify method throws.
ClassOutcomes == IF ClassMayBeMissing THEN BOOLEAN ELSE {TRUE}
ThrowOutcomes == IF ObserverMayThrow THEN BOOLEAN ELSE {FALSE}

Init ==
    /\ notifier = "unregistered"
    /\ attached = {}
    /\ pending = [t \in Threads |-> FALSE]
    /\ localRefs = [t \in Threads |-> 0]
    /\ globalRefs = {}
    /\ classBlockView = FALSE
    /\ notified = 0
    /\ illegal = FALSE

\* The constructor, on thread t, when FindClass finds the BlockView class
\* or not: attach; GetObjectClass and FindClass each return a local
\* reference that is never deleted; NewGlobalRef pins both classes.  When
\* FindClass fails it returns null with NoClassDefFoundError pending, and
\* NewGlobalRef(null) is then called with that exception pending.
BlockChangeNotifier(t, found) ==
    /\ attached' = attached \cup {t}
    /\ localRefs' = [localRefs EXCEPT ![t] = @ + (IF found THEN 2 ELSE 1)]
    /\ pending' = [pending EXCEPT ![t] = @ \/ ~found]
    /\ globalRefs' = IF found THEN {"classObserver", "classBlockView"}
                              ELSE {"classObserver"}
    /\ classBlockView' = found
    /\ illegal' = (illegal \/ pending[t] \/ ~found)

\* RegisterExtension, on the bootstrapping thread t, creates the notifier
\* (CreateBlockChangeNotifier) and subscribes it to block changes.
RegisterExtension(t) ==
    /\ notifier = "unregistered"
    /\ \E found \in ClassOutcomes : BlockChangeNotifier(t, found)
    /\ notifier' = "live"
    /\ UNCHANGED notified

\* Seeded faults for NotifyBlock: blockView is never deleted; a local
\* reference it did not create is deleted as well.
NotifyBlockKeepsBlockView(t) ==
    /\ notifier = "live"
    /\ notified < MaxNotifications
    /\ \E throws \in ThrowOutcomes :
          pending' = [pending EXCEPT ![t] = @ \/ throws]
    /\ attached' = attached \cup {t}
    /\ illegal' = (illegal \/ pending[t] \/ ~classBlockView)
    /\ localRefs' = [localRefs EXCEPT ![t] = @ + 1]
    /\ notified' = notified + 1
    /\ UNCHANGED <<notifier, globalRefs, classBlockView>>

NotifyBlockDeletesTwice(t) ==
    /\ notifier = "live"
    /\ notified < MaxNotifications
    /\ \E throws \in ThrowOutcomes :
          pending' = [pending EXCEPT ![t] = @ \/ throws]
    /\ attached' = attached \cup {t}
    /\ illegal' = (illegal \/ pending[t] \/ ~classBlockView)
    /\ localRefs' = [localRefs EXCEPT ![t] = (@ + 1) - 2]
    /\ notified' = notified + 1
    /\ UNCHANGED <<notifier, globalRefs, classBlockView>>

\* notifyBlock on thread t: attach; GetMethodID and NewObject on
\* m_classBlockView (a new local reference); writeBlockView's five
\* GetFieldID/Set*Field calls; GetMethodID on the observer class;
\* CallVoidMethod, after which no exception check is made; DeleteLocalRef.
\* Every call but the last needs no exception pending and a non-null class.
NotifyBlock(t) ==
    /\ notifier = "live"
    /\ notified < MaxNotifications
    /\ \E throws \in ThrowOutcomes :
          pending' = [pending EXCEPT ![t] = @ \/ throws]
    /\ attached' = attached \cup {t}
    /\ illegal' = (illegal \/ pending[t] \/ ~classBlockView)
    \* NewObject creates blockView, DeleteLocalRef frees it.
    /\ localRefs' = [localRefs EXCEPT ![t] = (@ + 1) - 1]
    /\ notified' = notified + 1
    /\ UNCHANGED <<notifier, globalRefs, classBlockView>>

\* The destructor on thread t: attach, then DeleteGlobalRef on both classes
\* (allowed with an exception pending; deleting null is a no-op).
Destroy(t) ==
    /\ notifier = "live"
    /\ attached' = attached \cup {t}
    /\ globalRefs' = {}
    /\ notifier' = "destroyed"
    /\ UNCHANGED <<pending, localRefs, classBlockView, notified, illegal>>

\* notifyDropBlocksAfter does nothing, so it is a stuttering step.
Next == \E t \in Threads : RegisterExtension(t) \/ NotifyBlock(t) \/ Destroy(t)

Spec == Init /\ [][Next]_vars

-----------------------------------------------------------------------------

\* Every variable of the notifier and of the threads' JNI state stays in its
\* set.
TypeOK ==
    /\ notifier \in {"unregistered", "live", "destroyed"}
    /\ attached \subseteq Threads
    /\ pending \in [Threads -> BOOLEAN]
    /\ localRefs \in [Threads -> Nat]
    /\ globalRefs \subseteq {"classObserver", "classBlockView"}
    /\ classBlockView \in BOOLEAN
    /\ notified \in 0 .. MaxNotifications
    /\ illegal \in BOOLEAN

\* A thread attached with AttachCurrentThread and never detached frees a
\* local reference only by DeleteLocalRef, and the JVM guarantees it only
\* LocalCapacity of them: however many blocks notifyBlock delivers, on
\* whichever threads, no thread ever holds more.
LocalRefsWithinCapacity == \A t \in Threads : localRefs[t] <= LocalCapacity

\* The JNI contract the notifier relies on: no JNI function other than the
\* exception and reference-freeing ones is called while an exception is
\* pending on the calling thread, nor with a null class - across any
\* number of notifications, whatever the observer does.
JniCallsLegal == ~illegal

=============================================================================
