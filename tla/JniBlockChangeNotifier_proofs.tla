--------------------- MODULE JniBlockChangeNotifier_proofs ---------------------
(***************************************************************************)
(* The notifier never exhausts a thread's local references, for any set of *)
(* threads, any number of notifications and any answer of the JVM, as     *)
(* long as the JVM guarantees the two local references the constructor     *)
(* leaks (the JNI specification guarantees sixteen).                       *)
(***************************************************************************)
EXTENDS JniBlockChangeNotifier, TLAPS

USE NotifierAssumption

\* The constructor leaves at most two local references behind on its thread,
\* and notifyBlock deletes the one it creates.
LocalRefsLeaked ==
    /\ localRefs \in [Threads -> 0 .. 2]
    /\ notifier = "unregistered" => \A u \in Threads : localRefs[u] = 0

LEMMA LeakInit == Init => TypeOK /\ LocalRefsLeaked
<1> SUFFICES ASSUME Init PROVE TypeOK /\ LocalRefsLeaked
  OBVIOUS
<1>1. TypeOK
  <2>1. notifier \in {"unregistered", "live", "destroyed"}
    BY DEF Init
  <2>2. pending \in [Threads -> BOOLEAN] /\ illegal \in BOOLEAN
        /\ classBlockView \in BOOLEAN
    BY DEF Init
  <2>3. localRefs \in [Threads -> Nat] /\ notified \in 0 .. MaxNotifications
    BY DEF Init
  <2>4. attached \subseteq Threads
        /\ globalRefs \subseteq {"classObserver", "classBlockView"}
    BY DEF Init
  <2>5. QED BY <2>1, <2>2, <2>3, <2>4 DEF TypeOK
<1>2. localRefs \in [Threads -> 0 .. 2]
  BY DEF Init
<1>3. notifier = "unregistered" => \A u \in Threads : localRefs[u] = 0
  BY DEF Init
<1>4. QED BY <1>1, <1>2, <1>3 DEF LocalRefsLeaked

LEMMA LeakStep ==
    TypeOK /\ LocalRefsLeaked /\ [Next]_vars => TypeOK' /\ LocalRefsLeaked'
<1> SUFFICES ASSUME TypeOK, LocalRefsLeaked, [Next]_vars
             PROVE  TypeOK' /\ LocalRefsLeaked'
  OBVIOUS
<1>1. ASSUME NEW t \in Threads, RegisterExtension(t)
      PROVE  TypeOK' /\ LocalRefsLeaked'
  <2>1. PICK found \in ClassOutcomes : BlockChangeNotifier(t, found)
    BY <1>1 DEF RegisterExtension
  <2>2. found \in BOOLEAN
    BY DEF ClassOutcomes
  <2>3. localRefs[t] = 0
    BY <1>1 DEF RegisterExtension, LocalRefsLeaked
  <2>4. QED
    BY <1>1, <2>1, <2>2, <2>3
    DEF RegisterExtension, BlockChangeNotifier, TypeOK, LocalRefsLeaked
<1>2. ASSUME NEW t \in Threads, NotifyBlock(t)
      PROVE  TypeOK' /\ LocalRefsLeaked'
  <2>1. PICK throws \in ThrowOutcomes : pending' = [pending EXCEPT ![t] = @ \/ throws]
    BY <1>2 DEF NotifyBlock
  <2>2. throws \in BOOLEAN
    BY DEF ThrowOutcomes
  <2>3. QED
    BY <1>2, <2>1, <2>2 DEF NotifyBlock, TypeOK, LocalRefsLeaked
<1>3. ASSUME NEW t \in Threads, Destroy(t)
      PROVE  TypeOK' /\ LocalRefsLeaked'
  BY <1>3 DEF Destroy, TypeOK, LocalRefsLeaked
<1>4. CASE UNCHANGED vars
  BY <1>4 DEF vars, TypeOK, LocalRefsLeaked
<1>5. QED BY <1>1, <1>2, <1>3, <1>4 DEF Next

\* notifyBlock never leaks a local reference on the natively attached,
\* never detached, threads it runs on: LocalRefsWithinCapacity holds for
\* every set of threads and every number of notifications.
THEOREM LocalRefsBounded ==
    ASSUME LocalCapacity >= 2
    PROVE  Spec => []LocalRefsWithinCapacity
<1>1. TypeOK /\ LocalRefsLeaked => LocalRefsWithinCapacity
  <2> SUFFICES ASSUME localRefs \in [Threads -> 0 .. 2]
               PROVE  LocalRefsWithinCapacity
    BY DEF LocalRefsLeaked
  <2> QED BY DEF LocalRefsWithinCapacity
<1>2. QED
  BY <1>1, LeakInit, LeakStep, PTL DEF Spec

\* Whatever the JVM answers and however the threads interleave the
\* constructor, notifyBlock and the destructor, every variable of the
\* notifier and of each thread's JNI state stays in its set: in particular
\* notifyBlock never delivers more than MaxNotifications blocks, and no
\* thread's count of local references goes below zero (notifyBlock deletes
\* only the reference it created).
THEOREM NotifierTypeCorrect == Spec => []TypeOK
<1>1. TypeOK /\ LocalRefsLeaked => TypeOK
  OBVIOUS
<1>2. QED
  BY <1>1, LeakInit, LeakStep, PTL DEF Spec

=============================================================================
