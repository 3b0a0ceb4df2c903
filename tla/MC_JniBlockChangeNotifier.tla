--------------------- MODULE MC_JniBlockChangeNotifier ---------------------
(***************************************************************************)
(* The notifier for TLC.  The JVM guarantees a thread sixteen local        *)
(* references; fifteen notifications on one thread are enough for a leak   *)
(* of one reference per notification, on top of the two the constructor    *)
(* leaves, to exceed them.                                                  *)
(***************************************************************************)
EXTENDS JniBlockChangeNotifier

MCLocalCapacity == 16
MCMaxNotifications == 15

=============================================================================
