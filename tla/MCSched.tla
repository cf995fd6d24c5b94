------------------------------ MODULE MCSched ------------------------------
(* Values for Sched: two processes and three threads, so that the thread   *)
(* tables fill up and both wrap-arounds of find_idle happen.               *)
EXTENDS Sched

\* The stack of a new thread only.
MCMayFailStack == {"stack"}

=============================================================================
