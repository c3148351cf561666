---------------------------- MODULE MCUsbEvents ----------------------------
(* What threads that share a libusb context meet while they wait, for TLC. *)
(* One run has three parts, in each of which the variables of the others   *)
(* are at rest:                                                            *)
(*   "three"   UsbEvents with three threads;                               *)
(*   "pair"    UsbEvents with two of them, and wakeups for no reason;      *)
(*   "timers"  UsbTimers.                                                  *)
EXTENDS UsbEvents, UsbDeadlines

CONSTANTS t1, t2, t3

VARIABLE part

timing == <<list, left, expired, timer, useTimer, wait>>

Three == INSTANCE UsbEvents WITH MaxWakes <- 0
Timers == INSTANCE UsbTimers

In(p) == part = p
Only(users) == pc = [t \in Threads |-> IF t \in users THEN "open" ELSE "done"]

MCInit ==
  /\ Idle /\ Timers!Init
  /\ \/ In("three") /\ Only(Threads) /\ useTimer
     \/ In("pair") /\ Only({t1, t2}) /\ useTimer
     \/ In("timers") /\ Only({})
MCNext ==
  /\ \/ In("three") /\ Three!Next /\ UNCHANGED timing
     \/ In("pair") /\ Next /\ UNCHANGED timing
     \/ In("timers") /\ Timers!Next /\ UNCHANGED vars
  /\ UNCHANGED part
\* The fairness of both, which asks nothing of variables at rest.
MCFairness ==
  /\ \A t \in Threads : /\ WF_vars(~In("timers") /\ Step(t))
                        /\ WF_vars(~In("timers") /\ Complete(t))
  /\ WF_timing(In("timers") /\ Timers!Trigger) /\ WF_timing(In("timers") /\ Timers!Look)
  /\ WF_timing(In("timers") /\ Timers!Waited) /\ WF_timing(In("timers") /\ Timers!Tick)
  /\ \A t \in Threads :
       WF_timing(In("timers") /\ t \in expired /\ Timers!Leave(t))
MCSpec == MCInit /\ [][MCNext]_<<part, vars, timing>> /\ MCFairness

\* UsbTimers!TimeoutsCome: every deadline that passes is handled.
TimeoutsCome == Timers!TimeoutsCome
=============================================================================
