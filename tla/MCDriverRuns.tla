---------------------------- MODULE MCDriverRuns ----------------------------
(* Three instances of Driver for TLC, on the same variables:               *)
(*   "changes"  a run in which the user changes stage or profile up to     *)
(*              twice;                                                     *)
(*   "killed"   two runs, of which the first may be killed, with one       *)
(*              change;                                                    *)
(*   "late"     two runs without changes on a link that holds more, where  *)
(*              the program's thread is scheduled.                         *)
EXTENDS MCDriver

VARIABLE part

Changes == INSTANCE Driver WITH MaxRuns <- 1, LinkCap <- 2
Killings == INSTANCE Driver WITH
  Stored <- {AllA}, ReadAttempts <- 1, MaxChanges <- 1, LinkCap <- 2
Late == INSTANCE Driver WITH Words <- {a}, Stored <- {AllA}, MaxChanges <- 0

In(p) == part = p
MCInit == \/ In("changes") /\ Changes!Init
          \/ In("killed") /\ Killings!Init
          \/ In("late") /\ Late!Init
MCNext == /\ \/ In("changes") /\ Changes!Next
             \/ In("killed") /\ Killings!Next
             \/ In("late") /\ Late!Next
          /\ UNCHANGED part
MCSpec == MCInit /\ [][MCNext]_<<vars, part>> /\ WF_vars(In("late") /\ Late!Run)

\* Where the thread is scheduled, a run that has begun ends, whatever the
\* mouse does and however late its replies are.
LateRunsEnd == In("late") /\ pc # "idle" ~> pc = "idle"
=============================================================================
