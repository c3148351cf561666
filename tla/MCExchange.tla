----------------------------- MODULE MCExchange -----------------------------
(* Two instances of Exchange for TLC, on the same variables.  In one the    *)
(* drain empties the queue, which is what the promise about answers needs;  *)
(* in the other a queued report may outlive it, and libusb's event handling *)
(* does not fail.                                                           *)
EXTENDS Exchange

VARIABLE misses

Missing == INSTANCE Exchange WITH PollMisses <- TRUE, MaxEventErrors <- 0, Timeout <- 2
Draining == INSTANCE Exchange WITH PollMisses <- FALSE

MCInit == misses \in BOOLEAN /\ Init
MCNext == /\ (misses /\ Missing!Next) \/ (~misses /\ Draining!Next)
          /\ UNCHANGED misses
Either(A, B) == (misses /\ A) \/ (~misses /\ B)
MCFairness ==
  /\ WF_vars(Either(Missing!Thread, Draining!Thread))
  /\ WF_vars(Either(Missing!Control, Draining!Control))
  /\ WF_vars(Either(Missing!TimerFires, Draining!TimerFires))
  /\ WF_vars(Either(Missing!HandleEvents, Draining!HandleEvents))
  /\ WF_vars(Either(Missing!Tick, Draining!Tick))
MCSpec == MCInit /\ [][MCNext]_<<vars, misses>> /\ MCFairness
=============================================================================
