---------------------------- MODULE UsbDeadlines ----------------------------
(* What libusb keeps of its transfers' deadlines, counted in ticks, and     *)
(* what its timer has to do with them.  UsbTimers has the operations.       *)
EXTENDS Naturals, Sequences, SequencesExt

CONSTANTS
  Transfers,
  Timeouts,  \* that a transfer may be submitted with, beside none
  Patience,  \* how long the caller of the event handling waits
  Forever,   \* the deadline of a transfer without a timeout
  Off        \* what an idle timer shows

ASSUME DeadlinesAssumption ==
  /\ Timeouts \subseteq Nat \ {0} /\ Patience \in Nat \ {0}
  /\ Forever \notin Nat /\ Off \notin Nat

VARIABLES
  list,     \* flying_transfers
  left,     \* ticks until the deadline of a transfer, 0 when it has passed
  expired,  \* transfers whose timeout has been handled
  timer,    \* ticks until the timer fires, or Off
  useTimer, \* a timer descriptor could be created
  wait      \* ticks a thread goes on polling, without a timer; or Off

Flying == ToSet(list)
IsSet(d) == d # Forever

\* Types; no transfer is listed twice, and none has timed out that is not listed.
DeadlinesOK ==
  /\ \A k, l \in DOMAIN list : list[k] = list[l] => k = l
  /\ Flying \subseteq Transfers /\ expired \subseteq Flying
  /\ left \in [Transfers -> Nat \cup {Forever}]
  /\ timer \in Nat \cup {Off} /\ wait \in 0..Patience \cup {Off}
  /\ useTimer \in BOOLEAN

\* The timer fires no later than the first deadline that has not been handled.
\* There is one gap: behind a transfer that has timed out and has not come
\* back, which rearms the timer when it does.
TimerCovers ==
  /\ DeadlinesOK
  /\ useTimer =>
       \A t \in Flying \ expired :
         \/ ~IsSet(left[t]) \/ list[1] \in expired
         \/ timer # Off /\ timer <= left[t]
=============================================================================
