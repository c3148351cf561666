----------------------------- MODULE UsbTimers -----------------------------
(***************************************************************************)
(* When libusb's timeouts come: the list of flying transfers, sorted by    *)
(* deadline, and the one timer that is armed for it (libusb/io.c).  Where  *)
(* there is no timer descriptor, whoever handles events waits no longer    *)
(* than the next deadline instead.  Every operation holds                  *)
(* flying_transfers_lock from beginning to end.                            *)
(***************************************************************************)
EXTENDS UsbDeadlines

vars == <<list, left, expired, timer, useTimer, wait>>

Init ==
  /\ list = <<>> /\ left = [t \in Transfers |-> Forever] /\ expired = {}
  /\ timer = Off /\ useTimer \in BOOLEAN /\ wait = Off

Later(d, n) == ~IsSet(d) \/ d > n

\* Where a walk along the list stops: at the first of these positions, or at
\* the end.
FirstOf(stops) == Min(stops \cup {Len(list) + 1})

-----------------------------------------------------------------------------
\* Mutants, here and below: a plausible slip in the definition that follows.
AtTheEnd(n) == Len(list) + 1
\* add_to_flying_list: before the first transfer with a later deadline.  The
\* timer is armed only for a transfer that becomes the first.
PlaceFor(n) ==
  IF n = Forever THEN Len(list) + 1 ELSE FirstOf({k \in DOMAIN list : Later(left[list[k]], n)})

Add(t) ==
  /\ t \notin Flying
  /\ \E n \in Timeouts \cup {Forever} :
       /\ list' = InsertAt(list, PlaceFor(n), t)
       /\ left' = [left EXCEPT ![t] = n]
       /\ timer' = IF useTimer /\ n # Forever /\ list'[1] = t THEN n ELSE timer
  /\ expired' = expired \ {t}
  /\ UNCHANGED <<useTimer, wait>>

\* arm_timer_for_next_timeout, for a list l of which the transfers of e have
\* been dealt with: the first that has not, if it has a deadline at all.
NextDeadline(l, e) ==
  LET stops == {k \in DOMAIN l : ~IsSet(left[l[k]]) \/ l[k] \notin e}
      first == l[Min(stops)]
  IN  IF stops # {} /\ IsSet(left[first]) THEN left[first] ELSE Off

\* remove_from_flying_list, when a transfer has completed or was refused.
RearmNever(t) == FALSE
Rearm(t) == useTimer /\ IsSet(left[t]) /\ list[1] = t
Leave(t) ==
  /\ \E k \in DOMAIN list : list[k] = t /\ list' = RemoveAt(list, k)
  /\ timer' = IF Rearm(t) THEN NextDeadline(list', expired) ELSE timer
  /\ left' = [left EXCEPT ![t] = Forever] /\ expired' = expired \ {t}
  /\ UNCHANGED <<useTimer, wait>>

\* handle_timeouts_locked: it stops at the first transfer that has no deadline,
\* or whose deadline is still to come.
Handled ==
  LET Stops(t) == ~IsSet(left[t]) \/ (t \notin expired /\ left[t] > 0)
  IN  expired \cup ToSet(SubSeq(list, 1, FirstOf({k \in DOMAIN list : Stops(list[k])}) - 1))

\* handle_timer_trigger.
Trigger ==
  /\ useTimer /\ timer = 0
  /\ expired' = Handled /\ timer' = NextDeadline(list, Handled)
  /\ UNCHANGED <<list, left, useTimer, wait>>

\* Without a timer: get_next_timeout, by a thread about to poll or to wait for
\* the one that polls.  A deadline that has passed is handled at once.
Look ==
  /\ ~useTimer /\ wait = Off
  /\ LET next == NextDeadline(list, expired) IN
       IF next = 0 THEN expired' = Handled /\ UNCHANGED wait
       ELSE /\ wait' = IF next # Off /\ next < Patience THEN next ELSE Patience
            /\ UNCHANGED expired
  /\ UNCHANGED <<list, left, timer, useTimer>>
Waited ==
  /\ wait = 0 /\ wait' = Off /\ expired' = Handled
  /\ UNCHANGED <<list, left, timer, useTimer>>
Woken ==
  /\ wait # Off /\ wait' = Off
  /\ UNCHANGED <<list, left, expired, timer, useTimer>>

Down(d) == IF d \in Nat /\ d > 0 THEN d - 1 ELSE d
Tick ==
  /\ left' = [t \in Transfers |-> Down(left[t])]
  /\ timer' = Down(timer) /\ wait' = Down(wait)
  /\ UNCHANGED <<list, expired, useTimer>>

Next ==
  \/ \E t \in Transfers : Add(t) \/ Leave(t)
  \/ Trigger \/ Look \/ Waited \/ Woken \/ Tick

\* Someone handles events, time passes, and a transfer whose timeout has been
\* handled comes back (UsbTransfer).
Fairness ==
  /\ WF_vars(Trigger) /\ WF_vars(Look) /\ WF_vars(Waited) /\ WF_vars(Tick)
  /\ \A t \in Transfers : WF_vars(t \in expired /\ Leave(t))

Spec == Init /\ [][Next]_vars /\ Fairness

-----------------------------------------------------------------------------
(* Properties, beside TimerCovers. *)

\* Every deadline that passes is handled, or the transfer is gone before; with
\* a timer, and without one whoever waits.
TimeoutsCome ==
  \A t \in Transfers : t \in Flying /\ left[t] = 0 ~> t \notin Flying \/ t \in expired

=============================================================================
