----------------------------- MODULE UsbEvents -----------------------------
(***************************************************************************)
(* Which thread handles libusb's events (libusb/io.c, core.c, sync.c).     *)
(* Several threads of a program share a context.  Each opens a handle,     *)
(* makes a synchronous transfer and closes the handle.  While it waits, it *)
(* polls for everybody if nobody else does, and otherwise sleeps on a      *)
(* condition variable.  Opening and closing change the set of descriptors  *)
(* that is polled, and interrupt who polls it.                             *)
(*                                                                         *)
(* Waits are bounded by timeouts in the code, 60 seconds for a synchronous *)
(* transfer.  They are left out here: what the properties say must hold    *)
(* without waiting for them.                                               *)
(***************************************************************************)
EXTENDS Naturals, FiniteSets

CONSTANTS
  Threads, Nobody,
  MaxWakes \* bound: wakeups for no reason and interrupts of the one who polls

ASSUME UsbEventsAssumption ==
  IsFiniteSet(Threads) /\ Nobody \notin Threads /\ MaxWakes \in Nat

VARIABLES
  pc,
  eventsLock, waitersLock, \* events_lock, event_waiters_lock: who has them
  active,    \* event_handler_active
  closing,   \* device_close
  eventFlags, signal, \* event_flags, and the descriptor that goes with them
  sources,   \* threads whose handle is among the event sources
  polled,    \* those in the array that is polled
  seen,      \* those that the last poll reported
  pending,   \* threads whose transfer the kernel has
  ready,     \* threads whose transfer the kernel has completed
  completed, \* threads whose callback has run
  asleep,    \* threads in libusb_wait_for_event
  wakes

locks == <<eventsLock, waitersLock, active, closing>>
events == <<eventFlags, signal>>
polling == <<sources, polled, seen>>
transfers == <<pending, ready, completed>>
vars == <<pc, locks, events, polling, transfers, asleep, wakes>>

Idle ==
  /\ eventsLock = Nobody /\ waitersLock = Nobody /\ active = FALSE /\ closing = 0
  /\ eventFlags = {} /\ signal = FALSE
  /\ sources = {} /\ polled = {} /\ seen = {}
  /\ pending = {} /\ ready = {} /\ completed = {} /\ asleep = {} /\ wakes = 0
Init == pc = [t \in Threads |-> "open"] /\ Idle

At(t, here) == pc[t] = here
Go(t, there) == pc' = [pc EXCEPT ![t] = there]

\* Every change of the flags is made under event_data_lock.  The descriptor
\* is signalled with the first flag and cleared with the last.
\* Mutants, here and below: a plausible slip in the definition that follows.
RaiseAgain(f) == eventFlags' = eventFlags \cup {f} /\ signal' = (signal \/ f # "sources")
Raise(f) ==
  eventFlags' = eventFlags \cup {f} /\ signal' = (signal \/ eventFlags = {})
Lower(f) ==
  eventFlags' = eventFlags \ {f} /\ signal' = (signal /\ eventFlags' # {})

-----------------------------------------------------------------------------
(* A thread opens its handle, submits, waits, and closes. *)

\* usbi_add_event_source.
Open(t) ==
  /\ At(t, "open") /\ Go(t, "submit")
  /\ sources' = sources \cup {t} /\ Raise("sources")
  /\ UNCHANGED <<locks, polled, seen, transfers, asleep>>
Submit(t) ==
  /\ At(t, "submit") /\ Go(t, "wait")
  /\ pending' = pending \cup {t}
  /\ UNCHANGED <<locks, events, polling, ready, completed, asleep>>

\* sync_transfer_wait_for_completion, which looks at the flag without a lock,
\* and the first half of libusb_try_lock_events.
Wait(t) ==
  /\ At(t, "wait")
  /\ Go(t, IF t \in completed THEN "close" ELSE IF closing > 0 THEN "join" ELSE "trylock")
  /\ UNCHANGED <<locks, events, polling, transfers, asleep>>
TryLock(t) ==
  /\ At(t, "trylock")
  /\ IF eventsLock = Nobody
     THEN eventsLock' = t /\ Go(t, "locked")
     ELSE Go(t, "join") /\ UNCHANGED eventsLock
  /\ UNCHANGED <<waitersLock, active, closing, events, polling, transfers, asleep>>

\* With the lock, the flag is looked at again.
DoneSeen(t) == FALSE
Done(t) == t \in completed
Locked(t) ==
  /\ At(t, "locked") /\ active' = TRUE
  /\ Go(t, IF Done(t) THEN "unlock" ELSE "prepare")
  /\ UNCHANGED <<eventsLock, waitersLock, closing, events, polling, transfers, asleep>>

\* handle_events: a new array of descriptors if they have changed.
Prepare(t) ==
  /\ At(t, "prepare") /\ Go(t, "poll")
  /\ IF "sources" \in eventFlags
     THEN polled' = sources /\ Lower("sources")
     ELSE UNCHANGED <<polled, events>>
  /\ UNCHANGED <<locks, sources, seen, transfers, asleep>>
Poll(t) ==
  /\ At(t, "poll") /\ (signal \/ polled \cap ready # {})
  /\ seen' = polled \cap ready
  /\ Go(t, IF signal THEN "trigger" ELSE "handle")
  /\ UNCHANGED <<locks, events, sources, polled, transfers, asleep>>
Interrupted(t) ==
  /\ wakes < MaxWakes /\ wakes' = wakes + 1
  /\ At(t, "poll") /\ Go(t, "unlock") /\ seen' = {}
  /\ UNCHANGED <<locks, events, sources, polled, transfers, asleep>>
\* handle_event_trigger.
EventTrigger(t) ==
  /\ At(t, "trigger") /\ Go(t, "handle") /\ Lower("user")
  /\ UNCHANGED <<locks, polling, transfers, asleep>>
\* op_handle_events: a callback is made with the waiters' lock held.
Callback(t) ==
  /\ At(t, "handle") /\ waitersLock = Nobody
  /\ \E u \in seen : seen' = seen \ {u} /\ ready' = ready \ {u}
                     /\ completed' = completed \cup {u}
  /\ UNCHANGED <<pc, locks, events, sources, polled, pending, asleep>>
Finish(t) ==
  /\ At(t, "handle") /\ seen = {} /\ Go(t, "unlock")
  /\ UNCHANGED <<locks, events, polling, transfers, asleep>>

\* libusb_unlock_events, after handling events or after closing.
Unlock(t) ==
  /\ At(t, "unlock") /\ active' = FALSE /\ Go(t, "release")
  /\ UNCHANGED <<eventsLock, waitersLock, closing, events, polling, transfers, asleep>>
Release(t) ==
  /\ At(t, "release") /\ eventsLock' = Nobody /\ Go(t, "broadcast")
  /\ UNCHANGED <<waitersLock, active, closing, events, polling, transfers, asleep>>
Broadcast(t) ==
  /\ At(t, "broadcast") /\ waitersLock = Nobody
  /\ asleep' = {}
  /\ Go(t, IF t \in sources THEN "wait" ELSE "done")
  /\ UNCHANGED <<locks, events, polling, transfers>>

\* Another thread handles events.  libusb_event_handler_active reads two
\* fields, one after the other.
Join(t) ==
  /\ At(t, "join") /\ waitersLock = Nobody /\ waitersLock' = t
  /\ Go(t, "look")
  /\ UNCHANGED <<eventsLock, active, closing, events, polling, transfers, asleep>>
LeaveWaiters(t, there) == waitersLock' = Nobody /\ Go(t, there) /\ UNCHANGED asleep
Sleep(t) == waitersLock' = Nobody /\ Go(t, "asleep") /\ asleep' = asleep \cup {t}
Look(t) ==
  /\ At(t, "look")
  /\ IF t \in completed THEN LeaveWaiters(t, "wait")
     ELSE IF closing > 0 THEN Sleep(t)
     ELSE Go(t, "ask") /\ UNCHANGED <<waitersLock, asleep>>
  /\ UNCHANGED <<eventsLock, active, closing, events, polling, transfers>>
Ask(t) ==
  /\ At(t, "ask")
  /\ IF active THEN Sleep(t)
     ELSE LeaveWaiters(t, IF closing > 0 THEN "join" ELSE "trylock")
  /\ UNCHANGED <<eventsLock, active, closing, events, polling, transfers>>
Wake(t) ==
  /\ At(t, "asleep") /\ t \notin asleep /\ waitersLock = Nobody
  /\ Go(t, "wait")
  /\ UNCHANGED <<locks, events, polling, transfers, asleep>>

\* libusb_close: who polls is interrupted, nobody else begins, and the
\* descriptor is removed under the events lock.
Close(t) ==
  /\ At(t, "close") /\ Go(t, "closelock")
  /\ closing' = closing + 1 /\ Raise("close")
  /\ UNCHANGED <<eventsLock, waitersLock, active, polling, transfers, asleep>>
NoLock(t) == eventsLock' = eventsLock
TakeLock(t) == eventsLock = Nobody /\ eventsLock' = t
CloseLock(t) ==
  /\ At(t, "closelock") /\ TakeLock(t) /\ Go(t, "doclose") /\ active' = TRUE
  /\ UNCHANGED <<waitersLock, closing, events, polling, transfers, asleep>>
DoClose(t) ==
  /\ At(t, "doclose") /\ Go(t, "closed")
  /\ sources' = sources \ {t} /\ Raise("sources")
  /\ UNCHANGED <<locks, polled, seen, transfers, asleep>>
Closed(t) ==
  /\ At(t, "closed") /\ Go(t, "unlock")
  /\ closing' = closing - 1
  /\ IF closing' = 0 THEN Lower("close") ELSE UNCHANGED events
  /\ UNCHANGED <<eventsLock, waitersLock, active, polling, transfers, asleep>>

-----------------------------------------------------------------------------
(* The kernel completes a transfer; somebody calls
   libusb_interrupt_event_handler; a sleeper wakes for no reason. *)

Complete(t) ==
  /\ t \in pending /\ pending' = pending \ {t} /\ ready' = ready \cup {t}
  /\ UNCHANGED <<pc, locks, events, polling, completed, asleep, wakes>>
Interrupt ==
  /\ wakes < MaxWakes /\ wakes' = wakes + 1 /\ Raise("user")
  /\ UNCHANGED <<pc, locks, polling, transfers, asleep>>
Spurious(t) ==
  /\ wakes < MaxWakes /\ wakes' = wakes + 1
  /\ t \in asleep /\ asleep' = asleep \ {t}
  /\ UNCHANGED <<pc, locks, events, polling, transfers>>

Step(t) ==
  /\ UNCHANGED wakes
  /\ \/ Open(t) \/ Submit(t) \/ Wait(t) \/ TryLock(t) \/ Locked(t) \/ Prepare(t)
     \/ Poll(t) \/ EventTrigger(t) \/ Callback(t) \/ Finish(t) \/ Unlock(t) \/ Release(t)
     \/ Broadcast(t) \/ Join(t) \/ Look(t) \/ Ask(t) \/ Wake(t)
     \/ Close(t) \/ CloseLock(t) \/ DoClose(t) \/ Closed(t)

Next ==
  \/ \E t \in Threads : \/ Interrupted(t) \/ Spurious(t)
                        \/ Step(t) \/ Complete(t)
  \/ Interrupt

\* Threads are scheduled and transfers complete; nobody is interrupted, times
\* out or wakes for no reason.
Fairness == \A t \in Threads : WF_vars(Step(t)) /\ WF_vars(Complete(t))
Spec == Init /\ [][Next]_vars /\ Fairness

-----------------------------------------------------------------------------
(* Properties. *)

Handler == {"locked", "prepare", "poll", "trigger", "handle", "unlock", "release"}
Closer == {"doclose", "closed"}

\* Types; and one thread at a time is between taking the events lock and
\* giving it back, polling or closing.
TypeOK ==
  /\ eventsLock \in Threads \cup {Nobody} /\ waitersLock \in Threads \cup {Nobody}
  /\ active \in BOOLEAN /\ closing \in 0..Cardinality(Threads)
  /\ eventFlags \subseteq {"sources", "close", "user"} /\ signal \in BOOLEAN
  /\ sources \subseteq Threads /\ polled \subseteq Threads /\ seen \subseteq Threads
  /\ pending \subseteq Threads /\ ready \subseteq Threads /\ completed \subseteq Threads
  /\ asleep \subseteq {t \in Threads : At(t, "asleep")}
  /\ \A t, u \in Threads : pc[t] \in Handler \cup Closer /\ pc[u] \in Handler \cup Closer
                             => t = u

\* Nobody polls, or handles, a descriptor that has been closed, and one thread
\* at a time polls, handles or closes (TypeOK).
PolledOpen ==
  /\ TypeOK
  /\ \A t \in Threads : pc[t] \in {"poll", "trigger", "handle"} =>
                          polled \subseteq sources /\ seen \subseteq sources

\* Nobody polls on, deaf to a descriptor that has been added or to a thread
\* that wants to close, unless the event descriptor is about to tell him.
NobodyDeaf ==
  \A t \in Threads : At(t, "poll") /\ ~signal => sources \subseteq polled /\ closing = 0

\* Every synchronous transfer that completes returns to its caller, and every
\* handle gets closed, without any timeout.
AllReturn == \A t \in Threads : <>At(t, "done")

=============================================================================
