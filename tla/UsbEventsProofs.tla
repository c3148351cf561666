--------------------------- MODULE UsbEventsProofs ---------------------------
(***************************************************************************)
(* What TLAPS proves of UsbEvents, for any finite set of threads and any   *)
(* number of interrupts and wakeups for no reason.                         *)
(***************************************************************************)
EXTENDS UsbEvents, FiniteSetTheorems, TLAPS

Phases ==
  Handler \cup Closer \cup
  {"open", "submit", "wait", "trylock", "join", "look", "ask", "asleep", "broadcast",
   "close", "closelock", "done"}

\* The threads that libusb_close has counted in device_close.
Closers == {t \in Threads : pc[t] \in {"closelock", "doclose", "closed"}}

\* Who has a lock is where its owner is, and event_handler_active is set from
\* shortly after the events lock is taken to shortly before it is given back.
LockInv ==
  /\ pc \in [Threads -> Phases]
  /\ \A t \in Threads : pc[t] \in Handler \cup Closer <=> eventsLock = t
  /\ \A t \in Threads : pc[t] \in {"look", "ask"} <=> waitersLock = t
  /\ active <=> \E t \in Threads : pc[t] \in (Handler \cup Closer) \ {"locked", "release"}

\* The counter of closers, the flag that stands for it, and the descriptor
\* that stands for all flags.
FlagInv ==
  /\ closing = Cardinality(Closers)
  /\ "close" \in eventFlags <=> closing > 0
  /\ signal <=> eventFlags # {}

\* The array that is polled is that of the sources, unless a flag says that
\* they have changed; they shrink only while nobody polls; and what a poll
\* reported is used up before the next one.
PollInv ==
  /\ "sources" \notin eventFlags => polled = sources
  /\ \A t \in Threads : pc[t] \in {"poll", "trigger", "handle"} => polled \subseteq sources
  /\ seen \subseteq polled \cap ready
  /\ seen # {} => \E t \in Threads : pc[t] \in {"trigger", "handle"}

\* Whoever sleeps on the condition variable has somebody to wake him: a thread
\* that handles events or closes will broadcast, and has not done so yet.
SleepersWatched ==
  asleep # {} =>
    \E t \in Threads : pc[t] \in Handler \cup Closer \cup {"closelock", "broadcast"}

\* A submitted transfer is in one place: with the kernel, reported by it, or
\* called back; and a handle is closed only after its callback.
TransferKept ==
  /\ \A t \in Threads :
       /\ pc[t] \notin {"open", "submit"} => t \in pending \cup ready \cup completed
       /\ pc[t] \in {"close", "closelock"} \cup Closer => t \in completed
       /\ pc[t] \in {"open", "submit"} => t \notin pending \cup ready \cup completed
       /\ pc[t] = "open" => t \notin sources
       /\ pc[t] \notin {"open", "unlock", "release", "broadcast", "closed", "done"}
            => t \in sources
       /\ t \notin sources /\ pc[t] # "open" => t \in completed
  /\ pending \cap ready = {} /\ pending \cap completed = {} /\ ready \cap completed = {}

IInv == TypeOK /\ LockInv /\ FlagInv /\ PollInv /\ SleepersWatched /\ TransferKept

-----------------------------------------------------------------------------
\* The number of a set of threads, as libusb_close counts it up and down.
LEMMA Counted ==
  ASSUME NEW S \in SUBSET Threads
  PROVE  /\ IsFiniteSet(S)
         /\ Cardinality(S) \in 0..Cardinality(Threads)
         /\ Cardinality(S) = 0 <=> S = {}
<1>1. /\ IsFiniteSet(S)
      /\ Cardinality(S) \in Nat
      /\ Cardinality(Threads) \in Nat
      /\ Cardinality(S) <= Cardinality(Threads)
  BY UsbEventsAssumption, FS_Subset, FS_CardinalityType
<1> QED
  BY <1>1, FS_EmptySet

LEMMA ClosersCounted ==
  /\ IsFiniteSet(Closers)
  /\ Cardinality(Closers) \in 0..Cardinality(Threads)
  /\ Cardinality(Closers) = 0 <=> Closers = {}
<1>1. Closers \in SUBSET Threads
  BY DEF Closers
<1> QED
  BY <1>1, Counted

\* The descriptor is signalled with the first flag and cleared with the last.
Flags == {"sources", "close", "user"}
SignalExact == eventFlags \subseteq Flags /\ signal \in BOOLEAN /\ (signal <=> eventFlags # {})

LEMMA RaiseExact ==
  ASSUME NEW f \in Flags, SignalExact, Raise(f)
  PROVE  SignalExact' /\ eventFlags' = eventFlags \cup {f}
BY DEF SignalExact, Raise

LEMMA LowerExact ==
  ASSUME NEW f \in Flags, SignalExact, Lower(f)
  PROVE  SignalExact' /\ eventFlags' = eventFlags \ {f}
BY DEF SignalExact, Lower

LEMMA StepInv == IInv /\ [Next]_vars => IInv'
<1> SUFFICES ASSUME IInv, [Next]_vars PROVE IInv'
  OBVIOUS
<1> USE UsbEventsAssumption
    DEF IInv, At, Go, Phases, Handler, Closer, locks, events, polling, transfers
<1>1. ASSUME NEW t \in Threads, Interrupted(t) PROVE IInv'
  <2> USE <1>1 DEF Interrupted
  <2>1. TypeOK'
    BY DEF TypeOK, LockInv, PollInv
  <2>2. LockInv'
    BY DEF TypeOK, LockInv
  <2>3. FlagInv'
    <3>1. Closers' = Closers
      BY DEF LockInv, Closers
    <3> QED
      BY <3>1 DEF TypeOK, FlagInv
  <2>4. PollInv'
    BY DEF TypeOK, LockInv, PollInv
  <2>5. SleepersWatched'
    BY DEF TypeOK, LockInv, SleepersWatched
  <2>6. TransferKept'
    BY DEF TypeOK, LockInv, PollInv, TransferKept
  <2> QED
    BY <2>1, <2>2, <2>3, <2>4, <2>5, <2>6
<1>2. ASSUME NEW t \in Threads, Open(t) PROVE IInv'
  <2> USE <1>2 DEF Open, Raise
  <2>1. TypeOK'
    BY DEF TypeOK, LockInv, PollInv
  <2>2. LockInv'
    BY DEF TypeOK, LockInv
  <2>3. FlagInv'
    <3>1. Closers' = Closers
      BY DEF LockInv, Closers
    <3> QED
      BY <3>1 DEF TypeOK, FlagInv
  <2>4. PollInv'
    BY DEF TypeOK, LockInv, PollInv
  <2>5. SleepersWatched'
    BY DEF TypeOK, LockInv, SleepersWatched
  <2>6. TransferKept'
    BY DEF TypeOK, LockInv, PollInv, TransferKept
  <2> QED
    BY <2>1, <2>2, <2>3, <2>4, <2>5, <2>6
<1>3. ASSUME NEW t \in Threads, Submit(t) PROVE IInv'
  <2> USE <1>3 DEF Submit
  <2>1. TypeOK'
    BY DEF TypeOK, LockInv, PollInv
  <2>2. LockInv'
    BY DEF TypeOK, LockInv
  <2>3. FlagInv'
    <3>1. Closers' = Closers
      BY DEF LockInv, Closers
    <3> QED
      BY <3>1 DEF TypeOK, FlagInv
  <2>4. PollInv'
    BY DEF TypeOK, LockInv, PollInv
  <2>5. SleepersWatched'
    BY DEF TypeOK, LockInv, SleepersWatched
  <2>6. TransferKept'
    BY DEF TypeOK, LockInv, PollInv, TransferKept
  <2> QED
    BY <2>1, <2>2, <2>3, <2>4, <2>5, <2>6
<1>4. ASSUME NEW t \in Threads, Wait(t) PROVE IInv'
  <2> USE <1>4 DEF Wait
  <2>1. TypeOK'
    BY DEF TypeOK, LockInv, PollInv
  <2>2. LockInv'
    BY DEF TypeOK, LockInv
  <2>3. FlagInv'
    <3>1. Closers' = Closers
      BY DEF LockInv, Closers
    <3> QED
      BY <3>1 DEF TypeOK, FlagInv
  <2>4. PollInv'
    BY DEF TypeOK, LockInv, PollInv
  <2>5. SleepersWatched'
    BY DEF TypeOK, LockInv, SleepersWatched
  <2>6. TransferKept'
    BY DEF TypeOK, LockInv, PollInv, TransferKept
  <2> QED
    BY <2>1, <2>2, <2>3, <2>4, <2>5, <2>6
<1>5. ASSUME NEW t \in Threads, TryLock(t) PROVE IInv'
  <2> USE <1>5 DEF TryLock
  <2>1. TypeOK'
    BY DEF TypeOK, LockInv, PollInv
  <2>2. LockInv'
    BY DEF TypeOK, LockInv
  <2>3. FlagInv'
    <3>1. Closers' = Closers
      BY DEF LockInv, Closers
    <3> QED
      BY <3>1 DEF TypeOK, FlagInv
  <2>4. PollInv'
    BY DEF TypeOK, LockInv, PollInv
  <2>5. SleepersWatched'
    BY DEF TypeOK, LockInv, SleepersWatched
  <2>6. TransferKept'
    BY DEF TypeOK, LockInv, PollInv, TransferKept
  <2> QED
    BY <2>1, <2>2, <2>3, <2>4, <2>5, <2>6
<1>6. ASSUME NEW t \in Threads, Locked(t) PROVE IInv'
  <2> USE <1>6 DEF Locked, Done
  <2>1. TypeOK'
    BY DEF TypeOK, LockInv, PollInv
  <2>2. LockInv'
    BY DEF TypeOK, LockInv
  <2>3. FlagInv'
    <3>1. Closers' = Closers
      BY DEF LockInv, Closers
    <3> QED
      BY <3>1 DEF TypeOK, FlagInv
  <2>4. PollInv'
    BY DEF TypeOK, LockInv, PollInv
  <2>5. SleepersWatched'
    BY DEF TypeOK, LockInv, SleepersWatched
  <2>6. TransferKept'
    BY DEF TypeOK, LockInv, PollInv, TransferKept
  <2> QED
    BY <2>1, <2>2, <2>3, <2>4, <2>5, <2>6
<1>7. ASSUME NEW t \in Threads, Prepare(t) PROVE IInv'
  <2> USE <1>7 DEF Prepare
  <2>0. SignalExact' /\ eventFlags' = eventFlags \ {"sources"}
    <3>1. SignalExact
      BY DEF TypeOK, FlagInv, SignalExact, Flags
    <3>2. CASE "sources" \in eventFlags
      BY <3>1, <3>2, LowerExact DEF Flags
    <3>3. CASE "sources" \notin eventFlags
      BY <3>1, <3>3 DEF SignalExact
    <3> QED
      BY <3>2, <3>3
  <2>1. TypeOK'
    BY <2>0 DEF TypeOK, LockInv, PollInv, SignalExact, Flags
  <2>2. LockInv'
    BY DEF TypeOK, LockInv
  <2>3. FlagInv'
    <3>1. Closers' = Closers
      BY DEF LockInv, Closers
    <3> QED
      BY <2>0, <3>1 DEF TypeOK, FlagInv, SignalExact
  <2>4. PollInv'
    BY DEF TypeOK, LockInv, PollInv
  <2>5. SleepersWatched'
    BY DEF TypeOK, LockInv, SleepersWatched
  <2>6. TransferKept'
    BY DEF TypeOK, LockInv, PollInv, TransferKept
  <2> QED
    BY <2>1, <2>2, <2>3, <2>4, <2>5, <2>6
<1>8. ASSUME NEW t \in Threads, Poll(t) PROVE IInv'
  <2> USE <1>8 DEF Poll
  <2>1. TypeOK'
    BY DEF TypeOK, LockInv, PollInv
  <2>2. LockInv'
    BY DEF TypeOK, LockInv
  <2>3. FlagInv'
    <3>1. Closers' = Closers
      BY DEF LockInv, Closers
    <3> QED
      BY <3>1 DEF TypeOK, FlagInv
  <2>4. PollInv'
    BY DEF TypeOK, LockInv, PollInv
  <2>5. SleepersWatched'
    BY DEF TypeOK, LockInv, SleepersWatched
  <2>6. TransferKept'
    BY DEF TypeOK, LockInv, PollInv, TransferKept
  <2> QED
    BY <2>1, <2>2, <2>3, <2>4, <2>5, <2>6
<1>9. ASSUME NEW t \in Threads, EventTrigger(t) PROVE IInv'
  <2> USE <1>9 DEF EventTrigger, Lower
  <2>1. TypeOK'
    BY DEF TypeOK, LockInv, PollInv
  <2>2. LockInv'
    BY DEF TypeOK, LockInv
  <2>3. FlagInv'
    <3>1. Closers' = Closers
      BY DEF LockInv, Closers
    <3> QED
      BY <3>1 DEF TypeOK, FlagInv
  <2>4. PollInv'
    BY DEF TypeOK, LockInv, PollInv
  <2>5. SleepersWatched'
    BY DEF TypeOK, LockInv, SleepersWatched
  <2>6. TransferKept'
    BY DEF TypeOK, LockInv, PollInv, TransferKept
  <2> QED
    BY <2>1, <2>2, <2>3, <2>4, <2>5, <2>6
<1>10. ASSUME NEW t \in Threads, Callback(t) PROVE IInv'
  <2> USE <1>10 DEF Callback
  <2>1. TypeOK'
    BY DEF TypeOK, LockInv, PollInv
  <2>2. LockInv'
    BY DEF TypeOK, LockInv
  <2>3. FlagInv'
    <3>1. Closers' = Closers
      BY DEF LockInv, Closers
    <3> QED
      BY <3>1 DEF TypeOK, FlagInv
  <2>4. PollInv'
    BY DEF TypeOK, LockInv, PollInv
  <2>5. SleepersWatched'
    BY DEF TypeOK, LockInv, SleepersWatched
  <2>6. TransferKept'
    BY DEF TypeOK, LockInv, PollInv, TransferKept
  <2> QED
    BY <2>1, <2>2, <2>3, <2>4, <2>5, <2>6
<1>11. ASSUME NEW t \in Threads, Finish(t) PROVE IInv'
  <2> USE <1>11 DEF Finish
  <2>1. TypeOK'
    BY DEF TypeOK, LockInv, PollInv
  <2>2. LockInv'
    BY DEF TypeOK, LockInv
  <2>3. FlagInv'
    <3>1. Closers' = Closers
      BY DEF LockInv, Closers
    <3> QED
      BY <3>1 DEF TypeOK, FlagInv
  <2>4. PollInv'
    BY DEF TypeOK, LockInv, PollInv
  <2>5. SleepersWatched'
    BY DEF TypeOK, LockInv, SleepersWatched
  <2>6. TransferKept'
    BY DEF TypeOK, LockInv, PollInv, TransferKept
  <2> QED
    BY <2>1, <2>2, <2>3, <2>4, <2>5, <2>6
<1>12. ASSUME NEW t \in Threads, Unlock(t) PROVE IInv'
  <2> USE <1>12 DEF Unlock
  <2>1. TypeOK'
    <3>1. \A u, v \in Threads : pc'[u] \in Handler \cup Closer /\ pc'[v] \in Handler \cup Closer
                                 => u = v
      BY DEF TypeOK, LockInv
    <3>2. /\ asleep' \subseteq {u \in Threads : pc'[u] = "asleep"}
          /\ active' \in BOOLEAN /\ closing' \in 0..Cardinality(Threads)
          /\ eventFlags' \subseteq {"sources", "close", "user"} /\ signal' \in BOOLEAN
      BY DEF TypeOK, LockInv
    <3> QED
      BY <3>1, <3>2 DEF TypeOK
  <2>2. LockInv'
    BY DEF TypeOK, LockInv
  <2>3. FlagInv'
    <3>1. Closers' = Closers
      BY DEF LockInv, Closers
    <3> QED
      BY <3>1 DEF TypeOK, FlagInv
  <2>4. PollInv'
    BY DEF TypeOK, LockInv, PollInv
  <2>5. SleepersWatched'
    BY DEF TypeOK, LockInv, SleepersWatched
  <2>6. TransferKept'
    BY DEF TypeOK, LockInv, PollInv, TransferKept
  <2> QED
    BY <2>1, <2>2, <2>3, <2>4, <2>5, <2>6
<1>13. ASSUME NEW t \in Threads, Release(t) PROVE IInv'
  <2> USE <1>13 DEF Release
  <2>1. TypeOK'
    BY DEF TypeOK, LockInv, PollInv
  <2>2. LockInv'
    BY DEF TypeOK, LockInv
  <2>3. FlagInv'
    <3>1. Closers' = Closers
      BY DEF LockInv, Closers
    <3> QED
      BY <3>1 DEF TypeOK, FlagInv
  <2>4. PollInv'
    BY DEF TypeOK, LockInv, PollInv
  <2>5. SleepersWatched'
    BY DEF TypeOK, LockInv, SleepersWatched
  <2>6. TransferKept'
    BY DEF TypeOK, LockInv, PollInv, TransferKept
  <2> QED
    BY <2>1, <2>2, <2>3, <2>4, <2>5, <2>6
<1>14. ASSUME NEW t \in Threads, Broadcast(t) PROVE IInv'
  <2> USE <1>14 DEF Broadcast
  <2>1. TypeOK'
    BY DEF TypeOK, LockInv, PollInv
  <2>2. LockInv'
    BY DEF TypeOK, LockInv
  <2>3. FlagInv'
    <3>1. Closers' = Closers
      BY DEF LockInv, Closers
    <3> QED
      BY <3>1 DEF TypeOK, FlagInv
  <2>4. PollInv'
    BY DEF TypeOK, LockInv, PollInv
  <2>5. SleepersWatched'
    BY DEF TypeOK, LockInv, SleepersWatched
  <2>6. TransferKept'
    BY DEF TypeOK, LockInv, PollInv, TransferKept
  <2> QED
    BY <2>1, <2>2, <2>3, <2>4, <2>5, <2>6
<1>15. ASSUME NEW t \in Threads, Join(t) PROVE IInv'
  <2> USE <1>15 DEF Join
  <2>1. TypeOK'
    BY DEF TypeOK, LockInv, PollInv
  <2>2. LockInv'
    BY DEF TypeOK, LockInv
  <2>3. FlagInv'
    <3>1. Closers' = Closers
      BY DEF LockInv, Closers
    <3> QED
      BY <3>1 DEF TypeOK, FlagInv
  <2>4. PollInv'
    BY DEF TypeOK, LockInv, PollInv
  <2>5. SleepersWatched'
    BY DEF TypeOK, LockInv, SleepersWatched
  <2>6. TransferKept'
    BY DEF TypeOK, LockInv, PollInv, TransferKept
  <2> QED
    BY <2>1, <2>2, <2>3, <2>4, <2>5, <2>6
<1>16. ASSUME NEW t \in Threads, Look(t) PROVE IInv'
  <2> USE <1>16 DEF Look, LeaveWaiters, Sleep
  <2>1. TypeOK'
    BY DEF TypeOK, LockInv, PollInv
  <2>2. LockInv'
    BY DEF TypeOK, LockInv
  <2>3. FlagInv'
    <3>1. Closers' = Closers
      BY DEF LockInv, Closers
    <3> QED
      BY <3>1 DEF TypeOK, FlagInv
  <2>4. PollInv'
    BY DEF TypeOK, LockInv, PollInv
  <2>5. SleepersWatched'
    BY ClosersCounted DEF TypeOK, LockInv, FlagInv, Closers, SleepersWatched
  <2>6. TransferKept'
    BY DEF TypeOK, LockInv, PollInv, TransferKept
  <2> QED
    BY <2>1, <2>2, <2>3, <2>4, <2>5, <2>6
<1>17. ASSUME NEW t \in Threads, Ask(t) PROVE IInv'
  <2> USE <1>17 DEF Ask, LeaveWaiters, Sleep
  <2>1. TypeOK'
    BY DEF TypeOK, LockInv, PollInv
  <2>2. LockInv'
    BY DEF TypeOK, LockInv
  <2>3. FlagInv'
    <3>1. Closers' = Closers
      BY DEF LockInv, Closers
    <3> QED
      BY <3>1 DEF TypeOK, FlagInv
  <2>4. PollInv'
    BY DEF TypeOK, LockInv, PollInv
  <2>5. SleepersWatched'
    BY DEF TypeOK, LockInv, SleepersWatched
  <2>6. TransferKept'
    BY DEF TypeOK, LockInv, PollInv, TransferKept
  <2> QED
    BY <2>1, <2>2, <2>3, <2>4, <2>5, <2>6
<1>18. ASSUME NEW t \in Threads, Wake(t) PROVE IInv'
  <2> USE <1>18 DEF Wake
  <2>1. TypeOK'
    BY DEF TypeOK, LockInv, PollInv
  <2>2. LockInv'
    BY DEF TypeOK, LockInv
  <2>3. FlagInv'
    <3>1. Closers' = Closers
      BY DEF LockInv, Closers
    <3> QED
      BY <3>1 DEF TypeOK, FlagInv
  <2>4. PollInv'
    BY DEF TypeOK, LockInv, PollInv
  <2>5. SleepersWatched'
    BY DEF TypeOK, LockInv, SleepersWatched
  <2>6. TransferKept'
    BY DEF TypeOK, LockInv, PollInv, TransferKept
  <2> QED
    BY <2>1, <2>2, <2>3, <2>4, <2>5, <2>6
<1>19. ASSUME NEW t \in Threads, Close(t) PROVE IInv'
  <2> USE <1>19 DEF Close
  <2>f. SignalExact' /\ eventFlags' = eventFlags \cup {"close"}
    <3>1. SignalExact
      BY DEF TypeOK, FlagInv, SignalExact, Flags
    <3> QED
      BY <3>1, RaiseExact DEF Flags
  <2>0. /\ Closers' = Closers \cup {t} /\ t \notin Closers
        /\ Cardinality(Closers') = Cardinality(Closers) + 1
        /\ Cardinality(Closers') \in 0..Cardinality(Threads)
    <3>1. Closers' = Closers \cup {t} /\ t \notin Closers
      BY DEF LockInv, Closers
    <3>2. Closers' \in SUBSET Threads
      BY DEF Closers
    <3> QED
      BY <3>1, <3>2, Counted, ClosersCounted, FS_AddElement
  <2>1. TypeOK'
    <3>1. closing' = Cardinality(Closers')
      BY <2>0, ClosersCounted DEF FlagInv
    <3> QED
      BY <2>0, <2>f, <3>1 DEF TypeOK, LockInv, SignalExact, Flags
  <2>2. LockInv'
    BY DEF TypeOK, LockInv
  <2>3. FlagInv'
    BY <2>0, <2>f, ClosersCounted DEF FlagInv, SignalExact
  <2>4. PollInv'
    BY <2>f DEF TypeOK, LockInv, PollInv
  <2>5. SleepersWatched'
    BY DEF TypeOK, LockInv, SleepersWatched
  <2>6. TransferKept'
    BY DEF TypeOK, LockInv, PollInv, TransferKept
  <2> QED
    BY <2>1, <2>2, <2>3, <2>4, <2>5, <2>6
<1>20. ASSUME NEW t \in Threads, CloseLock(t) PROVE IInv'
  <2> USE <1>20 DEF CloseLock, TakeLock
  <2>1. TypeOK'
    BY DEF TypeOK, LockInv, PollInv
  <2>2. LockInv'
    BY DEF TypeOK, LockInv
  <2>3. FlagInv'
    <3>1. Closers' = Closers
      BY DEF LockInv, Closers
    <3> QED
      BY <3>1 DEF TypeOK, FlagInv
  <2>4. PollInv'
    BY DEF TypeOK, LockInv, PollInv
  <2>5. SleepersWatched'
    BY DEF TypeOK, LockInv, SleepersWatched
  <2>6. TransferKept'
    BY DEF TypeOK, LockInv, PollInv, TransferKept
  <2> QED
    BY <2>1, <2>2, <2>3, <2>4, <2>5, <2>6
<1>21. ASSUME NEW t \in Threads, DoClose(t) PROVE IInv'
  <2> USE <1>21 DEF DoClose, Raise
  <2>1. TypeOK'
    BY DEF TypeOK, LockInv, PollInv
  <2>2. LockInv'
    BY DEF TypeOK, LockInv
  <2>3. FlagInv'
    <3>1. Closers' = Closers
      BY DEF LockInv, Closers
    <3> QED
      BY <3>1 DEF TypeOK, FlagInv
  <2>4. PollInv'
    BY DEF TypeOK, LockInv, PollInv
  <2>5. SleepersWatched'
    BY DEF TypeOK, LockInv, SleepersWatched
  <2>6. TransferKept'
    BY DEF TypeOK, LockInv, PollInv, TransferKept
  <2> QED
    BY <2>1, <2>2, <2>3, <2>4, <2>5, <2>6
<1>22. ASSUME NEW t \in Threads, Closed(t) PROVE IInv'
  <2> USE <1>22 DEF Closed
  <2>f. SignalExact' /\ eventFlags' = IF closing' = 0 THEN eventFlags \ {"close"} ELSE eventFlags
    <3>1. SignalExact
      BY DEF TypeOK, FlagInv, SignalExact, Flags
    <3>2. CASE closing' = 0
      BY <3>1, <3>2, LowerExact DEF Flags
    <3>3. CASE closing' # 0
      BY <3>1, <3>3 DEF SignalExact
    <3> QED
      BY <3>2, <3>3
  <2>0. /\ Closers' = Closers \ {t} /\ t \in Closers
        /\ Cardinality(Closers') = Cardinality(Closers) - 1
        /\ Cardinality(Closers') \in 0..Cardinality(Threads)
    <3>1. Closers' = Closers \ {t} /\ t \in Closers
      BY DEF LockInv, Closers
    <3>2. Closers' \in SUBSET Threads
      BY DEF Closers
    <3> QED
      BY <3>1, <3>2, Counted, ClosersCounted, FS_RemoveElement
  <2>1. TypeOK'
    <3>1. closing' = Cardinality(Closers')
      BY <2>0, ClosersCounted DEF FlagInv
    <3> QED
      BY <2>0, <2>f, <3>1 DEF TypeOK, LockInv, SignalExact, Flags
  <2>2. LockInv'
    BY DEF TypeOK, LockInv
  <2>3. FlagInv'
    BY <2>0, <2>f, ClosersCounted DEF FlagInv, SignalExact
  <2>4. PollInv'
    BY <2>f DEF TypeOK, LockInv, PollInv
  <2>5. SleepersWatched'
    BY DEF TypeOK, LockInv, SleepersWatched
  <2>6. TransferKept'
    BY DEF TypeOK, LockInv, PollInv, TransferKept
  <2> QED
    BY <2>1, <2>2, <2>3, <2>4, <2>5, <2>6
<1>23. ASSUME NEW t \in Threads, Spurious(t) PROVE IInv'
  <2> USE <1>23 DEF Spurious
  <2>1. TypeOK'
    BY DEF TypeOK, LockInv, PollInv
  <2>2. LockInv'
    BY DEF TypeOK, LockInv
  <2>3. FlagInv'
    <3>1. Closers' = Closers
      BY DEF LockInv, Closers
    <3> QED
      BY <3>1 DEF TypeOK, FlagInv
  <2>4. PollInv'
    BY DEF TypeOK, LockInv, PollInv
  <2>5. SleepersWatched'
    BY DEF TypeOK, LockInv, SleepersWatched
  <2>6. TransferKept'
    BY DEF TypeOK, LockInv, PollInv, TransferKept
  <2> QED
    BY <2>1, <2>2, <2>3, <2>4, <2>5, <2>6
<1>24. ASSUME NEW t \in Threads, Complete(t) PROVE IInv'
  <2> USE <1>24 DEF Complete
  <2>1. TypeOK'
    BY DEF TypeOK, LockInv, PollInv
  <2>2. LockInv'
    BY DEF TypeOK, LockInv
  <2>3. FlagInv'
    <3>1. Closers' = Closers
      BY DEF LockInv, Closers
    <3> QED
      BY <3>1 DEF TypeOK, FlagInv
  <2>4. PollInv'
    BY DEF TypeOK, LockInv, PollInv
  <2>5. SleepersWatched'
    BY DEF TypeOK, LockInv, SleepersWatched
  <2>6. TransferKept'
    BY DEF TypeOK, LockInv, PollInv, TransferKept
  <2> QED
    BY <2>1, <2>2, <2>3, <2>4, <2>5, <2>6
<1>25. CASE Interrupt
  <2> USE <1>25 DEF Interrupt, Raise
  <2>1. Closers' = Closers
    BY DEF Closers
  <2>2. FlagInv'
    BY <2>1 DEF TypeOK, FlagInv
  <2> QED
    BY <2>2 DEF TypeOK, LockInv, PollInv, SleepersWatched, TransferKept
<1>26. CASE UNCHANGED vars
  <2>1. Closers' = Closers
    BY <1>26 DEF vars, Closers
  <2> QED
    BY <1>26, <2>1 DEF vars, TypeOK, LockInv, FlagInv, PollInv, SleepersWatched, TransferKept
<1> QED
  BY <1>1, <1>2, <1>3, <1>4, <1>5, <1>6, <1>7, <1>8, <1>9, <1>10, <1>11, <1>12, <1>13, <1>14, <1>15, <1>16, <1>17, <1>18, <1>19, <1>20, <1>21, <1>22, <1>23, <1>24, <1>25, <1>26 DEF Next, Step

\* Threads start without a handle, a lock or a flag.
LEMMA InitInv == Init => IInv
<1> SUFFICES ASSUME Init PROVE IInv
  OBVIOUS
<1> USE UsbEventsAssumption DEF Init, Idle, Phases, Handler, Closer
<1>1. Closers = {} /\ Cardinality(Closers) = 0
  BY FS_EmptySet DEF Closers
<1>2. TypeOK
  BY ClosersCounted, <1>1 DEF TypeOK, At
<1>3. LockInv
  BY DEF LockInv
<1> QED
  BY <1>1, <1>2, <1>3 DEF IInv, FlagInv, PollInv, SleepersWatched, TransferKept

LEMMA Invariant == Spec => []IInv
<1> QED
  BY InitInv, StepInv, PTL DEF Spec

-----------------------------------------------------------------------------
\* Types; and one thread at a time has the events lock (libusb_lock_events,
\* libusb_try_lock_events), from taking it to giving it back.
THEOREM TypeCorrect == Spec => []TypeOK
<1>1. IInv => TypeOK
  BY DEF IInv
<1> QED
  BY <1>1, Invariant, PTL

\* The thread in handle_events polls, and handles, no descriptor that
\* libusb_close has removed.
THEOREM PollsOpen == Spec => []PolledOpen
<1>1. IInv => PolledOpen
  BY DEF IInv, PollInv, PolledOpen
<1> QED
  BY <1>1, Invariant, PTL

\* A thread that polls with the event descriptor silent polls every source,
\* and no thread is waiting to close: the descriptor, signalled with the first
\* flag and cleared with the last, stands for all of them.
THEOREM HearsAll == Spec => []NobodyDeaf
<1>1. IInv => NobodyDeaf
  BY ClosersCounted DEF IInv, TypeOK, FlagInv, PollInv, NobodyDeaf, At
<1> QED
  BY <1>1, Invariant, PTL

\* libusb_wait_for_event, without its timeout: whoever sleeps is to be woken by
\* a broadcast that is still to come.
THEOREM SleepersWoken == Spec => []SleepersWatched
<1>1. IInv => SleepersWatched
  BY DEF IInv
<1> QED
  BY <1>1, Invariant, PTL

\* do_sync_bulk_transfer and libusb_close: a transfer that was submitted is in
\* one place until it is called back, and its handle is closed only then.
THEOREM NothingLost == Spec => []TransferKept
<1>1. IInv => TransferKept
  BY DEF IInv
<1> QED
  BY <1>1, Invariant, PTL
=============================================================================
