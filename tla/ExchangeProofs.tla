--------------------------- MODULE ExchangeProofs ---------------------------
(***************************************************************************)
(* What TLAPS proves of Exchange, for any number of attempts, any drain    *)
(* limit, any timeout, any queue and any number of event-handling errors.  *)
(***************************************************************************)
EXTENDS Exchange, SequenceTheorems, TLAPS

\* The phases of exchange_once between the submission and the release of its
\* transfer.
Posted == {"control", "await", "inspect", "clock", "clear", "cleanup", "settle", "free"}

\* Where the transfer is, phase by phase, and what the flag then says.
TransferInv ==
  /\ pc \in {"done", "drain", "post", "again"} => xfer = "none"
  /\ pc \in {"inspect", "clock", "free"} => xfer = "idle"
  /\ pc \in {"inspect", "clock"} => completed
  /\ pc \in {"control", "await", "settle", "cleanup"} =>
       xfer # "none" /\ (completed <=> xfer = "idle")
  /\ pc = "clear" => InKernel
  /\ pc \in {"await", "clear"} => xtimer <= budget

\* How the loop counters, the sends and the outcome go together.
CountInv ==
  /\ attempt <= Attempts(cmd)
  /\ pc = "done" => attempt = 1 /\ drained = 0
  /\ pc = "drain" => drained < DrainLimit
  /\ pc \in {"drain", "post"} => sent = attempt - 1 /\ (sent = 0 \/ outcome = "timeout")
  /\ pc \in Posted => sent = attempt
  /\ pc = "again" => sent = attempt \/ outcome = "error"
  /\ pc \in {"cleanup", "settle", "free", "again"} => outcome # "none"

IInv == TypeOK /\ TransferInv /\ CountInv

\* Every step of the specification preserves the invariant.
LEMMA StepInv == IInv /\ [Next]_vars => IInv'
<1> SUFFICES ASSUME IInv, [Next]_vars PROVE IInv'
  OBVIOUS
<1> USE ConstantsAssumption DEF IInv
<1>1. CASE Begin
  <2> USE <1>1 DEF Begin, driver, transfer, device
  <2>1. FlagsOK'
    BY ConstantsAssumption DEF TypeOK, FlagsOK
  <2>2. DataOK'
    BY DEF TypeOK, DataOK, Commands, Outcomes, CountInv, Posted
  <2>3. ReportsOK'
    <3>1. PICK m \in [Classes -> Classes] :
            LET Restale(r) == [class |-> m[r.class], mine |-> FALSE]
            IN  /\ inbox' = [i \in DOMAIN inbox |-> Restale(inbox[i])]
                /\ air' = {Restale(r) : r \in air}
      OBVIOUS
    <3> DEFINE Restale(r) == [class |-> m[r.class], mine |-> FALSE]
    <3>2. \A r \in Reports : Restale(r) \in Reports
      BY DEF Reports
    <3>3. /\ Len(inbox) \in Nat /\ DOMAIN inbox = 1 .. Len(inbox)
          /\ \A i \in 1 .. Len(inbox) : inbox[i] \in Reports
      BY DEF TypeOK, ReportsOK
    <3>4. inbox' \in [1 .. Len(inbox) -> Reports]
      BY <3>1, <3>2, <3>3
    <3>5. inbox' \in Seq(Reports) /\ Len(inbox') = Len(inbox)
      <4> HIDE <1>1
      <4>1. inbox' \in Seq(Reports)
        BY <3>3, <3>4, SeqDef
      <4>2. DOMAIN inbox' = 1 .. Len(inbox)
        BY <3>4
      <4> QED
        BY <4>1, <4>2, <3>3, LenProperties
    <3>6. air' \subseteq Reports
      BY <3>1, <3>2 DEF TypeOK, ReportsOK
    <3>7. buffer' \in Reports
      BY DEF Reports, NoReport, Classes
    <3> QED
      BY <3>5, <3>6, <3>7 DEF TypeOK, ReportsOK
  <2>4. TransferInv'
    BY DEF TransferInv, TypeOK, FlagsOK, DataOK, InKernel
  <2>5. CountInv'
    BY DEF CountInv, TypeOK, DataOK, Posted, Attempts
  <2> QED
    BY <2>1, <2>2, <2>3, <2>4, <2>5 DEF TypeOK
<1>2. CASE DrainRead
  BY <1>2
  DEF DrainRead, driver, transfer, device, Fail, TypeOK, FlagsOK, DataOK,
     ReportsOK, TransferInv, CountInv, Posted, InKernel, Attempts, Commands,
     Outcomes
<1>3. CASE DrainQuiet
  <2> USE <1>3 DEF DrainQuiet, driver, transfer, device
  <2>1. FlagsOK'
    BY ConstantsAssumption DEF TypeOK, FlagsOK
  <2>2. DataOK'
    BY DEF TypeOK, DataOK, Commands, Outcomes, CountInv, Posted
  <2>3. ReportsOK'
    BY DEF TypeOK, ReportsOK
  <2>4. TransferInv'
    BY DEF TransferInv, TypeOK, FlagsOK, DataOK, InKernel
  <2>5. CountInv'
    BY DEF CountInv, TypeOK, DataOK, Posted, Attempts
  <2> QED
    BY <2>1, <2>2, <2>3, <2>4, <2>5 DEF TypeOK
<1>4. CASE DrainFails
  BY <1>4
  DEF DrainFails, driver, transfer, device, Fail, TypeOK, FlagsOK, DataOK,
     ReportsOK, TransferInv, CountInv, Posted, InKernel, Attempts, Commands,
     Outcomes
<1>5. CASE Post
  <2> USE <1>5 DEF Post, driver, transfer, device
  <2>1. FlagsOK'
    BY ConstantsAssumption DEF TypeOK, FlagsOK
  <2>2. DataOK'
    BY DEF TypeOK, DataOK, Commands, Outcomes, CountInv, Posted
  <2>3. ReportsOK'
    BY DEF TypeOK, ReportsOK
  <2>4. TransferInv'
    BY DEF TransferInv, TypeOK, FlagsOK, DataOK, InKernel
  <2>5. CountInv'
    BY DEF CountInv, TypeOK, DataOK, Posted, Attempts
  <2> QED
    BY <2>1, <2>2, <2>3, <2>4, <2>5 DEF TypeOK
<1>6. CASE PostFails
  BY <1>6
  DEF PostFails, driver, transfer, device, Fail, TypeOK, FlagsOK, DataOK,
     ReportsOK, TransferInv, CountInv, Posted, InKernel, Attempts, Commands,
     Outcomes
<1>7. CASE Wake
  BY <1>7
  DEF Wake, driver, transfer, device, TypeOK, FlagsOK, DataOK, ReportsOK,
     TransferInv, CountInv, Posted, InKernel, Attempts, Commands, Outcomes
<1>8. CASE Inspect
  BY <1>8
  DEF Inspect, driver, transfer, device, Verdict, TypeOK, FlagsOK, DataOK,
     ReportsOK, TransferInv, CountInv, Posted, InKernel, Attempts, Commands,
     Outcomes
<1>9. CASE GiveUp
  BY <1>9
  DEF GiveUp, driver, transfer, device, TypeOK, FlagsOK, DataOK, ReportsOK,
     TransferInv, CountInv, Posted, InKernel, Attempts, Commands, Outcomes
<1>10. CASE Resubmit
  <2> USE <1>10 DEF Resubmit, driver, transfer, device, Remaining
  <2>1. FlagsOK'
    BY ConstantsAssumption DEF TypeOK, FlagsOK
  <2>2. DataOK'
    BY DEF TypeOK, DataOK, Commands, Outcomes, CountInv, Posted
  <2>3. ReportsOK'
    BY DEF TypeOK, ReportsOK
  <2>4. TransferInv'
    BY DEF TransferInv, TypeOK, FlagsOK, DataOK, InKernel
  <2>5. CountInv'
    BY DEF CountInv, TypeOK, DataOK, Posted, Attempts
  <2> QED
    BY <2>1, <2>2, <2>3, <2>4, <2>5 DEF TypeOK
<1>11. CASE ResubmitFails
  BY <1>11
  DEF ResubmitFails, driver, transfer, device, TypeOK, FlagsOK, DataOK,
     ReportsOK, TransferInv, CountInv, Posted, InKernel, Attempts, Commands,
     Outcomes
<1>12. CASE ClearFlag
  <2> USE <1>12 DEF ClearFlag, driver, transfer, device
  <2>1. FlagsOK'
    BY ConstantsAssumption DEF TypeOK, FlagsOK
  <2>2. DataOK'
    BY DEF TypeOK, DataOK, Commands, Outcomes, CountInv, Posted
  <2>3. ReportsOK'
    BY DEF TypeOK, ReportsOK
  <2>4. TransferInv'
    BY DEF TransferInv, TypeOK, FlagsOK, DataOK, InKernel
  <2>5. CountInv'
    BY DEF CountInv, TypeOK, DataOK, Posted, Attempts
  <2> QED
    BY <2>1, <2>2, <2>3, <2>4, <2>5 DEF TypeOK
<1>13. CASE Cleanup
  <2> USE <1>13 DEF Cleanup, driver, transfer, device, Discard
  <2>1. FlagsOK'
    BY ConstantsAssumption DEF TypeOK, FlagsOK
  <2>2. DataOK'
    BY DEF TypeOK, DataOK, Commands, Outcomes, CountInv, Posted
  <2>3. ReportsOK'
    BY DEF TypeOK, ReportsOK
  <2>4. TransferInv'
    BY DEF TransferInv, TypeOK, FlagsOK, DataOK, InKernel
  <2>5. CountInv'
    BY DEF CountInv, TypeOK, DataOK, Posted, Attempts
  <2> QED
    BY <2>1, <2>2, <2>3, <2>4, <2>5 DEF TypeOK
<1>14. CASE Settled
  BY <1>14
  DEF Settled, driver, transfer, device, TypeOK, FlagsOK, DataOK, ReportsOK,
     TransferInv, CountInv, Posted, InKernel, Attempts, Commands, Outcomes
<1>15. CASE Free
  <2> USE <1>15 DEF Free, driver, transfer, device
  <2>1. FlagsOK'
    BY ConstantsAssumption DEF TypeOK, FlagsOK
  <2>2. DataOK'
    BY DEF TypeOK, DataOK, Commands, Outcomes, CountInv, Posted
  <2>3. ReportsOK'
    BY DEF TypeOK, ReportsOK
  <2>4. TransferInv'
    BY DEF TransferInv, TypeOK, FlagsOK, DataOK, InKernel
  <2>5. CountInv'
    BY DEF CountInv, TypeOK, DataOK, Posted, Attempts
  <2> QED
    BY <2>1, <2>2, <2>3, <2>4, <2>5 DEF TypeOK
<1>16. CASE Retry
  BY <1>16
  DEF Retry, driver, transfer, device, TypeOK, FlagsOK, DataOK, ReportsOK,
     TransferInv, CountInv, Posted, InKernel, Attempts, Commands, Outcomes
<1>17. CASE Return
  <2> USE <1>17 DEF Return, driver, transfer, device
  <2>1. FlagsOK'
    BY ConstantsAssumption DEF TypeOK, FlagsOK
  <2>2. DataOK'
    BY DEF TypeOK, DataOK, Commands, Outcomes, CountInv, Posted
  <2>3. ReportsOK'
    BY DEF TypeOK, ReportsOK
  <2>4. TransferInv'
    BY DEF TransferInv, TypeOK, FlagsOK, DataOK, InKernel
  <2>5. CountInv'
    BY DEF CountInv, TypeOK, DataOK, Posted, Attempts
  <2> QED
    BY <2>1, <2>2, <2>3, <2>4, <2>5 DEF TypeOK
<1>18. CASE ControlSucceeds
  <2> USE <1>18 DEF ControlSucceeds, driver, transfer, device
  <2>1. FlagsOK'
    BY ConstantsAssumption DEF TypeOK, FlagsOK
  <2>2. DataOK'
    BY DEF TypeOK, DataOK, Commands, Outcomes, CountInv, Posted
  <2>3. ReportsOK'
    BY DEF TypeOK, ReportsOK
  <2>4. TransferInv'
    BY DEF TransferInv, TypeOK, FlagsOK, DataOK, InKernel
  <2>5. CountInv'
    BY DEF CountInv, TypeOK, DataOK, Posted, Attempts
  <2> QED
    BY <2>1, <2>2, <2>3, <2>4, <2>5 DEF TypeOK
<1>19. CASE ControlFails
  BY <1>19
  DEF ControlFails, driver, transfer, device, TypeOK, FlagsOK, DataOK,
     ReportsOK, TransferInv, CountInv, Posted, InKernel, Attempts, Commands,
     Outcomes
<1>20. CASE TimerFires
  BY <1>20
  DEF TimerFires, driver, transfer, device, Discard, HandlingEvents, TypeOK,
     FlagsOK, DataOK, ReportsOK, TransferInv, CountInv, Posted, InKernel,
     Attempts, Commands, Outcomes
<1>21. CASE Reap
  BY <1>21
  DEF Reap, driver, transfer, device, HandlingEvents, TypeOK, FlagsOK, DataOK,
     ReportsOK, TransferInv, CountInv, Posted, InKernel, Attempts, Commands,
     Outcomes
<1>22. CASE EventsFail
  <2> USE <1>22 DEF EventsFail, driver, transfer, device, Discard
  <2>1. FlagsOK'
    BY ConstantsAssumption DEF TypeOK, FlagsOK
  <2>2. DataOK'
    BY DEF TypeOK, DataOK, Commands, Outcomes, CountInv, Posted
  <2>3. ReportsOK'
    BY DEF TypeOK, ReportsOK
  <2>4. TransferInv'
    BY DEF TransferInv, TypeOK, FlagsOK, DataOK, InKernel
  <2>5. CountInv'
    BY DEF CountInv, TypeOK, DataOK, Posted, Attempts
  <2> QED
    BY <2>1, <2>2, <2>3, <2>4, <2>5 DEF TypeOK
<1>23. CASE Land
  <2> USE <1>23 DEF Land, driver, transfer, device
  <2>1. FlagsOK'
    BY ConstantsAssumption DEF TypeOK, FlagsOK
  <2>2. DataOK'
    BY DEF TypeOK, DataOK, Commands, Outcomes, CountInv, Posted
  <2>3. ReportsOK'
    BY DEF TypeOK, ReportsOK
  <2>4. TransferInv'
    BY DEF TransferInv, TypeOK, FlagsOK, DataOK, InKernel
  <2>5. CountInv'
    BY DEF CountInv, TypeOK, DataOK, Posted, Attempts
  <2> QED
    BY <2>1, <2>2, <2>3, <2>4, <2>5 DEF TypeOK
<1>24. CASE LandFault
  BY <1>24
  DEF LandFault, driver, transfer, device, TypeOK, FlagsOK, DataOK, ReportsOK,
     TransferInv, CountInv, Posted, InKernel, Attempts, Commands, Outcomes
<1>25. CASE Deliver
  <2> USE <1>25 DEF Deliver, driver, transfer, device
  <2>1. FlagsOK'
    BY ConstantsAssumption DEF TypeOK, FlagsOK
  <2>2. DataOK'
    BY DEF TypeOK, DataOK, Commands, Outcomes, CountInv, Posted
  <2>3. ReportsOK'
    <3>1. \A c \in Classes : [class |-> c, mine |-> TRUE] \in Reports
      BY DEF Reports
    <3> QED
      BY <3>1 DEF TypeOK, ReportsOK
  <2>4. TransferInv'
    BY DEF TransferInv, TypeOK, FlagsOK, DataOK, InKernel
  <2>5. CountInv'
    BY DEF CountInv, TypeOK, DataOK, Posted, Attempts
  <2> QED
    BY <2>1, <2>2, <2>3, <2>4, <2>5 DEF TypeOK
<1>26. CASE Arrive
  BY <1>26
  DEF Arrive, driver, transfer, device, Queue, TypeOK, FlagsOK, DataOK,
     ReportsOK, TransferInv, CountInv, Posted, InKernel, Attempts, Commands,
     Outcomes
<1>27. CASE Chatter
  <2> USE <1>27 DEF Chatter, driver, transfer, device, Queue, NoReport
  <2>1. FlagsOK'
    BY ConstantsAssumption DEF TypeOK, FlagsOK
  <2>2. DataOK'
    BY DEF TypeOK, DataOK, Commands, Outcomes, CountInv, Posted
  <2>3. ReportsOK'
    <3>1. NoReport \in Reports
      BY DEF Reports, Classes
    <3> HIDE DEF NoReport
    <3> QED
      BY <3>1 DEF TypeOK, ReportsOK
  <2>4. TransferInv'
    BY DEF TransferInv, TypeOK, FlagsOK, DataOK, InKernel
  <2>5. CountInv'
    BY DEF CountInv, TypeOK, DataOK, Posted, Attempts
  <2> QED
    BY <2>1, <2>2, <2>3, <2>4, <2>5 DEF TypeOK
<1>28. CASE Tick
  BY <1>28
  DEF Tick, driver, transfer, device, Less, TypeOK, FlagsOK, DataOK,
     ReportsOK, TransferInv, CountInv, Posted, InKernel, Attempts, Commands,
     Outcomes
<1>29. CASE UNCHANGED vars
  <2> USE <1>29 DEF vars, driver, transfer, device
  <2>1. TypeOK'
    BY DEF TypeOK, FlagsOK, DataOK, ReportsOK
  <2>2. TransferInv' /\ CountInv'
    BY DEF TransferInv, CountInv, InKernel
  <2> QED
    BY <2>1, <2>2
<1> QED
  BY <1>1, <1>2, <1>3, <1>4, <1>5, <1>6, <1>7, <1>8, <1>9, <1>10, <1>11, <1>12,
     <1>13, <1>14, <1>15, <1>16, <1>17, <1>18, <1>19, <1>20, <1>21, <1>22, <1>23,
     <1>24, <1>25, <1>26, <1>27, <1>28, <1>29
  DEF Next, Thread, Control, HandleEvents, Environment

LEMMA InitInv == Init => IInv
<1> SUFFICES ASSUME Init PROVE IInv
  OBVIOUS
<1> USE ConstantsAssumption
<1>1. FlagsOK
  BY DEF Init, FlagsOK
<1>2. DataOK
  BY DEF Init, DataOK, Outcomes
<1>3. ReportsOK
  <2>1. Stale \subseteq Reports /\ NoReport \in Reports
    BY DEF Stale, Reports, NoReport, Classes
  <2>2. \A r \in Reports : <<r>> \in Seq(Reports) /\ Len(<<r>>) = 1
    OBVIOUS
  <2>3. inbox \in Seq(Reports) /\ Len(inbox) <= QueueCap
    <3>1. CASE inbox = <<>>
      BY <3>1
    <3>2. CASE inbox # <<>>
      <4>1. PICK r \in Stale : inbox = <<r>>
        BY <3>2 DEF Init
      <4> QED
        BY <4>1, <2>1, <2>2
    <3> QED
      BY <3>1, <3>2
  <2>4. air \subseteq Reports /\ buffer \in Reports
    BY <2>1 DEF Init
  <2> QED
    BY <2>3, <2>4 DEF ReportsOK
<1>4. TransferInv /\ CountInv
  BY DEF Init, TransferInv, CountInv, Attempts, Posted
<1> QED
  BY <1>1, <1>2, <1>3, <1>4 DEF IInv, TypeOK

LEMMA SpecInv == Spec => []IInv
  BY InitInv, StepInv, PTL DEF Spec

\* Every variable keeps its type: in particular the attempts, the drain
\* counter and the sends stay within their bounds.
THEOREM TypeCorrect == Spec => []TypeOK
  BY SpecInv, PTL DEF IInv

\* The transfer and the response buffer are never released, nor read as a
\* reply, while the kernel holds them.
THEOREM BufferSafety == Spec => []BufferOwned
<1>1. IInv => BufferOwned
  BY DEF IInv, TransferInv, BufferOwned, InKernel
<1> QED
  BY <1>1, SpecInv, PTL

\* No wakeup is lost although the flag is cleared after the resubmission.
THEOREM NoLostWakeup == Spec => []FlagExact
<1>1. IInv => FlagExact
  BY DEF IInv, TypeOK, DataOK, TransferInv, FlagExact, InKernel
<1> QED
  BY <1>1, SpecInv, PTL

\* A resubmitted receive never outlasts the wait it belongs to.
THEOREM DeadlineSafety == Spec => []DeadlineKept
<1>1. IInv => DeadlineKept
  BY DEF IInv, TransferInv, DeadlineKept
<1> QED
  BY <1>1, SpecInv, PTL

\* Only a read is sent again, and only after its attempt timed out.
THEOREM ResendSafety == Spec => ResentOnlyOnTimeout
<1>1. IInv /\ [Next]_vars =>
        [sent' > sent /\ sent > 0 => cmd = "read" /\ outcome = "timeout"]_vars
  <2> SUFFICES ASSUME IInv, Next, sent' > sent, sent > 0
               PROVE  cmd = "read" /\ outcome = "timeout"
    OBVIOUS
  <2>1. sent \in Nat /\ attempt \in Nat /\ cmd \in Commands
    BY ConstantsAssumption DEF IInv, TypeOK, DataOK
  <2>2. Post
    <3>1. Thread /\ ~Post => sent' = sent
      BY DEF Thread, DrainRead, DrainQuiet, DrainFails, PostFails, Wake,
         Inspect, GiveUp, Resubmit, ResubmitFails, ClearFlag, Cleanup,
         Settled, Free, Retry, Return
    <3>2. Control \/ HandleEvents \/ TimerFires \/ Environment \/ Tick => sent' = sent
      BY DEF Control, ControlSucceeds, ControlFails, HandleEvents, Reap,
         EventsFail, TimerFires, Environment, Land, LandFault, Deliver,
         Arrive, Chatter, Tick, driver
    <3>3. Begin => sent' = 0
      BY DEF Begin
    <3> QED
      BY <2>1, <3>1, <3>2, <3>3 DEF Next
  <2>3. sent = attempt - 1 /\ outcome = "timeout" /\ attempt <= Attempts(cmd)
    BY <2>2 DEF Post, IInv, CountInv
  <2> QED
    BY <2>1, <2>3 DEF Attempts, Commands
<1> QED
  BY <1>1, SpecInv, PTL DEF Spec, ResentOnlyOnTimeout

\* An exchange, with all its transfers and races, is one call of
\* ExchangePromise: it sends within the limit of the request's kind, and
\* reports a timeout only when every attempt went out.
THEOREM ImplementsPromise == Spec => Promise!AInit /\ [][Promise!ANext]_(Promise!avars)
<1>1. Init => Promise!AInit
  BY DEF Init, Promise!AInit, Promise!Commands, Commands
<1>2. IInv /\ [Next]_vars => [Promise!ANext]_(Promise!avars)
  <2> SUFFICES ASSUME IInv, [Next]_vars
               PROVE  Promise!ANext \/ UNCHANGED Promise!avars
    OBVIOUS
  <2> USE DEF Promise!avars
  <2>1. CASE Begin
    BY <2>1 DEF Begin, Promise!ANext, Promise!ACall, Promise!Commands, Commands
  <2>2. CASE Post
    <3>1. sent = attempt - 1 /\ attempt <= Attempts(cmd) /\ attempt \in Nat
      BY <2>2, ConstantsAssumption DEF Post, IInv, TypeOK, DataOK, CountInv
    <3>2. sent < Promise!Limit(cmd)
      BY <3>1, ConstantsAssumption DEF Attempts, Promise!Limit
    <3> QED
      BY <2>2, <3>2 DEF Post, Promise!ANext, Promise!ASend
  <2>3. CASE Return
    <3>1. /\ attempt \in Nat \ {0} /\ attempt <= Attempts(cmd) /\ sent \in Nat
          /\ outcome \in {"ok", "timeout", "error"}
          /\ sent = attempt \/ outcome = "error"
          /\ ~(outcome = "timeout" /\ attempt < Attempts(cmd))
      BY <2>3, ConstantsAssumption
      DEF Return, IInv, TypeOK, DataOK, CountInv, Outcomes
    <3>2. Attempts(cmd) \in Nat /\ Promise!Limit(cmd) = Attempts(cmd)
      BY ConstantsAssumption DEF Attempts, Promise!Limit
    <3>3. \/ outcome = "ok" /\ sent > 0
          \/ outcome = "timeout" /\ sent = Promise!Limit(cmd)
          \/ outcome = "error"
      BY <3>1, <3>2
    <3> QED
      BY <2>3, <3>3 DEF Return, Promise!ANext, Promise!AReturn
  <2>4. CASE Thread /\ ~Post /\ ~Return
    BY <2>4 DEF Thread, DrainRead, DrainQuiet, DrainFails, Fail, PostFails, Wake,
       Inspect, GiveUp, Resubmit, ResubmitFails, ClearFlag, Cleanup,
       Settled, Free, Retry
  <2>5. CASE Control \/ HandleEvents \/ TimerFires \/ Environment \/ Tick
    BY <2>5 DEF Control, ControlSucceeds, ControlFails, HandleEvents, Reap,
       EventsFail, TimerFires, Environment, Land, LandFault, Deliver,
       Arrive, Chatter, Tick, driver
  <2>6. CASE UNCHANGED vars
    BY <2>6 DEF vars, driver
  <2> QED
    BY <2>1, <2>2, <2>3, <2>4, <2>5, <2>6 DEF Next
<1> QED
  BY <1>1, <1>2, SpecInv, PTL DEF Spec

-----------------------------------------------------------------------------
(* Answers. *)

\* What may pass for the answer is the answer, or a look-alike is known to be
\* about.
Fresh(r) == r.class = "match" => r.mine \/ late

\* From the drain on, what is queued, and what the transfer has brought, is
\* fresh; and success has kept what it accepted.
FreshInv ==
  /\ pc \in {"post"} \cup Posted => \A i \in DOMAIN inbox : Fresh(inbox[i])
  /\ xfer = "landed" /\ ~fault => Fresh(buffer)
  /\ xfer = "none" => status = "none"
  /\ status = "completed" => Fresh(buffer)
  /\ outcome = "ok" =>
       /\ pc \in {"cleanup", "free", "again", "done"} /\ xfer \in {"none", "idle"}
       /\ buffer.class = "match" /\ Fresh(buffer)

\* Handing out the oldest report leaves fresh ones, and brings one.
LEMMA HandedOut ==
  ASSUME inbox \in Seq(Reports), inbox # <<>>, inbox' = Tail(inbox), late' = late,
         \A i \in DOMAIN inbox : Fresh(inbox[i])
  PROVE  Fresh(Head(inbox)) /\ \A i \in DOMAIN inbox' : Fresh(inbox[i])'
<1>1. Head(inbox) = inbox[1] /\ 1 \in DOMAIN inbox
  OBVIOUS
<1>2. \A i \in DOMAIN Tail(inbox) : Tail(inbox)[i] = inbox[i + 1] /\ i + 1 \in DOMAIN inbox
  OBVIOUS
<1> QED
  BY <1>1, <1>2 DEF Fresh

LEMMA FreshStep == IInv /\ FreshInv /\ [Next]_vars => FreshInv'
<1> SUFFICES ASSUME IInv, FreshInv, [Next]_vars PROVE FreshInv'
  OBVIOUS
<1>0. /\ inbox \in Seq(Reports) /\ TransferInv /\ xfer \in {"none", "idle", "flying", "landed", "discarded"}
      /\ pc \in {"done", "drain", "post", "again"} \cup Posted
  BY DEF IInv, TypeOK, ReportsOK, DataOK, Posted
\* A report that is lost to a cancelled receive may still have come.
<1>1. ASSUME NEW b, Discard(b), xfer # "none", outcome # "ok", pc \in Posted,
             pc' \in Posted,
             UNCHANGED <<fault, status, late, outcome>>
      PROVE  FreshInv'
  <2>1. CASE UNCHANGED <<inbox, buffer>>
    BY <1>1, <2>1 DEF Discard, FreshInv, Fresh
  <2>2. CASE inbox # <<>> /\ inbox' = Tail(inbox) /\ buffer' = Head(inbox) /\ xfer = "flying"
    <3>1. Fresh(Head(inbox)) /\ \A i \in DOMAIN inbox' : Fresh(inbox[i])'
      BY <1>0, <1>1, <2>2, HandedOut DEF FreshInv
    <3> QED
      BY <1>1, <2>2, <3>1 DEF Discard, FreshInv, Fresh
  <2> QED
    BY <1>1, <2>1, <2>2 DEF Discard
<1>2. CASE Begin
  <2>1. xfer = "none" /\ status = "none"
    BY <1>0, <1>2 DEF Begin, TransferInv, FreshInv
  <2> QED
    BY <1>2, <2>1 DEF Begin, FreshInv, Fresh, Posted, NoReport
<1>3. CASE DrainRead \/ DrainFails \/ PostFails
  BY <1>3 DEF DrainRead, DrainFails, PostFails, Fail, FreshInv, Fresh, Posted, transfer, device
<1>4. CASE DrainQuiet
  <2>1. xfer = "none" /\ status = "none" /\ outcome # "ok"
    BY <1>0, <1>4 DEF DrainQuiet, TransferInv, FreshInv
  <2>2. \A i \in DOMAIN inbox : inbox[i].class = "match" => inbox[i].mine \/ late'
    <3>1. CASE inbox = <<>>
      BY <3>1
    <3>2. CASE inbox # <<>>
      <4>1. PollMisses
        BY <1>4, <3>2 DEF DrainQuiet, Quiet
      <4>2. ASSUME NEW i \in DOMAIN inbox, inbox[i].class = "match", ~inbox[i].mine
            PROVE  late'
        BY <1>4, <4>1, <4>2 DEF DrainQuiet
      <4> QED
        BY <4>2
    <3> QED
      BY <3>1, <3>2
  <2> QED
    BY <1>4, <2>1, <2>2 DEF DrainQuiet, FreshInv, Fresh, transfer
<1>5. CASE Post
  BY <1>0, <1>5 DEF Post, TransferInv, FreshInv, Fresh
<1>6. CASE ControlSucceeds \/ ControlFails \/ Wake \/ GiveUp \/ ResubmitFails \/ Settled
           \/ Retry \/ Return \/ Tick
  <2>1. UNCHANGED <<inbox, buffer, late, xfer, fault, status>>
    BY <1>6 DEF ControlSucceeds, ControlFails, Wake, GiveUp, ResubmitFails, Settled,
       Retry, Return, Tick, transfer, device
  <2>2. /\ pc' \in {"post"} \cup Posted => pc \in Posted \/ pc' = pc
        /\ outcome' = "ok" => outcome = "ok" /\ (pc' = pc \/ pc' \in {"free", "again", "done"})
    BY <1>6 DEF ControlSucceeds, ControlFails, Wake, GiveUp, ResubmitFails, Settled,
       Retry, Return, Tick, Posted, FreshInv
  <2> QED
    BY <2>1, <2>2 DEF FreshInv, Fresh
<1>7. CASE Inspect
  <2>1. xfer = "idle"
    BY <1>0, <1>7 DEF Inspect, TransferInv
  <2>2. outcome' = "ok" => status = "completed" /\ buffer.class = "match" /\ pc' = "cleanup"
    BY <1>7 DEF Inspect, Verdict
  <2> QED
    BY <1>7, <2>1, <2>2 DEF Inspect, FreshInv, Fresh, Posted, transfer, device
<1>8. CASE Resubmit \/ ClearFlag
  BY <1>8 DEF Resubmit, ClearFlag, FreshInv, Fresh, Posted, device
<1>9. CASE Cleanup
  <2>1. CASE completed
    BY <1>9, <2>1 DEF Cleanup, FreshInv, Fresh, Posted
  <2>2. CASE ~completed
    <3>1. xfer # "none" /\ xfer # "idle"
      BY <1>0, <1>9, <2>2 DEF Cleanup, TransferInv
    <3>2. outcome # "ok"
      BY <3>1 DEF FreshInv
    <3> QED
      BY <1>1, <1>9, <2>2, <3>1, <3>2 DEF Cleanup, Posted
  <2> QED
    BY <2>1, <2>2
<1>10. CASE Free
  BY <1>10 DEF Free, FreshInv, Fresh, Posted, device
<1>11. CASE Land
  <2>1. pc \in Posted /\ outcome # "ok"
    BY <1>0, <1>11 DEF Land, TransferInv, FreshInv
  <2>2. Fresh(Head(inbox)) /\ \A i \in DOMAIN inbox' : Fresh(inbox[i])'
    BY <1>0, <1>11, <2>1, HandedOut DEF FreshInv, Land
  <2> QED
    BY <1>11, <2>1, <2>2 DEF Land, FreshInv, Fresh, driver
<1>12. CASE LandFault
  BY <1>12 DEF LandFault, FreshInv, Fresh, driver, device
<1>13. CASE TimerFires \/ EventsFail
  <2>1. pc' = pc /\ pc \in {"control", "await", "settle"} /\ UNCHANGED <<fault, status, late, outcome>>
    BY <1>13 DEF TimerFires, EventsFail, HandlingEvents, driver
  <2>2. xfer # "none" /\ outcome # "ok"
    BY <1>0, <2>1 DEF TransferInv, FreshInv
  <2>3. CASE TimerFires \/ ~eventError
    <3>1. Discard(TRUE) \/ Discard(FALSE)
      BY <1>13, <2>3 DEF TimerFires, EventsFail
    <3> QED
      BY <1>1, <2>1, <2>2, <3>1 DEF Posted
  <2>4. CASE EventsFail /\ eventError
    BY <2>4 DEF EventsFail, FreshInv, Fresh
  <2> QED
    BY <1>13, <2>3, <2>4
<1>14. CASE Reap
  <2>1. outcome # "ok"
    BY <1>14 DEF Reap, FreshInv
  <2>2. status' = "completed" => Fresh(buffer)
    BY <1>14 DEF Reap, FreshInv
  <2> QED
    BY <1>14, <2>1, <2>2 DEF Reap, FreshInv, Fresh, driver, device
<1>15. CASE Deliver
  BY <1>15 DEF Deliver, FreshInv, Fresh, driver, transfer
<1>16. ASSUME NEW r, Queue(r), r \in Reports, UNCHANGED <<driver, transfer>>
       PROVE  FreshInv'
  <2>1. late => late'
    BY <1>16 DEF Queue
  <2>2. pc \in {"post"} \cup Posted /\ r.class = "match" => r.mine \/ late'
    BY <1>16 DEF Queue, Posted
  <2>3. inbox' = Append(inbox, r)
    BY <1>16 DEF Queue
  <2>4. \A i \in DOMAIN Append(inbox, r) :
          (i \in DOMAIN inbox /\ Append(inbox, r)[i] = inbox[i]) \/ Append(inbox, r)[i] = r
    BY <1>0, <1>16
  <2>5. UNCHANGED <<pc, xfer, fault, status, buffer, outcome>>
    BY <1>16 DEF driver, transfer
  <2>6. pc \in {"post"} \cup Posted => \A i \in DOMAIN inbox' : Fresh(inbox[i])'
    BY <2>1, <2>2, <2>3, <2>4 DEF FreshInv, Fresh
  <2> QED
    BY <2>1, <2>5, <2>6 DEF FreshInv, Fresh
<1>17. CASE Arrive
  BY <1>16, <1>17 DEF Arrive, transfer, IInv, TypeOK, ReportsOK
<1>18. CASE Chatter
  BY <1>16, <1>18 DEF Chatter, NoReport, Reports, Classes, transfer
<1>19. CASE UNCHANGED vars
  BY <1>19 DEF vars, driver, transfer, device, FreshInv, Fresh
<1> QED
  BY <1>2, <1>3, <1>4, <1>5, <1>6, <1>7, <1>8, <1>9, <1>10, <1>11, <1>12, <1>13, <1>14,
     <1>15, <1>17, <1>18, <1>19
  DEF Next, Thread, Control, HandleEvents, Environment

\* Success returns a reply that matches and answers this very request, unless
\* a stale look-alike was queued after the last drain or kept back from it:
\* on every path through drains, ignored replies, cancelled and resubmitted
\* receives, and retries (driver.c, exchange_once and wait_for_reply).
THEOREM AnswersSound == Spec => []AnswerSound
<1>1. Init => FreshInv
  BY DEF Init, FreshInv, Posted
<1>2. IInv /\ FreshInv /\ [Next]_vars => FreshInv'
  BY FreshStep
<1>3. FreshInv => AnswerSound
  BY DEF FreshInv, AnswerSound, Fresh
<1> QED
  BY <1>1, <1>2, <1>3, SpecInv, PTL DEF Spec
=============================================================================
