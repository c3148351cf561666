------------------------------ MODULE Exchange ------------------------------
(***************************************************************************)
(* One request/reply exchange of src/driver.c (exchange, exchange_once,    *)
(* discard_pending_replies, wait_for_reply, complete_interrupt) over the   *)
(* life cycle libusb and the kernel give the interrupt transfer that       *)
(* carries the reply.  Exchanges follow one another for ever, as in        *)
(* set_sensitivity; what one leaves in the mouse's endpoint queue or on    *)
(* its way there is met by the next.                                       *)
(*                                                                         *)
(* A report is reduced to what the driver can tell: its class relative to  *)
(* the request of the running exchange, and the ghost field "mine", true   *)
(* when the mouse sent it in answer to this exchange.                      *)
(*   match    passes every test of wait_for_reply                          *)
(*   invalid  names the request but fails a test: the wait ends with -1    *)
(*   other    is ignored (another command or address, a wrong length, or   *)
(*            for a write an echo that is not identical)                   *)
(***************************************************************************)
EXTENDS Naturals, Sequences

CONSTANTS
  ReadAttempts,      \* 3 in the code
  DrainLimit,        \* 64 in the code
  Timeout,           \* 1000 or 4000 ms in the code, here in clock ticks
  QueueCap,          \* bound: reports held by the mouse's endpoint
  MaxEventErrors,    \* bound: failing event-handling calls per exchange
  PersistentErrors,  \* event handling may go on failing without end
  PollMisses         \* a queued report may outlive the 1 ms drain read

ASSUME ConstantsAssumption ==
  /\ ReadAttempts \in Nat \ {0}
  /\ DrainLimit \in Nat \ {0}
  /\ Timeout \in Nat \ {0}
  /\ QueueCap \in Nat \ {0}
  /\ MaxEventErrors \in Nat
  /\ PersistentErrors \in BOOLEAN
  /\ PollMisses \in BOOLEAN

\* The battery query counts as a write here: one attempt, the long timeout.
Commands == {"read", "write"}
Classes == {"match", "invalid", "other"}
Reports == [class : Classes, mine : BOOLEAN]
Stale == [class : Classes, mine : {FALSE}]
NoReport == [class |-> "other", mine |-> FALSE]
Outcomes == {"none", "ok", "timeout", "error"}

VARIABLES
  pc, cmd, attempt, drained,  \* control state, request kind, loop counters
  sent,       \* control transfers issued in this exchange
  outcome,    \* status of the attempt, then what exchange returns
  eventError, \* "error" of complete_interrupt
  errs,       \* failing event-handling calls in this exchange
  xfer,       \* none, idle, flying, landed or discarded
  fault,      \* the landed URB carries a USB error instead of a report
  timedOut,   \* USBI_TRANSFER_TIMED_OUT
  completed,  \* the flag the callback sets
  status,     \* transfer->status
  buffer,     \* response
  xtimer,     \* ticks until the transfer's own timeout
  budget,     \* ticks until wait_for_reply's deadline
  inbox,      \* reports queued in the mouse's endpoint
  air,        \* reports the mouse will queue later, in any order
  delivered,  \* the mouse has taken this attempt's request
  late        \* ghost: a stale match was queued after the drain, or kept back from it

driver == <<pc, cmd, attempt, drained, sent, outcome, eventError, errs, budget>>
transfer == <<xfer, fault, timedOut, completed, status, buffer, xtimer>>
device == <<inbox, air, delivered, late>>
vars == <<driver, transfer, device>>

\* Mutants, here and below: a plausible slip in the definition that follows.
AttemptsForAll(c) == ReadAttempts

Attempts(c) == IF c = "read" THEN ReadAttempts ELSE 1

InKernel == xfer \in {"flying", "landed", "discarded"}

HandlingEventsAnywhere == TRUE

\* libusb runs timers and callbacks only inside a call that handles events.
HandlingEvents == pc \in {"control", "await", "settle"}

QuietAtOnce == TRUE

\* A 1 ms read of the drain times out.
Quiet == inbox = <<>> \/ PollMisses

RemainingAfresh == Timeout

\* transfer->timeout of a receive that is submitted again.
Remaining == budget

-----------------------------------------------------------------------------
FlagsOK ==
  /\ eventError \in BOOLEAN /\ fault \in BOOLEAN /\ timedOut \in BOOLEAN
  /\ completed \in BOOLEAN /\ delivered \in BOOLEAN /\ late \in BOOLEAN

DataOK ==
  /\ pc \in {"done", "drain", "post", "control", "await", "inspect", "clock",
             "clear", "cleanup", "settle", "free", "again"}
  /\ cmd \in Commands
  /\ attempt \in 1 .. ReadAttempts
  /\ drained \in 0 .. DrainLimit
  /\ sent \in 0 .. ReadAttempts
  /\ outcome \in Outcomes
  /\ errs \in 0 .. (MaxEventErrors + 1)
  /\ xfer \in {"none", "idle", "flying", "landed", "discarded"}
  /\ status \in {"none", "completed", "timed_out", "failed"}
  /\ xtimer \in 0 .. Timeout /\ budget \in 0 .. Timeout

ReportsOK ==
  /\ buffer \in Reports
  /\ inbox \in Seq(Reports) /\ Len(inbox) <= QueueCap
  /\ air \subseteq Reports

TypeOK == FlagsOK /\ DataOK /\ ReportsOK

\* The program starts with whatever an earlier run left in the mouse.
Init ==
  /\ pc = "done" /\ cmd \in Commands /\ attempt = 1 /\ drained = 0
  /\ sent = 0 /\ outcome = "none" /\ eventError = FALSE /\ errs = 0
  /\ xfer = "none" /\ fault = FALSE /\ timedOut = FALSE
  /\ completed = FALSE /\ status = "none" /\ buffer = NoReport
  /\ xtimer = 0 /\ budget = 0
  /\ inbox \in {<<>>} \cup {<<r>> : r \in Stale}
  /\ air \in {{}} \cup {{r} : r \in Stale}
  /\ delivered = FALSE /\ late = FALSE

-----------------------------------------------------------------------------
(* The driver's thread, outside libusb. *)

\* A new request: every report still under way is now stale, and its class
\* is judged against the new request.
Begin ==
  /\ pc = "done"
  /\ cmd' \in Commands
  /\ pc' = "drain" /\ sent' = 0 /\ outcome' = "none"
  /\ \E m \in [Classes -> Classes] :
       LET Restale(r) == [class |-> m[r.class], mine |-> FALSE]
       IN  /\ inbox' = [i \in DOMAIN inbox |-> Restale(inbox[i])]
           /\ air' = {Restale(r) : r \in air}
  /\ buffer' = NoReport
  /\ UNCHANGED <<attempt, drained, eventError, errs, budget, xfer, fault,
                 timedOut, completed, status, xtimer, delivered, late>>

\* exchange_once returned without a transfer left to free.
Fail == pc' = "again" /\ outcome' = "error"

DrainRead ==
  /\ pc = "drain" /\ inbox # <<>>
  /\ inbox' = Tail(inbox)
  /\ drained' = drained + 1
  /\ IF drained' = DrainLimit THEN Fail ELSE UNCHANGED <<pc, outcome>>
  /\ UNCHANGED <<cmd, attempt, sent, eventError, errs, budget, transfer,
                 air, delivered, late>>

DrainQuiet ==
  /\ pc = "drain" /\ Quiet
  /\ pc' = "post" /\ drained' = 0
  /\ late' = (PollMisses /\ \E i \in DOMAIN inbox : inbox[i].class = "match" /\ ~inbox[i].mine)
  /\ UNCHANGED <<cmd, attempt, sent, outcome, eventError, errs,
                 budget, transfer, inbox, air, delivered>>

DrainFails ==
  /\ pc = "drain" /\ Fail
  /\ UNCHANGED <<cmd, attempt, drained, sent, eventError, errs, budget,
                 transfer, device>>

\* Allocate, fill and submit the receive, then start the control transfer.
Post ==
  /\ pc = "post"
  /\ pc' = "control" /\ sent' = sent + 1
  /\ xfer' = "flying" /\ xtimer' = Timeout /\ timedOut' = FALSE
  /\ completed' = FALSE /\ delivered' = FALSE
  /\ UNCHANGED <<cmd, attempt, drained, outcome, eventError, errs, budget,
                 fault, status, buffer, inbox, air, late>>

PostFails ==
  /\ pc = "post" /\ Fail
  /\ UNCHANGED <<cmd, attempt, drained, sent, eventError, errs, budget,
                 transfer, device>>

\* All 17 bytes went out: start the clock and wait.
ControlSucceeds ==
  /\ pc = "control" /\ delivered
  /\ pc' = "await" /\ budget' = Timeout /\ eventError' = FALSE
  /\ UNCHANGED <<cmd, attempt, drained, sent, outcome, errs, transfer, device>>

\* A control error or a short write, whether or not the mouse took the
\* request; or clock_gettime failing before the first wait.
ControlFails ==
  /\ pc = "control"
  /\ pc' = "cleanup" /\ outcome' \in {"timeout", "error"}
  /\ UNCHANGED <<cmd, attempt, drained, sent, eventError, errs, budget,
                 transfer, device>>

\* complete_interrupt leaves its loop.
Wake ==
  /\ pc = "await" /\ completed
  /\ pc' = "inspect"
  /\ UNCHANGED <<cmd, attempt, drained, sent, outcome, eventError, errs,
                 budget, transfer, device>>

\* What wait_for_reply makes of a finished transfer.
Verdict ==
  CASE eventError -> "error"
    [] ~eventError /\ status = "timed_out" -> "timeout"
    [] ~eventError /\ status = "failed" -> "error"
    [] ~eventError /\ status = "completed" /\ buffer.class = "match" -> "ok"
    [] ~eventError /\ status = "completed" /\ buffer.class = "invalid" -> "error"
    [] OTHER -> "none"

Inspect ==
  /\ pc = "inspect"
  /\ outcome' = Verdict
  /\ pc' = IF Verdict = "none" THEN "clock" ELSE "cleanup"
  /\ UNCHANGED <<cmd, attempt, drained, sent, eventError, errs, budget,
                 transfer, device>>

\* The deadline has passed, or the clock cannot be read.
GiveUp ==
  /\ pc = "clock"
  /\ \/ budget = 0 /\ outcome' = "timeout"
     \/ outcome' = "error"
  /\ pc' = "cleanup"
  /\ UNCHANGED <<cmd, attempt, drained, sent, eventError, errs, budget,
                 transfer, device>>

\* An ignored report: receive again, for the time that is left.
Resubmit ==
  /\ pc = "clock" /\ budget > 0
  /\ pc' = "clear"
  /\ xfer' = "flying" /\ xtimer' = Remaining /\ timedOut' = FALSE
  /\ UNCHANGED <<cmd, attempt, drained, sent, outcome, eventError, errs,
                 budget, fault, completed, status, buffer, device>>

ResubmitFails ==
  /\ pc = "clock" /\ budget > 0
  /\ pc' = "cleanup" /\ outcome' = "error"
  /\ UNCHANGED <<cmd, attempt, drained, sent, eventError, errs, budget,
                 transfer, device>>

\* *completed = 0 comes after the transfer is on its way.
ClearFlag ==
  /\ pc = "clear"
  /\ pc' = "await" /\ completed' = FALSE /\ eventError' = FALSE
  /\ UNCHANGED <<cmd, attempt, drained, sent, outcome, errs, budget, xfer,
                 fault, timedOut, status, buffer, xtimer, device>>

\* Cancelling acts on a transfer the kernel still holds.  A report that
\* completes while the URB is being discarded is reaped as surplus data of a
\* cancelled transfer, so the driver never looks at it.
Discard(byTimer) ==
  IF xfer = "flying"
  THEN /\ xfer' = "discarded" /\ timedOut' = byTimer
       /\ \/ UNCHANGED <<inbox, buffer>>
          \/ /\ inbox # <<>>
             /\ inbox' = Tail(inbox) /\ buffer' = Head(inbox)
  ELSE UNCHANGED <<xfer, timedOut, inbox, buffer>>

CleanupForgets ==
  /\ pc = "cleanup"
  /\ pc' = "free" /\ eventError' = FALSE
  /\ UNCHANGED <<cmd, attempt, drained, sent, outcome, errs, budget, transfer,
                 device>>

Cleanup ==
  /\ pc = "cleanup"
  /\ IF completed
     THEN pc' = "free" /\ UNCHANGED <<xfer, timedOut, buffer, inbox>>
     ELSE pc' = "settle" /\ Discard(FALSE)
  /\ eventError' = FALSE
  /\ UNCHANGED <<cmd, attempt, drained, sent, outcome, errs, budget, fault,
                 completed, status, xtimer, air, delivered, late>>

\* The outcome of the cancelled receive is only printed.
Settled ==
  /\ pc = "settle" /\ completed
  /\ pc' = "free"
  /\ UNCHANGED <<cmd, attempt, drained, sent, outcome, eventError, errs,
                 budget, transfer, device>>

Free ==
  /\ pc = "free"
  /\ pc' = "again" /\ xfer' = "none" /\ budget' = 0 /\ xtimer' = 0
  /\ fault' = FALSE /\ timedOut' = FALSE /\ completed' = FALSE
  /\ status' = "none"
  /\ UNCHANGED <<cmd, attempt, drained, sent, outcome, eventError, errs,
                 buffer, device>>

\* The loop of exchange: only a timeout is retried, and only for a read.
Retry ==
  /\ pc = "again"
  /\ outcome = "timeout" /\ attempt < Attempts(cmd)
  /\ pc' = "drain" /\ attempt' = attempt + 1 /\ drained' = 0
  /\ UNCHANGED <<cmd, sent, outcome, eventError, errs, budget, transfer, device>>

Return ==
  /\ pc = "again"
  /\ ~(outcome = "timeout" /\ attempt < Attempts(cmd))
  /\ pc' = "done" /\ attempt' = 1 /\ drained' = 0 /\ errs' = 0
  /\ eventError' = FALSE /\ delivered' = FALSE
  /\ UNCHANGED <<cmd, sent, outcome, budget, transfer, inbox, air, late>>

-----------------------------------------------------------------------------
(* libusb event handling, and the kernel. *)

\* The URB completes with the oldest queued report, or with a USB error.
Land ==
  /\ xfer = "flying" /\ inbox # <<>>
  /\ xfer' = "landed" /\ fault' = FALSE
  /\ inbox' = Tail(inbox) /\ buffer' = Head(inbox)
  /\ UNCHANGED <<driver, timedOut, completed, status, xtimer, air, delivered, late>>

LandFault ==
  /\ xfer = "flying"
  /\ xfer' = "landed" /\ fault' = TRUE
  /\ UNCHANGED <<driver, timedOut, completed, status, buffer, xtimer, device>>

\* The transfer's timer expires while the URB is still pending; once the URB
\* has landed the timer finds nothing to discard.
TimerFires ==
  /\ HandlingEvents /\ xfer = "flying" /\ xtimer = 0
  /\ Discard(TRUE)
  /\ UNCHANGED <<driver, fault, completed, status, xtimer, air, delivered, late>>

\* Reap the URB and run interrupt_complete.
Reap ==
  /\ HandlingEvents /\ xfer \in {"landed", "discarded"}
  /\ xfer' = "idle" /\ completed' = TRUE /\ xtimer' = 0
  /\ status' = CASE xfer = "discarded" /\ timedOut -> "timed_out"
                 [] xfer = "discarded" /\ ~timedOut -> "failed"
                 [] xfer = "landed" /\ fault -> "failed"
                 [] xfer = "landed" /\ ~fault -> "completed"
  /\ UNCHANGED <<driver, fault, timedOut, buffer, device>>

\* libusb_handle_events_completed fails: the first failure of a wait cancels
\* the transfer, and the loop goes on.
EventsFail ==
  /\ pc \in {"await", "settle"} /\ ~completed
  /\ errs < MaxEventErrors \/ PersistentErrors
  /\ errs' = IF errs <= MaxEventErrors THEN errs + 1 ELSE MaxEventErrors
  /\ eventError' = TRUE
  /\ IF eventError THEN UNCHANGED <<xfer, timedOut, buffer, inbox>>
                   ELSE Discard(FALSE)
  /\ UNCHANGED <<pc, cmd, attempt, drained, sent, outcome, budget, fault,
                 completed, status, xtimer, air, delivered, late>>

-----------------------------------------------------------------------------
(* The mouse and the clock. *)

\* The mouse takes the request; it may answer, well or badly, or not at all.
Deliver ==
  /\ pc = "control" /\ ~delivered
  /\ delivered' = TRUE
  /\ \/ UNCHANGED air
     \/ \E c \in Classes : air' = air \cup {[class |-> c, mine |-> TRUE]}
  /\ UNCHANGED <<driver, transfer, inbox, late>>

Queue(r) ==
  /\ Len(inbox) < QueueCap
  /\ inbox' = Append(inbox, r)
  /\ late' = (late \/ (r.class = "match" /\ ~r.mine /\ pc \notin {"done", "drain"}))

Arrive ==
  /\ \E r \in air : Queue(r) /\ air' = air \ {r}
  /\ UNCHANGED <<driver, transfer, delivered>>

\* Reports nobody asked for.
Chatter ==
  /\ Queue(NoReport)
  /\ UNCHANGED <<driver, transfer, air, delivered>>

Less(n) == IF n = 0 THEN 0 ELSE n - 1

Tick ==
  /\ xtimer > 0 \/ budget > 0
  /\ xtimer' = Less(xtimer) /\ budget' = Less(budget)
  /\ UNCHANGED <<pc, cmd, attempt, drained, sent, outcome, eventError, errs,
                 xfer, fault, timedOut, completed, status, buffer, device>>

-----------------------------------------------------------------------------
Control == ControlSucceeds \/ ControlFails

Thread ==
  \/ DrainRead \/ DrainQuiet \/ DrainFails \/ Post \/ PostFails
  \/ Wake \/ Inspect \/ GiveUp \/ Resubmit \/ ResubmitFails \/ ClearFlag
  \/ Cleanup \/ Settled \/ Free \/ Retry \/ Return

Environment == Land \/ LandFault \/ Deliver \/ Arrive \/ Chatter

HandleEvents == Reap \/ EventsFail

Next == Begin \/ Thread \/ Control \/ TimerFires \/ HandleEvents \/ Environment \/ Tick

\* The thread runs, a control transfer ends within its own timeout, the clock
\* advances, and a call that handles events does run timers and reap or fail.
Fairness ==
  /\ WF_vars(Thread) /\ WF_vars(Control) /\ WF_vars(TimerFires)
  /\ WF_vars(HandleEvents) /\ WF_vars(Tick)

Spec == Init /\ [][Next]_vars /\ Fairness
-----------------------------------------------------------------------------
(* Properties *)

\* The transfer structure and the response buffer, both owned by the frame of
\* exchange_once and its caller, are never released or read as a reply while
\* the kernel may still write to them, on any error path.
BufferOwned ==
  pc \in {"done", "drain", "post", "inspect", "clock", "free", "again"} => ~InKernel

\* No lost wakeup and no early one: inside a wait the flag says exactly
\* whether the transfer is out of the kernel, although wait_for_reply clears
\* it only after the transfer has been submitted again.
FlagExact == pc \in {"control", "await", "settle"} => (completed <=> ~InKernel)

\* However many reports are ignored, the transfer that is waited for never
\* outlasts the deadline of wait_for_reply.
DeadlineKept == pc = "await" => xtimer <= budget

\* When exchange returns 0, response still holds the accepted reply, and it
\* answers this very request unless a stale look-alike was queued after the
\* last drain, or the mouse had it then and did not hand it out.
AnswerSound ==
  pc = "done" /\ outcome = "ok" => buffer.class = "match" /\ (buffer.mine \/ late)

\* A request is sent again only after an attempt that timed out, and a write
\* never is.
ResentOnlyOnTimeout ==
  [][sent' > sent /\ sent > 0 => cmd = "read" /\ outcome = "timeout"]_vars

\* docs/dpi-target-resolver.md:94: "The queue drain and response waits are
\* bounded."
ResponseWaitsBounded == pc \in {"await", "settle"} ~> pc \notin {"await", "settle"}

Promise == INSTANCE ExchangePromise WITH
  phase <- IF pc = "done" THEN "idle" ELSE "busy",
  request <- cmd,
  sends <- sent,
  verdict <- IF pc = "done" THEN outcome ELSE "none"

\* The exchange implements what its callers rely on.
KeepsPromise == Promise!ASpec
=============================================================================
