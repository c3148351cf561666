---------------------------- MODULE UsbTransfer ----------------------------
(***************************************************************************)
(* One libusb transfer on Linux, from libusb_submit_transfer to its        *)
(* callback: libusb/io.c and the usbfs back end, libusb/os/linux_usbfs.c.  *)
(* A large transfer is split into several kernel requests (URBs), which    *)
(* are submitted one ioctl at a time while the kernel already works on     *)
(* them.  It may be cancelled by the application or by its timer, end      *)
(* short, fail half submitted, or lose its device.  Two threads: "app"     *)
(* submits, cancels and, while it waits for events, handles timeouts;      *)
(* "event" polls, reaps and calls back.  Which thread may do so is module  *)
(* UsbEvents, when a timer fires is UsbTimers.                             *)
(***************************************************************************)
EXTENDS Naturals, Sequences

CONSTANTS
  Kinds,     \* of "bulk", "interrupt", "control", "iso"
  Modes,     \* how bulk is split: of "whole", "continuation", "split"
  Lengths,   \* lengths of transfers, in cells (packets, if isochronous)
  Chunk,     \* cells in a URB: MAX_BULK_BUFFER_LENGTH, MAX_ISO_PACKETS_PER_URB
  MaxSubmits \* bound: submissions

ASSUME UsbTransferAssumption ==
  /\ Kinds \subseteq {"bulk", "interrupt", "control", "iso"}
  /\ Modes \subseteq {"whole", "continuation", "split"}
  /\ Lengths \subseteq Nat /\ Chunk \in Nat \ {0} /\ MaxSubmits \in Nat

Threads == {"app", "event"}

VARIABLES
  kind, mode, length, timed, \* the transfer
  has,        \* tpriv->urbs is not NULL
  num, retired, action, reapStatus, offset,
  urbs,       \* the URBs: where each is, its status and the cells it carries
  done,       \* completed URBs the kernel has not handed back, oldest first
  broken,     \* the kernel refuses further URBs of this bulk transfer
  sent,       \* cells the device has delivered
  alive,      \* the device is plugged in
  reapAfter,  \* USBFS_CAP_REAP_AFTER_DISCONNECT, once it matters
  link,       \* the descriptor: "watched", "dropped" from the poll set, "over"
  flying, inflight, cancelling, handled, timedout, transferred,
  buf,        \* cell by cell; for "iso", which packet's result a slot holds
  flock, xlock, \* flying_transfers_lock and itransfer->lock: who has them
  pc,
  walk,       \* where each thread is in discard_urbs
  cur,        \* the URB being handled
  result,     \* the status to report
  told,       \* the status last reported; "pending" until then
  cancelled,  \* ghost: libusb_cancel_transfer has returned success
  submits

job == <<kind, mode, length, timed>>
priv == <<has, num, retired, action, reapStatus, offset>>
kernel == <<urbs, done, broken, sent, alive, reapAfter>>
flags == <<flying, inflight, cancelling, handled, timedout>>
data == <<transferred, buf>>
threads == <<pc, walk, cur, result>>
ghosts == <<told, cancelled, submits>>
vars == <<job, priv, kernel, link, flags, data, flock, xlock, threads, ghosts>>

At(t, here) == pc[t] = here
Go(t, there) == pc' = [pc EXCEPT ![t] = there]
Errors == {"stall", "bus"}

\* bulk_buffer_len, and the iso packets of a URB.
PerUrb(k, m, n) ==
  IF k = "control" \/ (k \in {"bulk", "interrupt"} /\ m = "whole")
  THEN IF n = 0 THEN 1 ELSE n ELSE Chunk
UrbCount(k, m, n) ==
  IF n = 0 THEN 1 ELSE (n + PerUrb(k, m, n) - 1) \div PerUrb(k, m, n)

Start(i) == (i - 1) * PerUrb(kind, mode, length)
Size(i) == IF i < num THEN PerUrb(kind, mode, length) ELSE length - Start(i)
Place(b, at, cells) ==
  [c \in DOMAIN b |-> IF c > at /\ c <= at + Len(cells) THEN cells[c - at] ELSE b[c]]

NoUrbs == [i \in {} |-> [st |-> "none", status |-> "ok", cells |-> <<>>]]
NoWalk == [k |-> 0, lo |-> 1, hi |-> 0, ret |-> "ok", why |-> "none"]

Init ==
  /\ kind = "control" /\ mode = "whole" /\ length = 0
  /\ timed = FALSE
  /\ has = FALSE /\ num = 0 /\ retired = 0 /\ action = "normal"
  /\ reapStatus = "completed" /\ offset = 0
  /\ urbs = NoUrbs /\ done = <<>> /\ broken = FALSE /\ sent = 0
  /\ alive = TRUE /\ reapAfter = FALSE /\ link = "watched"
  /\ flying = FALSE /\ inflight = FALSE /\ cancelling = FALSE
  /\ handled = FALSE /\ timedout = FALSE
  /\ transferred = 0 /\ buf = <<>>
  /\ flock = "free" /\ xlock = "free"
  /\ pc = [app |-> "idle", event |-> "poll"]
  /\ walk = [t \in Threads |-> NoWalk] /\ cur = 0 /\ result = "none"
  /\ told = "none" /\ cancelled = FALSE /\ submits = 0

-----------------------------------------------------------------------------
(* libusb_submit_transfer. *)

\* The callback has run, or the submission was refused: a transfer is not
\* submitted again before (BUSY otherwise).
Submit ==
  /\ At("app", "idle") /\ told # "pending" /\ submits < MaxSubmits
  /\ flock = "free" /\ flock' = "app"
  /\ Go("app", "list") /\ submits' = submits + 1
  /\ told' = "none" /\ cancelled' = FALSE
  /\ UNCHANGED <<job, priv, kernel, link, flags, data, xlock, walk, cur, result>>

\* With both locks: clear the transfer, which the caller has filled in, and put
\* it on the list.  The second lock is kept until every URB is submitted.
List ==
  /\ At("app", "list") /\ xlock = "free" /\ ~inflight
  /\ xlock' = "app" /\ flock' = "free"
  /\ \E k \in Kinds, m \in Modes, n \in Lengths :
       /\ kind' = k /\ length' = n /\ timed' \in BOOLEAN
       /\ mode' = IF k \in {"bulk", "interrupt"} THEN m ELSE "whole"
       /\ k = "iso" => n > 0
  /\ flying' = TRUE /\ cancelling' = FALSE /\ handled' = FALSE /\ timedout' = FALSE
  /\ UNCHANGED inflight
  /\ transferred' = 0 /\ buf' = [c \in 1..length' |-> 0] /\ sent' = 0
  /\ has' = TRUE /\ num' = UrbCount(kind', mode', length')
  /\ retired' = 0 /\ action' = "normal" /\ reapStatus' = "completed" /\ offset' = 0
  /\ urbs' = [i \in 1..num' |-> [st |-> "none", status |-> "ok", cells |-> <<>>]]
  /\ broken' = FALSE
  /\ Go("app", "submit") /\ walk' = [walk EXCEPT !["app"] = [NoWalk EXCEPT !.k = 1]]
  /\ UNCHANGED <<done, alive, reapAfter, link, cur, result, ghosts>>

Submitting == walk["app"].k

\* The transfer is submitted, from the caller's point of view.
Accept == inflight' = TRUE /\ told' = "pending" /\ UNCHANGED <<cancelled, submits>>

SubmitUrb ==
  /\ At("app", "submit") /\ alive /\ ~(broken /\ Submitting > 1)
  /\ urbs' = [urbs EXCEPT ![Submitting].st = "queued"]
  /\ walk' = [walk EXCEPT !["app"].k = @ + 1]
  /\ IF Submitting = num
     THEN Accept /\ xlock' = "free" /\ Go("app", "idle")
     ELSE UNCHANGED <<inflight, xlock, pc, ghosts>>
  /\ UNCHANGED <<job, priv, done, broken, sent, alive, reapAfter, link, flying,
                 cancelling, handled, timedout, data, flock, cur, result>>

\* The first URB fails, for want of memory, of a device, or of sense.
SubmitRefused ==
  /\ At("app", "submit") /\ Submitting = 1
  /\ has' = FALSE /\ xlock' = "free" /\ Go("app", "unlist")
  /\ UNCHANGED <<job, num, retired, action, reapStatus, offset, kernel, link, flags,
                 data, flock, walk, cur, result, ghosts>>

\* Mutants, here and below: a plausible slip in the definition that follows.
UnsubmittedNotCounted == retired
Unsubmitted == retired + num + 1 - Submitting

\* A later URB fails: those before it are discarded, and the failure is
\* reported when they have been reaped.
SubmitStops ==
  /\ At("app", "submit") /\ Submitting > 1
  /\ action' = "submit_failed" /\ retired' = Unsubmitted
  /\ Go("app", "discard")
  /\ walk' = [walk EXCEPT !["app"] =
       [k |-> Submitting - 1, lo |-> 1, hi |-> Submitting - 1, ret |-> "ok", why |-> "submit"]]
  /\ UNCHANGED <<job, has, num, reapStatus, offset, kernel, link, flags, data, flock, xlock,
                 cur, result, ghosts>>

\* EREMOTEIO: the transfer has ended in an earlier URB, and the kernel has
\* taken back the ones after that.
SubmitEndsEarly ==
  /\ At("app", "submit") /\ Submitting > 1 /\ alive /\ broken
  /\ action' = "early" /\ retired' = Unsubmitted
  /\ Accept /\ xlock' = "free" /\ Go("app", "idle")
  /\ UNCHANGED <<job, has, num, reapStatus, offset, kernel, link, flying, cancelling,
                 handled, timedout, data, flock, walk, cur, result>>

Unlist ==
  /\ At("app", "unlist") /\ flock = "free"
  /\ flying' = FALSE /\ Go("app", "idle")
  /\ UNCHANGED <<job, priv, kernel, link, inflight, cancelling, handled, timedout, data,
                 flock, xlock, walk, cur, result, ghosts>>

-----------------------------------------------------------------------------
(* The kernel's side of a URB. *)

Queued == {i \in DOMAIN urbs : urbs[i].st = "queued"}
First == CHOOSE i \in Queued : \A j \in Queued : i <= j
Last == CHOOSE i \in Queued : \A j \in Queued : j <= i

\* A bulk or interrupt pipe serves its URBs one after another: only the first
\* can carry part of its cells when it is taken back, and none once the pipe
\* has stalled or the device is gone.  A packet has a slot whatever became
\* of it.
Flows == \A i \in DOMAIN urbs : urbs[i].status \notin {"stall", "gone"}
Part(i) ==
  IF kind = "iso" THEN {Size(i)} ELSE IF i = First /\ Flows THEN 0..Size(i) ELSE {0}

Cells(i, n) ==
  [c \in 1..n |-> IF kind = "iso" THEN Start(i) + c ELSE sent + c]

\* URB i completes with a status and n cells, and takes those after it, up to
\* last, with it.  If last is the last one the kernel has, those are all of
\* them: the queued ones are next to each other (RowInv in UsbTransferProofs).
Complete(i, status, n, last) ==
  /\ urbs' = [j \in DOMAIN urbs |->
       IF j = i THEN [st |-> "done", status |-> status, cells |-> Cells(i, n)]
       ELSE IF j \in (i + 1)..last THEN [urbs[j] EXCEPT !.st = "done", !.status = "unlinked"]
       ELSE urbs[j]]
  /\ sent' = sent + (IF kind = "iso" THEN 0 ELSE n)
  /\ done' = done \o [k \in 1..(last - i + 1) |-> i + k - 1]

\* With continuation, a bulk URB that ends short or in error stops the URBs
\* after it, submitted or not.  One that has been discarded does not.
Ends(status) ==
  kind = "bulk" /\ mode = "continuation" /\ status \in {"short", "stall", "bus"}
Finish(status, n) ==
  LET stops == Ends(status) /\ (status = "short" => First < num)
  IN  /\ Complete(First, status, n, IF stops THEN Last ELSE First)
      /\ broken' = (broken \/ stops)
      /\ UNCHANGED <<job, priv, alive, reapAfter, link, flags, data, flock, xlock,
                     threads, ghosts>>

UrbDone ==
  /\ alive /\ Queued # {} /\ (Flows \/ kind = "iso")
  /\ Finish("ok", Size(First))
UrbShort ==
  /\ alive /\ Queued # {} /\ Flows /\ kind # "iso"
  /\ \E n \in 0..Size(First) : n < Size(First) /\ Finish("short", n)
UrbFails ==
  /\ alive /\ Queued # {}
  /\ \E s \in Errors, n \in Part(First) : Finish(s, n)
\* Too much data can only come in the last URB, says handle_bulk_completion.
UrbOverflows ==
  /\ alive /\ Queued = {num} /\ Flows /\ kind # "iso"
  /\ Finish("overflow", Size(num))

\* The cable.  Requests fail at once; the kernel ends the URBs one by one, in
\* no order of note, and reports the hangup after that.
Unplug ==
  /\ alive /\ alive' = FALSE /\ reapAfter' \in BOOLEAN
  /\ UNCHANGED <<job, priv, urbs, done, broken, sent, link, flags, data,
                 flock, xlock, threads, ghosts>>
Shutdown ==
  /\ ~alive
  /\ \E i \in Queued : \E n \in Part(i) : Complete(i, "gone", n, i)
  /\ UNCHANGED <<job, priv, broken, alive, reapAfter, link, flags, data, flock, xlock,
                 threads, ghosts>>

-----------------------------------------------------------------------------
(* discard_urbs, for libusb_cancel_transfer, a timeout, a submission that
   failed half-way, or a URB that ended the transfer: one ioctl a step, from
   the last URB to the first. *)

Walking(t) == At(t, "discard") /\ walk[t].k >= walk[t].lo

DiscardForward(t) == walk[t].lo + walk[t].hi - walk[t].k
Discarded(t) == walk[t].k

DiscardUrb(t) ==
  /\ Walking(t)
  /\ LET i == Discarded(t) IN
       \/ /\ alive /\ urbs[i].st = "queued"
          /\ \E n \in Part(i) : Complete(i, "cancelled", n, i)
          /\ walk' = [walk EXCEPT ![t].k = @ - 1]
       \/ /\ alive /\ urbs[i].st # "queued"
          /\ walk' = [walk EXCEPT ![t].k = @ - 1,
                ![t].ret = IF i = walk[t].hi THEN "not found" ELSE @]
          /\ UNCHANGED <<urbs, sent, done>>
       \/ /\ ~alive
          /\ walk' = [walk EXCEPT ![t].k = @ - 1, ![t].ret = "no device"]
          /\ UNCHANGED <<urbs, sent, done>>
  /\ UNCHANGED <<job, priv, broken, alive, reapAfter, link, flags, data, flock, xlock,
                 pc, cur, result, ghosts>>

\* The walk is over.  A cancellation that found the last URB in the kernel
\* counts; bulk keeps a bus error it has already met.
Walked(t) ==
  /\ At(t, "discard") /\ ~Walking(t) /\ xlock' = "free"
  /\ \/ /\ walk[t].why = "submit" /\ Accept /\ Go(t, "idle")
        /\ UNCHANGED <<action, cancelling>>
     \/ /\ walk[t].why = "rest" /\ Go(t, "poll")
        /\ UNCHANGED <<action, cancelling, inflight, ghosts>>
     \/ /\ walk[t].why \in {"cancel", "timeout"}
        /\ action' = IF walk[t].ret = "ok" /\ ~(kind = "bulk" /\ action = "error")
                     THEN "cancelled" ELSE action
        /\ cancelling' = TRUE
        /\ cancelled' = (cancelled \/ (walk[t].why = "cancel" /\ walk[t].ret = "ok"))
        /\ Go(t, IF walk[t].why = "timeout" THEN "mark" ELSE "idle")
        /\ UNCHANGED <<inflight, told, submits>>
  /\ UNCHANGED <<job, has, num, retired, reapStatus, offset, kernel, link, flying, handled,
                 timedout, data, flock, walk, cur, result>>

\* libusb_cancel_transfer up to the walk, by a thread that then goes on at
\* next if there is nothing to cancel.
BeginCancel(t, why, next) ==
  /\ xlock = "free"
  /\ IF inflight /\ ~cancelling /\ has
     THEN /\ xlock' = t /\ Go(t, "discard")
          /\ walk' = [walk EXCEPT ![t] =
               [k |-> num, lo |-> 1, hi |-> num, ret |-> "ok", why |-> why]]
          /\ UNCHANGED cancelling
     ELSE /\ Go(t, next) /\ walk' = [walk EXCEPT ![t].ret = "not found"]
          /\ cancelling' = (cancelling \/ inflight)
          /\ UNCHANGED xlock
  /\ UNCHANGED <<job, priv, kernel, link, flying, inflight, handled, timedout, data, flock,
                 cur, result, ghosts>>

Cancel == At("app", "idle") /\ told = "pending" /\ BeginCancel("app", "cancel", "idle")

\* handle_timeouts_locked and handle_timeout, by either thread.
Rest(t) == IF t = "app" THEN "idle" ELSE "poll"
TimerFires(t) ==
  /\ At(t, Rest(t)) /\ flock = "free"
  /\ flying /\ timed /\ ~handled
  /\ handled' = TRUE /\ flock' = t /\ Go(t, "expire")
  /\ UNCHANGED <<job, priv, kernel, link, flying, inflight, cancelling, timedout, data, xlock,
                 walk, cur, result, ghosts>>
Expire(t) == At(t, "expire") /\ BeginCancel(t, "timeout", "mark")

Cancelled(t) == walk[t].ret = "ok"
Mark(t) ==
  /\ At(t, "mark")
  /\ timedout' = (timedout \/ Cancelled(t))
  /\ flock' = "free" /\ Go(t, Rest(t))
  /\ UNCHANGED <<job, priv, kernel, link, flying, inflight, cancelling, handled, data, xlock,
                 walk, cur, result, ghosts>>

-----------------------------------------------------------------------------
(* The event thread: op_handle_events and the completion handlers. *)

\* Reaping copies what the URB carries to its place in the caller's buffer.
Reap ==
  /\ At("event", "poll") /\ done # <<>>
  /\ link # "over" /\ (alive \/ reapAfter)
  /\ cur' = Head(done) /\ done' = Tail(done)
  /\ urbs' = [urbs EXCEPT ![cur'].st = "reaped"]
  /\ buf' = IF kind = "iso" THEN buf ELSE Place(buf, Start(cur'), urbs[cur'].cells)
  /\ Go("event", "handle")
  /\ UNCHANGED <<job, priv, broken, sent, alive, reapAfter, link, flags, transferred,
                 flock, xlock, walk, result, ghosts>>

Handling == At("event", "handle") /\ xlock = "free"
AllButOne == retired' >= num - 1
All == retired' = num

\* The transfer is over: its URBs are freed, and what remains is to say so.
Over(status) ==
  /\ has' = FALSE /\ cur' = 0 /\ result' = status
  /\ Go("event", IF status = "cancelled" THEN "why" ELSE "finish")
  /\ UNCHANGED <<xlock, walk>>
Wait ==
  /\ cur' = 0 /\ Go("event", "poll")
  /\ UNCHANGED <<has, xlock, walk, result>>
DiscardRest ==
  /\ xlock' = "event" /\ cur' = 0 /\ Go("event", "discard")
  /\ walk' = [walk EXCEPT !["event"] =
       [k |-> num, lo |-> cur + 1, hi |-> num, ret |-> "ok", why |-> "rest"]]
  /\ UNCHANGED <<has, result>>

HandledUnchanged == <<job, num, kernel, link, flags, flock, ghosts>>

\* What a URB carries, moved to the end of what has come so far.
SurplusStays(cells) == buf
Surplus(cells) == Place(buf, transferred, cells)

\* handle_bulk_completion once the transfer is being torn down.
HandleAbnormal ==
  /\ Handling /\ kind \in {"bulk", "interrupt"} /\ action # "normal"
  /\ LET cells == urbs[cur].cells IN
       /\ buf' = Surplus(cells) /\ transferred' = transferred + Len(cells)
  /\ retired' = retired + 1
  /\ reapStatus' = IF All /\ action # "early" /\ reapStatus = "completed"
                   THEN "error" ELSE reapStatus
  /\ IF All THEN Over(IF action = "cancelled" THEN "cancelled" ELSE reapStatus') ELSE Wait
  /\ UNCHANGED <<action, offset, HandledUnchanged>>

Short(u) == Len(u.cells) < Size(cur)

\* handle_bulk_completion otherwise: an error or a short URB ends the transfer
\* and discards what is left of it.
HandleBulk ==
  /\ Handling /\ kind \in {"bulk", "interrupt"} /\ action = "normal"
  /\ LET u == urbs[cur]
         fault == CASE u.status = "gone" -> "no device"
                    [] u.status = "stall" -> "stall"
                    [] u.status = "overflow" -> "overflow"
                    [] u.status = "bus" -> "error"
                    [] OTHER -> "completed"
     IN  /\ retired' = retired + 1
         /\ transferred' = transferred + Len(u.cells)
         /\ action' = IF fault = "error" THEN "error"
                      ELSE IF fault = "completed" /\ ~All /\ Short(u) THEN "early"
                      ELSE action
         /\ reapStatus' = IF fault = "no device" \/ reapStatus = "completed"
                          THEN fault ELSE reapStatus
         /\ IF All \/ fault = "overflow" THEN Over(reapStatus')
            ELSE IF fault # "completed" \/ Short(u) THEN DiscardRest
            ELSE Wait
  /\ UNCHANGED <<offset, buf, HandledUnchanged>>

\* handle_iso_completion: packet results go to the next slots, in the order
\* in which URBs are reaped.
HandleIso ==
  /\ Handling /\ kind = "iso"
  /\ buf' = Place(buf, offset, urbs[cur].cells)
  /\ offset' = offset + Len(urbs[cur].cells)
  /\ retired' = retired + 1
  /\ IF ~All THEN Wait
     ELSE Over(IF action = "cancelled" THEN "cancelled"
               ELSE IF action = "submit_failed" THEN "error"
               ELSE CASE urbs[cur].status \in {"ok", "cancelled"} -> "completed"
                      [] urbs[cur].status = "gone" -> "no device"
                      [] OTHER -> "error")
  /\ UNCHANGED <<action, reapStatus, transferred, HandledUnchanged>>

HandleControl ==
  /\ Handling /\ kind = "control"
  /\ transferred' = transferred + Len(urbs[cur].cells)
  /\ Over(IF action = "cancelled" THEN "cancelled"
          ELSE CASE urbs[cur].status \in {"ok", "short"} -> "completed"
                 [] urbs[cur].status = "gone" -> "no device"
                 [] urbs[cur].status = "bus" -> "error"
                 [] OTHER -> urbs[cur].status)
  /\ UNCHANGED <<retired, action, reapStatus, offset, buf, HandledUnchanged>>

\* usbi_handle_transfer_cancellation.
Why ==
  /\ At("event", "why") /\ flock = "free"
  /\ result' = IF timedout THEN "timed out" ELSE "cancelled"
  /\ Go("event", "finish")
  /\ UNCHANGED <<job, priv, kernel, link, flags, data, flock, xlock, walk, cur, ghosts>>

\* usbi_handle_transfer_completion: off the list, out of flight, and then the
\* callback, each step under its own lock.  With LIBUSB_TRANSFER_SHORT_NOT_OK,
\* which the caller may have set, a short transfer is an error.
RemoveUnlocked ==
  /\ At("event", "finish")
  /\ flying' = FALSE /\ Go("event", "settle")
  /\ UNCHANGED <<job, priv, kernel, link, inflight, cancelling, handled, timedout, data,
                 flock, xlock, walk, cur, result, ghosts>>
Remove ==
  /\ At("event", "finish") /\ flock = "free"
  /\ flying' = FALSE /\ Go("event", "settle")
  /\ UNCHANGED <<job, priv, kernel, link, inflight, cancelling, handled, timedout, data,
                 flock, xlock, walk, cur, result, ghosts>>
Settle ==
  /\ At("event", "settle") /\ xlock = "free"
  /\ inflight' = FALSE /\ Go("event", "call")
  /\ UNCHANGED <<job, priv, kernel, link, flying, cancelling, handled, timedout, data,
                 flock, xlock, walk, cur, result, ghosts>>
Call ==
  /\ At("event", "call") /\ Go("event", "poll")
  /\ told' \in {result} \cup
       (IF result = "completed" /\ transferred # length THEN {"error"} ELSE {})
  /\ result' = "none"
  /\ UNCHANGED <<job, priv, kernel, link, flags, data, flock, xlock, walk, cur, cancelled,
                 submits>>

\* POLLERR: the descriptor is no longer polled, what can be reaped is reaped,
\* and usbi_handle_disconnect terminates what is still in flight.  An older
\* kernel hands nothing back once the device is gone.
Hangup ==
  /\ At("event", "poll") /\ link = "watched" /\ ~alive /\ Queued = {}
  /\ link' = "dropped" /\ done' = IF reapAfter THEN done ELSE <<>>
  /\ UNCHANGED <<job, priv, urbs, broken, sent, alive, reapAfter, flags, data, flock, xlock, threads, ghosts>>
FindLost ==
  /\ At("event", "poll") /\ link = "dropped" /\ done = <<>>
  /\ flock = "free" /\ (flying => xlock = "free")
  /\ IF flying /\ inflight
     THEN Go("event", "clear") /\ UNCHANGED link
     ELSE link' = "over" /\ UNCHANGED pc
  /\ UNCHANGED <<job, priv, kernel, flags, data, flock, xlock, walk, cur, result, ghosts>>
ClearLost ==
  /\ At("event", "clear") /\ xlock = "free"
  /\ has' = FALSE /\ result' = "no device" /\ Go("event", "finish")
  /\ UNCHANGED <<job, num, retired, action, reapStatus, offset, kernel, link, flags, data,
                 flock, xlock, walk, cur, ghosts>>

-----------------------------------------------------------------------------
App == Submit \/ List \/ SubmitUrb \/ SubmitRefused \/ SubmitStops \/ SubmitEndsEarly
       \/ Unlist \/ Cancel
Kernel == UrbDone \/ UrbShort \/ UrbFails \/ UrbOverflows \/ Unplug \/ Shutdown
Either(t) == DiscardUrb(t) \/ Walked(t) \/ TimerFires(t) \/ Expire(t) \/ Mark(t)
Event == Reap \/ HandleAbnormal \/ HandleBulk \/ HandleIso \/ HandleControl
         \/ Why \/ Remove \/ Settle \/ Call \/ Hangup \/ FindLost \/ ClearLost

Next == App \/ Kernel \/ Event \/ \E t \in Threads : Either(t)

\* Under way: a thread inside a call of libusb goes on, the event thread
\* handles what is ready, timers fire, and the kernel ends the URBs of a
\* device that is gone.  Nothing is assumed of a device that is there.
GoesOn == \/ List \/ SubmitUrb \/ SubmitRefused \/ SubmitStops \/ SubmitEndsEarly \/ Unlist
          \/ \E t \in Threads : DiscardUrb(t) \/ Walked(t) \/ Expire(t) \/ Mark(t)
Fairness ==
  /\ WF_vars(GoesOn) /\ WF_vars(Event) /\ WF_vars(TimerFires("event")) /\ WF_vars(Shutdown)

Spec == Init /\ [][Next]_vars /\ Fairness

-----------------------------------------------------------------------------
(* Properties. *)

Statuses == {"ok", "short", "stall", "bus", "overflow", "gone", "cancelled", "unlinked"}
Results == {"completed", "error", "stall", "overflow", "no device", "cancelled", "timed out"}
Reported == told \in Results

\* Types, with the bounds of what is counted.
TypeOK ==
  /\ kind \in Kinds \cup {"control"} /\ mode \in Modes \cup {"whole"}
  /\ length \in Lengths \cup {0} /\ timed \in BOOLEAN
  /\ has \in BOOLEAN /\ num \in Nat /\ retired \in 0..num /\ offset \in 0..length
  /\ action \in {"normal", "submit_failed", "cancelled", "early", "error"}
  /\ reapStatus \in Results
  /\ DOMAIN urbs = 1..num
  /\ \A i \in 1..num : /\ urbs[i].st \in {"none", "queued", "done", "reaped"}
                       /\ urbs[i].status \in Statuses
                       /\ Len(urbs[i].cells) <= Size(i)
  /\ \A k \in DOMAIN done : done[k] \in 1..num
  /\ broken \in BOOLEAN /\ sent \in Nat /\ alive \in BOOLEAN /\ reapAfter \in BOOLEAN
  /\ link \in {"watched", "dropped", "over"}
  /\ {flying, inflight, cancelling, handled, timedout, cancelled} \subseteq BOOLEAN
  /\ transferred \in 0..length /\ DOMAIN buf \in {{}, 1..length}
  /\ flock \in Threads \cup {"free"} /\ xlock \in Threads \cup {"free"}
  /\ cur \in 0..num /\ result \in Results \cup {"none"}
  /\ told \in Results \cup {"none", "pending"} /\ submits \in 0..MaxSubmits

\* The URBs are freed only when the kernel has handed all of them back, or
\* will never hand back another; what is handled has not been freed; and no
\* more of them are counted as retired, and no more is counted as transferred,
\* than there is (TypeOK).
UrbsOwned ==
  /\ TypeOK
  /\ ~has => Queued = {} /\ done = <<>>
  /\ At("event", "handle") => has

\* The callback, which may free the transfer, runs once for a submission that
\* was accepted, and never while a thread still works on the transfer.
CalledAlone ==
  At("event", "call") =>
    /\ told = "pending" /\ ~flying /\ ~inflight /\ ~has
    /\ At("app", "idle") /\ xlock = "free" /\ flock = "free"

\* What the device delivered is in the buffer from its start, without holes
\* and in order, and is counted, however the transfer ended.  A completed
\* isochronous transfer has the result of each packet in its slot, though slots
\* are filled in the order in which URBs are reaped.  (Pulling the cable in the
\* middle of a cancellation can make it complete with its slots out of order.)
DataInOrder ==
  /\ Reported /\ kind # "iso" =>
       /\ \A c \in 1..transferred : buf[c] = c
       /\ told # "no device" \/ reapAfter => transferred = sent
  /\ told = "completed" /\ kind = "iso" /\ alive => \A c \in 1..length : buf[c] = c

\* The status is the true one: a cancellation was accepted, a timeout was the
\* timer's, and a transfer that completed was not cut off, save by a URB
\* that ended short, during its submission, or by pulling the cable in the
\* middle of a cancellation.
Stopped == \E i \in 1..num : urbs[i].st = "none"
StatusTrue ==
  /\ told = "cancelled" => cancelled
  /\ told = "timed out" => timed /\ ~cancelled
  /\ Reported /\ cancelled => told \in {"cancelled", "no device"}
  /\ told = "completed" /\ kind # "iso" /\ ~Stopped /\ alive =>
       \A i \in 1..num : \/ urbs[i].status \in {"ok", "short"}
                         \/ \E j \in 1..(i - 1) : urbs[j].status = "short"

\* A transfer with a timeout, or one that was cancelled, or whose device is
\* gone, ends, however few of its URBs the kernel completes by itself.
Settles == told = "pending" /\ (timed \/ cancelled \/ ~alive) ~> told # "pending"

=============================================================================
