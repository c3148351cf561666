------------------------- MODULE UsbTransferProofs -------------------------
(***************************************************************************)
(* What TLAPS proves of UsbTransfer, for transfers of any length in any    *)
(* number of URBs, and any number of submissions.                          *)
(*                                                                         *)
(* First the parts of the two inductive invariants.  IInv says where the   *)
(* URBs are and how much they carry; UrbsOwned, CalledAlone and the types  *)
(* follow from it.  TrueInv adds what became of each URB, where its data   *)
(* went and how the transfer ended; DataInOrder and StatusTrue follow.     *)
(* Then lemmas, part by part, each saying which steps keep that part.      *)
(***************************************************************************)
EXTENDS UsbTransfer, FiniteSetTheorems, SequenceTheorems, WellFoundedInduction, TLAPS

-----------------------------------------------------------------------------
(* Who works on the transfer. *)

AppPlaces == {"idle", "list", "submit", "unlist", "discard", "expire", "mark"}
EventPlaces ==
  {"poll", "handle", "discard", "expire", "mark", "why", "finish", "settle", "call", "clear"}
Walks ==
  [k : Nat, lo : Nat \ {0}, hi : Nat, ret : {"ok", "not found", "no device"},
   why : {"none", "submit", "cancel", "timeout", "rest"}]

HoldsList(t) ==
  pc[t] \in {"list", "expire", "mark"} \/ (pc[t] = "discard" /\ walk[t].why = "timeout")
HoldsTransfer(t) == pc[t] \in {"submit", "discard"}

PlacesInv ==
  /\ pc \in [Threads -> AppPlaces \cup EventPlaces]
  /\ pc["app"] \in AppPlaces /\ pc["event"] \in EventPlaces
  /\ walk \in [Threads -> Walks]
  /\ pc["app"] = "discard" => walk["app"].why \in {"submit", "cancel", "timeout"}
  /\ pc["event"] = "discard" => walk["event"].why \in {"rest", "timeout"}

\* A lock is with the thread that is where it needs it.
LockInv ==
  /\ flock \in Threads \cup {"free"} /\ xlock \in Threads \cup {"free"}
  /\ \A t \in Threads : (flock = t => HoldsList(t)) /\ (HoldsList(t) => flock = t)
  /\ \A t \in Threads : (xlock = t => HoldsTransfer(t)) /\ (HoldsTransfer(t) => xlock = t)

\* From the list to the last URB; the caller has not been told yet.
Submission ==
  pc["app"] = "submit" \/ (pc["app"] = "discard" /\ walk["app"].why = "submit")

\* What the flags say of the places, and what is true from the end of the
\* transfer to its callback.
PhaseInv ==
  /\ pc["app"] \in {"list", "unlist"} \/ Submission => told = "none" /\ ~inflight
  /\ has => Submission \/ told = "pending"
  /\ flying => Submission \/ pc["app"] = "unlist" \/ told = "pending"
  /\ inflight => told = "pending"
  /\ Submission => has
  /\ pc["app"] = "unlist" => ~has
  /\ pc["app"] = "discard" => has
  /\ pc["app"] \in {"expire", "mark"} => told = "pending"
  /\ pc["event"] = "handle" => has
  /\ pc["event"] = "discard" => has /\ told = "pending"
  /\ pc["event"] = "clear" => told = "pending" /\ link = "dropped" /\ done = <<>>
  /\ pc["event"] \in {"why", "finish", "settle", "call"} =>
       ~has /\ told = "pending" /\ result \in Results
  /\ pc["event"] \in {"settle", "call"} => ~flying /\ pc["app"] = "idle"
  /\ pc["event"] = "call" => ~inflight

-----------------------------------------------------------------------------
(* Where the URBs are. *)

Urbs ==
  [st : {"none", "queued", "done", "reaped"}, status : Statuses, cells : Seq(Nat)]

JobInv ==
  /\ kind \in Kinds \cup {"control"} /\ mode \in Modes \cup {"whole"}
  /\ length \in Lengths \cup {0}
  /\ num = 0 \/ num = UrbCount(kind, mode, length)

\* The URBs the kernel is done with, oldest first, are those in state "done",
\* once each, but for what an old kernel drops with its device; the one that
\* is handled has been taken from there.
DoneInv ==
  /\ urbs \in [1..num -> Urbs]
  /\ done \in Seq(1..num)
  /\ \A k \in 1..Len(done) : urbs[done[k]].st = "done"
  /\ \A j, k \in 1..Len(done) : done[j] = done[k] => j = k
  /\ cur \in 0..num
  /\ cur # 0 <=> pc["event"] = "handle"
  /\ cur # 0 => urbs[cur].st = "reaped"
  /\ ~has => Queued = {} /\ done = <<>>
  /\ link # "watched" => ~alive /\ Queued = {}
  /\ kind # "bulk" => \A i \in 1..num : urbs[i].status # "unlinked"

\* URBs are submitted from the first to the last, and discarded from the last
\* to the first: those that are with the kernel are next to each other.
RowInv ==
  /\ \A i, j \in 1..num : i < j /\ urbs[i].st = "none" => urbs[j].st = "none"
  /\ alive => \A i, k \in Queued : i..k \subseteq Queued
WalkInv ==
  /\ pc["app"] = "submit" =>
       /\ Submitting \in 1..num
       /\ \A i \in 1..num : (urbs[i].st = "none" => i >= Submitting)
                            /\ (i >= Submitting => urbs[i].st = "none")
       /\ alive => \A i \in Queued : i..(Submitting - 1) \subseteq Queued
  /\ \A t \in Threads : pc[t] = "discard" =>
       /\ walk[t].k \in 0..num
       /\ alive => \A i \in Queued : i <= walk[t].k
OrderInv == RowInv /\ WalkInv

\* The URBs that count as retired: handled, or never to be submitted.
Handled == {i \in 1..num : urbs[i].st = "reaped" /\ i # cur}
Unsent == IF pc["app"] = "submit" THEN {} ELSE {i \in 1..num : urbs[i].st = "none"}
CountInv ==
  /\ retired \in 0..num
  /\ has => retired = Cardinality(Handled \cup Unsent)

\* An overflow ends a transfer at once: its URB is the last to come back.
OverflowInv ==
  \A i \in 1..num : urbs[i].status = "overflow" =>
    /\ Queued = {} /\ \A j \in 1..num : urbs[j].st # "none"
    /\ i = cur => done = <<>>
    /\ \A k \in 1..Len(done) : done[k] = i => k = Len(done)

-----------------------------------------------------------------------------
(* How much they carry. *)

SizeInv ==
  /\ sent \in Nat
  /\ \A i \in 1..num : /\ Len(urbs[i].cells) <= Size(i)
                       /\ urbs[i].st \in {"none", "queued"} => urbs[i].cells = <<>>
  /\ kind = "iso" =>
       \A i \in 1..num : urbs[i].st \in {"done", "reaped"} => Len(urbs[i].cells) = Size(i)

\* A pipe that serves its URBs in turn has delivered no more than fits in the
\* URBs before those that are left.
SentInv ==
  /\ kind = "iso" => sent = 0
  /\ sent <= length
  /\ kind # "iso" => \A i \in 1..num : urbs[i].st \in {"none", "queued"} => sent <= Start(i)

\* What was counted, what the URB being handled carries, and what each of
\* those after it carries, add up to what was delivered; less only where an
\* old kernel has dropped the rest.  Each carries what comes next, and begins
\* no earlier in the buffer than that.
Carried == IF cur = 0 THEN 0 ELSE Len(urbs[cur].cells)
Carries(i, at) ==
  /\ at <= Start(i)
  /\ \A c \in 1..Len(urbs[i].cells) : urbs[i].cells[c] = at + c
Adds(pos) ==
  /\ pos[0] = transferred + Carried
  /\ \A k \in 1..Len(done) : pos[k] = pos[k - 1] + Len(urbs[done[k]].cells)
  /\ link = "watched" \/ reapAfter => pos[Len(done)] = sent
  /\ \A k \in 1..Len(done) : Carries(done[k], pos[k - 1])
ChainInv ==
  /\ transferred \in Nat /\ DOMAIN buf \in {{}, 1..length}
  /\ kind = "iso" => transferred = 0
  /\ kind # "iso" => \E pos \in [0..Len(done) -> 0..sent] : Adds(pos)

\* The slots an isochronous transfer has filled are those of the URBs handled.
Slots == Chunk * Cardinality(Handled \ {num}) + (IF num \in Handled THEN Size(num) ELSE 0)
SlotInv == offset = IF kind = "iso" THEN Slots ELSE 0

UrbInv == JobInv /\ DoneInv /\ OrderInv /\ CountInv /\ OverflowInv
DataInv == SizeInv /\ SentInv /\ ChainInv /\ SlotInv

-----------------------------------------------------------------------------
(* What became of the URBs. *)

Returned(i) == urbs[i].st \in {"done", "reaped"}
Laden(i) == Len(urbs[i].cells) > 0
Full(i) == Len(urbs[i].cells) = Size(i)

\* What a status says of a URB; a URB is taken back with another only if that
\* one ended the transfer.
FateInv ==
  \A i \in 1..num :
    /\ ~Returned(i) => urbs[i].status = "ok"
    /\ urbs[i].status = "short" => ~Full(i)
    /\ Returned(i) /\ urbs[i].status = "ok" => Full(i)
    /\ urbs[i].status = "gone" => ~alive
    /\ urbs[i].status = "unlinked" =>
         \E j \in 1..(i - 1) : urbs[j].status \in {"short", "stall", "bus"}

\* No URB is lost before it is reaped, but by an old kernel.
KeptInv ==
  /\ link = "watched" \/ reapAfter =>
       \A i \in 1..num : urbs[i].st = "done" => \E k \in 1..Len(done) : done[k] = i
  /\ cur # 0 => link = "watched" \/ reapAfter
  /\ broken => kind = "bulk"

\* Data comes back in order: before a URB that carries some, all URBs ahead of
\* it have come back, and none of them ended the flow.
LadenInv ==
  kind # "iso" =>
    /\ \A i, j \in 1..num : j < i /\ Laden(i) =>
         Returned(j) /\ urbs[j].status \notin {"stall", "gone"}
    /\ \A k, l \in 1..Len(done) : k < l /\ Laden(done[k]) => done[k] < done[l]
    /\ cur # 0 /\ Laden(cur) => \A k \in 1..Len(done) : cur < done[k]

\* While all URBs ahead of a URB are full, its data goes where it stays.
FullBelow(i) == \A j \in 1..num : j < i => Full(j)
AlignedInv ==
  kind # "iso" =>
    \A i \in 1..num : FullBelow(i) =>
      /\ ~Returned(i) => sent = Start(i)
      /\ Laden(i) => urbs[i].cells[1] = Start(i) + 1

UrbFateInv == FateInv /\ KeptInv /\ LadenInv /\ AlignedInv

-----------------------------------------------------------------------------
(* Where the data goes. *)

\* Until something ends the transfer, the URBs handled were full.
NormalInv ==
  kind # "iso" /\ has /\ action = "normal" =>
    \A i \in Handled : Full(i) \/ urbs[i].status \in {"stall", "gone"}

\* What was counted is in its place; what is being handled comes next, and is
\* no nearer to the start of the buffer than that.
BufInv ==
  /\ DOMAIN buf = 1..length
  /\ kind # "iso" =>
       /\ \A c \in 1..transferred : buf[c] = c
       /\ cur # 0 =>
            /\ transferred <= Start(cur)
            /\ \A c \in 1..Len(urbs[cur].cells) :
                 /\ urbs[cur].cells[c] = transferred + c
                 /\ buf[Start(cur) + c] = transferred + c

\* When the transfer is over, everything was counted, but for what an old
\* kernel dropped with its device.
Ending == pc["event"] \in {"why", "finish", "settle", "call"}
EndInv ==
  /\ kind # "iso" /\ Ending =>
       \/ transferred = sent
       \/ pc["event"] # "why" /\ ~alive /\ ~reapAfter /\ result = "no device"
  /\ kind # "iso" /\ Reported =>
       transferred = sent \/ (~alive /\ ~reapAfter /\ told = "no device")

FlowInv == NormalInv /\ BufInv /\ EndInv

-----------------------------------------------------------------------------
(* How the transfer is being ended, and what it is told to be. *)

\* What ends a transfer is known before its URBs are discarded.
KindMode ==
  /\ reapStatus \notin {"cancelled", "timed out"}
  /\ pc["app"] = "submit" => action = "normal" /\ reapStatus = "completed"
  /\ has /\ action = "normal" /\ pc["app"] # "submit" => \A i \in 1..num : urbs[i].st # "none"
  /\ has /\ kind = "iso" =>
       action \in {"normal", "submit_failed", "cancelled"} /\ reapStatus = "completed"
  /\ has /\ kind = "control" => action \in {"normal", "cancelled"} /\ reapStatus = "completed"
WalkMode ==
  \A t \in Threads : pc[t] = "discard" =>
    /\ walk[t].why = "submit" => action = "submit_failed"
    /\ walk[t].why = "rest" => action # "normal" \/ reapStatus # "completed"
    /\ walk[t].why \in {"cancel", "timeout"} =>
         /\ walk[t].lo = 1 /\ walk[t].hi = num
         /\ walk[t].k = num => walk[t].ret = "ok"
         /\ action = "error" => walk[t].k = num \/ walk[t].ret # "ok"
\* The rest of a transfer in error is discarded before it can be cancelled.
ErrorMode ==
  action = "error" /\ has /\ alive /\ urbs[num].st = "queued" =>
    Walking("event") /\ walk["event"].why = "rest" /\ walk["event"].k = num
ModeInv == KindMode /\ WalkMode /\ ErrorMode

\* A URB of packets carries the results of its packets.
PacketsInv ==
  kind = "iso" =>
    \A i \in 1..num : \A c \in 1..Len(urbs[i].cells) : urbs[i].cells[c] = Start(i) + c

\* While nothing goes wrong and nobody cancels, URBs come back, and are
\* handled, in the order in which they were submitted: the first n have been
\* reaped.
Untouched ==
  \A t \in Threads : pc[t] = "discard" => walk[t].k = num \/ walk[t].ret # "ok"
Serving == has /\ alive /\ action = "normal" /\ reapStatus = "completed" /\ Untouched
Reached(n) ==
  /\ cur \in {0, n}
  /\ \A i \in 1..num : i <= n => urbs[i].st = "reaped"
  /\ \A i \in 1..num : i <= n + Len(done) => Returned(i)
  /\ \A i \in 1..num : Returned(i) => i <= n + Len(done)
  /\ \A k \in 1..Len(done) : done[k] = n + k
TurnInv ==
  Serving =>
    /\ \E n \in 0..num : Reached(n)
    /\ \A i \in 1..num : urbs[i].status # "cancelled"
    /\ kind # "iso" => \A i \in Handled : urbs[i].status = "ok"
    /\ kind = "iso" => \A c \in 1..offset : buf[c] = c
    /\ \A t \in Threads : pc[t] = "discard" /\ walk[t].k # num => Queued = {}

\* A transfer that has ended early has done so in a URB that was short.
EarlyInv ==
  has /\ action = "early" /\ reapStatus = "completed" /\ alive /\ ~Stopped =>
    \E j \in 1..num :
      /\ urbs[j].status = "short"
      /\ \A i \in 1..num : i < j => Returned(i) /\ urbs[i].status \in {"ok", "short"}

\* What a transfer that completed is.
Whole ==
  IF kind = "iso" THEN \A c \in 1..length : buf[c] = c
  ELSE Stopped \/ \A i \in 1..num : \/ urbs[i].status \in {"ok", "short"}
                                    \/ \E j \in 1..(i - 1) : urbs[j].status = "short"
CompleteInv ==
  alive =>
    /\ Ending /\ result = "completed" => Whole
    /\ told = "completed" => Whole

\* Who cancelled the transfer.
Expiring == \E t \in Threads : pc[t] = "mark" /\ walk[t].ret = "ok"
TimedInv ==
  /\ \A t \in Threads :
       /\ pc[t] \in {"expire", "mark"} => timed
       /\ pc[t] = "discard" /\ walk[t].why = "timeout" => timed
       /\ pc[t] = "discard" /\ walk[t].why \in {"cancel", "timeout"} => ~cancelling
  /\ timedout => timed
OnceInv ==
  /\ pc["app"] \in {"list", "submit"} => ~cancelled
  /\ cancelled \/ Expiring => cancelling
  /\ timedout /\ (has \/ told = "pending") => cancelling
  /\ cancelled => ~Expiring
  /\ cancelled /\ (has \/ told = "pending") => ~timedout
CauseInv ==
  /\ (has \/ pc["event"] = "why") /\ action = "cancelled" => cancelled \/ timedout \/ Expiring
  /\ has /\ cancelled => action = "cancelled"
  /\ pc["event"] = "why" => action = "cancelled" /\ result = "cancelled"
\* A control transfer's URB is discarded only by who cancels it.
AloneInv ==
  /\ has => num # 0
  /\ has /\ kind = "control" /\ urbs[1].status = "cancelled" =>
       \/ action = "cancelled"
       \/ \E t \in Threads : /\ pc[t] = "discard" /\ walk[t].why \in {"cancel", "timeout"}
                             /\ walk[t].ret = "ok" /\ walk[t].k = 0
CancelInv == TimedInv /\ OnceInv /\ CauseInv /\ AloneInv
EndedInv ==
  /\ pc["event"] \in {"finish", "settle", "call"} =>
       /\ cancelled => result \in {"cancelled", "no device"}
       /\ result = "cancelled" => cancelled
       /\ result = "timed out" => timed /\ ~cancelled
  /\ Reported /\ cancelled => told \in {"cancelled", "no device"}
  /\ told = "cancelled" => cancelled
  /\ told = "timed out" => timed /\ ~cancelled

-----------------------------------------------------------------------------
(* Arithmetic: how a transfer is cut into URBs. *)

LEMMA Quotient ==
  ASSUME NEW a \in Nat, NEW b \in Nat \ {0}
  PROVE  a \div b \in Nat /\ (a \div b) * b <= a /\ a < (a \div b) * b + b
OBVIOUS

LEMMA Multiples ==
  ASSUME NEW i \in Nat, NEW j \in Nat, NEW b \in Nat, i < j
  PROVE  i * b \in Nat /\ j * b \in Nat /\ i * b + b <= j * b
<1>1. PICK d \in Nat : j = i + 1 + d
  <2>1. j - i - 1 \in Nat
    OBVIOUS
  <2> QED
    BY <2>1
<1>2. j * b = i * b + b + d * b
  BY <1>1
<1>3. d * b \in Nat /\ i * b \in Nat
  OBVIOUS
<1> QED
  BY <1>2, <1>3

\* n cells, p of them to a URB, make c URBs; the one at i begins after the
\* cells of those before it, and the last has the rest.
LEMMA Cut ==
  ASSUME NEW n \in Nat, NEW p \in Nat \ {0}, NEW c,
         c = IF n = 0 THEN 1 ELSE (n + p - 1) \div p,
         NEW i \in 1..c
  PROVE  /\ c \in Nat \ {0}
         /\ (i - 1) * p \in Nat /\ (i - 1) * p <= n
         /\ i < c => (i - 1) * p + p <= n
         /\ i = c => n <= (i - 1) * p + p
<1>1. CASE n = 0
  <2>1. c = 1 /\ i = 1
    BY <1>1
  <2>2. (i - 1) * p = 0
    BY <2>1
  <2> QED
    BY <1>1, <2>1, <2>2
<1>2. CASE n # 0
  <2>1. n + p - 1 \in Nat /\ c = (n + p - 1) \div p
    BY <1>2
  <2>2. c \in Nat /\ c * p <= n + p - 1 /\ n + p - 1 < c * p + p
    BY <2>1, Quotient
  <2>3. i - 1 \in Nat /\ c \in Nat \ {0} /\ i \in Nat
    BY <2>2
  <2>4. (i - 1) * p \in Nat /\ c * p \in Nat /\ i * p = (i - 1) * p + p
    BY <2>2, <2>3
  <2>5. CASE i = c
    BY <2>2, <2>3, <2>4, <2>5
  <2>6. CASE i < c
    <3>1. i * p + p <= c * p
      BY <2>2, <2>3, <2>6, Multiples
    <3> QED
      BY <2>2, <2>3, <2>4, <2>6, <3>1
  <2> QED
    BY <2>3, <2>5, <2>6
<1> QED
  BY <1>1, <1>2

LEMMA PerUrbIs ==
  ASSUME JobInv
  PROVE  PerUrb(kind, mode, length) \in Nat \ {0} /\ length \in Nat
BY UsbTransferAssumption DEF JobInv, PerUrb

LEMMA SizeIs ==
  ASSUME JobInv, NEW i \in 1..num
  PROVE  /\ num \in Nat \ {0}
         /\ Start(i) \in Nat /\ Size(i) \in Nat /\ Start(i) + Size(i) <= length
         /\ i = num => Start(i) + Size(i) = length
<1> DEFINE p == PerUrb(kind, mode, length)
<1>1. p \in Nat \ {0} /\ length \in Nat
  BY PerUrbIs
<1>2. num = IF length = 0 THEN 1 ELSE (length + p - 1) \div p
  BY DEF JobInv, UrbCount
<1>3. /\ num \in Nat \ {0}
      /\ (i - 1) * p \in Nat /\ (i - 1) * p <= length
      /\ i < num => (i - 1) * p + p <= length
      /\ i = num => length <= (i - 1) * p + p
  <2> HIDE DEF p
  <2> QED
    BY <1>1, <1>2, Cut
<1>4. Start(i) = (i - 1) * p /\ Size(i) = IF i < num THEN p ELSE length - Start(i)
  BY DEF Start, Size
<1> QED
  <2> HIDE DEF p
  <2> QED
    BY <1>1, <1>3, <1>4

LEMMA StartsGrow ==
  ASSUME JobInv, NEW i \in 1..num, NEW j \in 1..num, i < j
  PROVE  Start(i) + Size(i) <= Start(j)
<1> DEFINE p == PerUrb(kind, mode, length)
<1>1. p \in Nat \ {0} /\ num \in Nat
  BY PerUrbIs, SizeIs
<1>2. Start(i) = (i - 1) * p /\ Start(j) = (j - 1) * p /\ Size(i) = p
  BY <1>1 DEF Start, Size
<1>3. i - 1 \in Nat /\ j - 1 \in Nat /\ i - 1 < j - 1
  BY <1>1
<1>4. (i - 1) * p + p <= (j - 1) * p
  <2> HIDE DEF p
  <2> QED
    BY <1>1, <1>3, Multiples
<1> QED
  BY <1>2, <1>4

LEMMA OneForControl ==
  ASSUME JobInv, kind = "control", num # 0
  PROVE  num = 1
<1>1. length \in Nat /\ num = UrbCount(kind, mode, length)
  BY PerUrbIs DEF JobInv
<1>2. CASE length = 0
  BY <1>1, <1>2 DEF UrbCount
<1>3. CASE length # 0
  <2>1. num = (length + length - 1) \div length
    BY <1>1, <1>3 DEF UrbCount, PerUrb
  <2>2. length + length - 1 \in Nat /\ length \in Nat \ {0}
    BY <1>1, <1>3
  <2>3. num \in Nat /\ num * length <= length + length - 1 /\ length + length - 1 < num * length + length
    BY <2>1, <2>2, Quotient
  <2>4. ~(1 < num)
    <3> SUFFICES ASSUME 1 < num PROVE FALSE
      OBVIOUS
    <3>1. 1 * length + length <= num * length
      BY <2>2, <2>3, Multiples
    <3> QED
      BY <2>2, <2>3, <3>1
  <2>5. num # 0
    OBVIOUS
  <2> QED
    BY <2>3, <2>4, <2>5
<1> QED
  BY <1>2, <1>3

\* The least and the greatest of the URBs that are with the kernel.
LEMMA Least ==
  ASSUME NEW S \in SUBSET Nat, S # {}
  PROVE  \E x \in S : \A y \in S : x <= y
<1> DEFINE R == {ss \in Nat \X Nat : ss[1] < ss[2]}
<1>1. IsWellFoundedOn(R, Nat)
  BY NatLessThanWellFounded DEF OpToRel
<1>2. \A x, y \in Nat : x < y => <<x, y>> \in R
  OBVIOUS
<1>3. S \subseteq Nat /\ S # {}
  OBVIOUS
<1> HIDE DEF R
<1>4. PICK x \in S : \A y \in S : ~(<<y, x>> \in R)
  BY <1>1, <1>3, WFMin
<1>5. \A y \in S : ~(y < x)
  BY <1>2, <1>4
<1> QED
  BY <1>5

LEMMA FirstLast ==
  ASSUME DoneInv, num \in Nat, Queued # {}
  PROVE  /\ First \in Queued /\ \A j \in Queued : First <= j
         /\ Last \in Queued /\ \A j \in Queued : j <= Last
         /\ Queued \subseteq 1..num
<1>1. Queued \subseteq 1..num
  BY DEF DoneInv, Queued
<1>2. \E i \in Queued : \A j \in Queued : i <= j
  BY <1>1, Least
<1>3. \E i \in Queued : \A j \in Queued : j <= i
  <2> DEFINE S == {n \in Nat : \E i \in Queued : n = num - i}
  <2>1. S \in SUBSET Nat
    OBVIOUS
  <2>2. \A i \in Queued : num - i \in S
    BY <1>1
  <2>3. S # {}
    BY <2>2
  <2>4. PICK n \in S : \A y \in S : n <= y
    <3> HIDE DEF S
    <3> QED
      BY <2>1, <2>3, Least
  <2>5. PICK i \in Queued : n = num - i
    OBVIOUS
  <2>6. \A j \in Queued : num - i <= num - j
    BY <2>2, <2>4, <2>5
  <2> QED
    BY <1>1, <2>5, <2>6
<1> QED
  BY <1>1, <1>2, <1>3 DEF First, Last

-----------------------------------------------------------------------------
(* Locks and places. *)

\* What the locks and places need to know of the data.
Types ==
  /\ has \in BOOLEAN /\ flying \in BOOLEAN /\ inflight \in BOOLEAN /\ cancelling \in BOOLEAN
  /\ told \in Results \cup {"none", "pending"} /\ result \in Results \cup {"none"}
  /\ reapStatus \in Results /\ num \in Nat
  /\ link \in {"watched", "dropped", "over"}

ControlInv == PlacesInv /\ LockInv /\ PhaseInv

LEMMA WalkSet ==
  ASSUME PlacesInv, NEW t \in Threads, NEW w \in Walks, walk' = [walk EXCEPT ![t] = w]
  PROVE  /\ walk' \in [Threads -> Walks] /\ walk'[t] = w
         /\ \A u \in Threads : u # t => walk'[u] = walk[u]
BY DEF PlacesInv

LEMMA WalkIs ==
  ASSUME PlacesInv, NEW t \in Threads
  PROVE  /\ walk[t] \in Walks
         /\ walk[t].k \in Nat /\ walk[t].lo \in Nat \ {0} /\ walk[t].hi \in Nat
         /\ walk[t].ret \in {"ok", "not found", "no device"}
         /\ walk[t].why \in {"none", "submit", "cancel", "timeout", "rest"}
<1>1. walk[t] \in Walks
  BY DEF PlacesInv
<1> QED
  BY <1>1 DEF Walks

LEMMA WalkRecords ==
  /\ [NoWalk EXCEPT !.k = 1] \in Walks
  /\ \A w \in Walks, n \in Nat : [w EXCEPT !.k = n] \in Walks
  /\ \A w \in Walks, r \in {"ok", "not found", "no device"} : [w EXCEPT !.ret = r] \in Walks
  /\ \A n \in Nat, m \in Nat \ {0}, y \in {"submit", "cancel", "timeout", "rest"} :
       [k |-> n, lo |-> m, hi |-> n, ret |-> "ok", why |-> y] \in Walks
<1>1. [NoWalk EXCEPT !.k = 1] \in Walks
  <2>1. [NoWalk EXCEPT !.k = 1] = [k |-> 1, lo |-> 1, hi |-> 0, ret |-> "ok", why |-> "none"]
    BY DEF NoWalk
  <2>2. [k |-> 1, lo |-> 1, hi |-> 0, ret |-> "ok", why |-> "none"] \in Walks
    BY DEF Walks
  <2> QED
    BY <2>1, <2>2, Zenon
<1>2. ASSUME NEW w \in Walks, NEW n \in Nat PROVE [w EXCEPT !.k = n] \in Walks
  BY DEF Walks
<1>3. ASSUME NEW w \in Walks, NEW r \in {"ok", "not found", "no device"}
      PROVE  [w EXCEPT !.ret = r] \in Walks
  BY DEF Walks
<1>4. ASSUME NEW n \in Nat, NEW m \in Nat \ {0},
             NEW y \in {"submit", "cancel", "timeout", "rest"}
      PROVE  [k |-> n, lo |-> m, hi |-> n, ret |-> "ok", why |-> y] \in Walks
  BY DEF Walks
<1> QED
  BY <1>1, <1>2, <1>3, <1>4

\* A cancellation takes the lock and walks, or has nothing to do.
LEMMA BeginMoves ==
  ASSUME Types, PlacesInv, NEW t \in Threads, NEW why \in {"cancel", "timeout"}, NEW next,
         BeginCancel(t, why, next)
  PROVE  /\ walk' \in [Threads -> Walks] /\ \A u \in Threads : u # t => walk'[u] = walk[u]
         /\ UNCHANGED <<has, flying, inflight, told, result, link, done, flock, urbs, cur>>
         /\ xlock = "free"
         /\ \/ /\ xlock' = xlock /\ pc' = [pc EXCEPT ![t] = next]
            \/ /\ xlock' = t /\ pc' = [pc EXCEPT ![t] = "discard"] /\ inflight /\ has
               /\ walk'[t] = [k |-> num, lo |-> 1, hi |-> num, ret |-> "ok", why |-> why]
<1> DEFINE w == [k |-> num, lo |-> 1, hi |-> num, ret |-> "ok", why |-> why]
<1> USE DEF Go
<1>1. CASE inflight /\ ~cancelling /\ has
  <2>1. walk' = [walk EXCEPT ![t] = w]
    BY <1>1 DEF BeginCancel
  <2>0. w \in Walks
    <3>1. num \in Nat /\ 1 \in Nat \ {0}
      BY DEF Types
    <3> QED
      BY <3>1, WalkRecords
  <2>2. walk' \in [Threads -> Walks] /\ walk'[t] = w /\ \A u \in Threads : u # t => walk'[u] = walk[u]
    <3> HIDE DEF w
    <3> QED
      BY <2>0, <2>1, WalkSet
  <2> QED
    BY <1>1, <2>2 DEF BeginCancel, priv, kernel, data, ghosts
<1>2. CASE ~(inflight /\ ~cancelling /\ has)
  <2>1. walk' = [walk EXCEPT ![t].ret = "not found"]
    BY <1>2 DEF BeginCancel
  <2>2. walk' = [walk EXCEPT ![t] = [walk[t] EXCEPT !.ret = "not found"]]
    BY <2>1 DEF PlacesInv
  <2>3. [walk[t] EXCEPT !.ret = "not found"] \in Walks
    BY WalkIs, WalkRecords
  <2>4. walk' \in [Threads -> Walks] /\ \A u \in Threads : u # t => walk'[u] = walk[u]
    BY <2>2, <2>3, WalkSet
  <2> QED
    BY <1>2, <2>4 DEF BeginCancel, priv, kernel, data, ghosts
<1> QED
  BY <1>1, <1>2

LEMMA DiscardMoves ==
  ASSUME PlacesInv, NEW t \in Threads, DiscardUrb(t)
  PROVE  /\ walk' \in [Threads -> Walks]
         /\ walk[t].k \in Nat \ {0} /\ walk'[t].k = walk[t].k - 1
         /\ walk'[t].why = walk[t].why
         /\ \A u \in Threads : u # t => walk'[u] = walk[u]
<1>1. walk[t].k \in Nat /\ walk[t].lo \in Nat \ {0} /\ walk[t].hi \in Nat
  BY WalkIs
<1>2. walk[t].k >= walk[t].lo
  BY DEF DiscardUrb, Walking
<1>3. walk[t].k \in Nat \ {0} /\ walk[t].k - 1 \in Nat
  BY <1>1, <1>2
<1>4. PICK r \in {"ok", "not found", "no device"} :
        walk' = [walk EXCEPT ![t].k = walk[t].k - 1, ![t].ret = r]
  <2>1. CASE walk' = [walk EXCEPT ![t].k = walk[t].k - 1]
    <3>1. walk' = [walk EXCEPT ![t].k = walk[t].k - 1, ![t].ret = walk[t].ret]
      BY <2>1, WalkIs DEF PlacesInv, Walks
    <3> QED
      BY <3>1, WalkIs
  <2>2. CASE walk' = [walk EXCEPT ![t].k = walk[t].k - 1, ![t].ret = "no device"]
    BY <2>2
  <2>3. CASE walk' = [walk EXCEPT ![t].k = walk[t].k - 1,
                        ![t].ret = IF Discarded(t) = walk[t].hi THEN "not found" ELSE walk[t].ret]
    BY <2>3, WalkIs
  <2> QED
    BY <2>1, <2>2, <2>3 DEF DiscardUrb
<1>5. DEFINE w == [walk[t] EXCEPT !.k = walk[t].k - 1, !.ret = r]
<1>6. w \in Walks /\ w.k = walk[t].k - 1 /\ w.why = walk[t].why
  BY <1>3, WalkIs DEF Walks
<1>7. walk' = [walk EXCEPT ![t] = w]
  BY <1>4 DEF PlacesInv
<1> QED
  <2> HIDE DEF w
  <2> QED
    BY <1>3, <1>6, <1>7, WalkSet

\* What the locks say of each thread.
LEMMA LocksAre ==
  ASSUME LockInv
  PROVE  /\ flock # "app" => pc["app"] \notin {"list", "expire", "mark"}
         /\ flock # "event" => pc["event"] \notin {"list", "expire", "mark"}
         /\ xlock # "app" => pc["app"] \notin {"submit", "discard"}
         /\ xlock # "event" => pc["event"] \notin {"submit", "discard"}
         /\ pc["app"] \in {"submit", "discard"} => xlock = "app"
         /\ pc["event"] \in {"submit", "discard"} => xlock = "event"
BY DEF LockInv, HoldsList, HoldsTransfer, Threads

\* The end of a transfer, or of the handling of one URB.
LEMMA HandleMoves ==
  ASSUME Types, PlacesInv, LockInv, PhaseInv, DoneInv,
         HandleAbnormal \/ HandleBulk \/ HandleIso \/ HandleControl
  PROVE  /\ UNCHANGED <<flags, told, flock, link, done, urbs, job, num>>
         /\ pc["event"] = "handle" /\ pc["app"] \notin {"submit", "discard"}
         /\ xlock = "free" /\ has /\ told = "pending"
         /\ walk'["app"] = walk["app"]
         /\ \/ /\ ~has' /\ xlock' = xlock /\ walk' = walk /\ cur' = 0
               /\ result' \in Results
               /\ \E p \in {"why", "finish"} : pc' = [pc EXCEPT !["event"] = p]
            \/ /\ has' = has /\ xlock' = xlock /\ walk' = walk /\ cur' = 0
               /\ result' = result /\ pc' = [pc EXCEPT !["event"] = "poll"]
            \/ /\ has' = has /\ xlock' = "event" /\ cur' = 0
               /\ result' = result /\ pc' = [pc EXCEPT !["event"] = "discard"]
               /\ walk' = [walk EXCEPT !["event"] =
                     [k |-> num, lo |-> cur + 1, hi |-> num, ret |-> "ok", why |-> "rest"]]
<1> USE DEF Handling, At, Go, flags, job, HandledUnchanged, ghosts, kernel
<1>1. /\ pc["event"] = "handle" /\ xlock = "free" /\ has
      /\ pc["app"] \notin {"submit", "discard"} /\ told = "pending"
  <2>1. pc["event"] = "handle" /\ xlock = "free"
    BY DEF HandleAbnormal, HandleBulk, HandleIso, HandleControl
  <2>2. pc["app"] \notin {"submit", "discard"} /\ has
    BY <2>1, LocksAre DEF PhaseInv
  <2> QED
    BY <2>1, <2>2 DEF PhaseInv, Submission
<1>2. /\ UNCHANGED <<flags, told, flock, link, done, urbs, job, num>>
  BY DEF HandleAbnormal, HandleBulk, HandleIso, HandleControl
<1>3. /\ cur \in 1..num /\ urbs[cur].status \in Statuses
      /\ kind # "bulk" => urbs[cur].status # "unlinked"
  <2>1. cur \in 1..num /\ urbs \in [1..num -> Urbs]
    BY <1>1 DEF DoneInv, Types
  <2>2. urbs[cur] \in Urbs
    BY <2>1
  <2> QED
    BY <2>1, <2>2 DEF DoneInv, Urbs
<1>4. \/ Wait \/ DiscardRest \/ \E status \in Results : Over(status)
  <2>1. CASE HandleAbnormal
    <3>1. reapStatus' \in Results
      BY <2>1 DEF HandleAbnormal, Types, Results
    <3> QED
      BY <2>1, <3>1 DEF HandleAbnormal, Results
  <2>2. CASE HandleBulk
    <3>1. reapStatus' \in Results
      BY <2>2 DEF HandleBulk, Types, Results
    <3> QED
      BY <2>2, <3>1 DEF HandleBulk
  <2>3. CASE HandleIso
    BY <2>3 DEF HandleIso, Results
  <2>4. CASE HandleControl
    <3>1. PICK status : /\ Over(status)
                        /\ status = IF action = "cancelled" THEN "cancelled"
                             ELSE CASE urbs[cur].status \in {"ok", "short"} -> "completed"
                                    [] urbs[cur].status = "gone" -> "no device"
                                    [] urbs[cur].status = "bus" -> "error"
                                    [] OTHER -> urbs[cur].status
      BY <2>4 DEF HandleControl
    <3>2. urbs[cur].status \in Statuses \ {"unlinked"}
      BY <1>3, <2>4 DEF HandleControl
    <3>3. status \in Results
      BY <3>1, <3>2 DEF Statuses, Results
    <3> QED
      BY <3>1, <3>3
  <2> QED
    BY <2>1, <2>2, <2>3, <2>4
<1>5. walk'["app"] = walk["app"]
  <2>1. walk \in [Threads -> Walks] /\ "event" # "app" /\ "app" \in Threads
    BY DEF PlacesInv, Threads
  <2> QED
    BY <1>4, <2>1 DEF Over, Wait, DiscardRest
<1>6. CASE Wait
  BY <1>1, <1>2, <1>5, <1>6 DEF Wait
<1>7. CASE DiscardRest
  BY <1>1, <1>2, <1>5, <1>7 DEF DiscardRest
<1>8. ASSUME NEW status \in Results, Over(status)
      PROVE  /\ ~has' /\ xlock' = xlock /\ walk' = walk /\ cur' = 0
             /\ result' \in Results
             /\ \E p \in {"why", "finish"} : pc' = [pc EXCEPT !["event"] = p]
  BY <1>8 DEF Over
<1> QED
  BY <1>1, <1>2, <1>4, <1>5, <1>6, <1>7, <1>8

LEMMA ControlStep == Types /\ ControlInv /\ DoneInv /\ OrderInv /\ [Next]_vars => ControlInv'
<1> SUFFICES ASSUME Types, ControlInv, DoneInv, OrderInv, [Next]_vars PROVE ControlInv'
  OBVIOUS
<1> USE DEF Threads, At, Go, HoldsList, HoldsTransfer, Submission,
            job, priv, kernel, flags, data, threads, ghosts
<1>1. ASSUME Submit PROVE ControlInv'
  <2> USE <1>1 DEF Submit
  <2>1. PlacesInv'
    BY DEF ControlInv, PlacesInv, Types, AppPlaces, EventPlaces, Walks, NoWalk
  <2>2. LockInv'
    BY DEF ControlInv, PlacesInv, LockInv
  <2>3. PhaseInv'
    BY DEF ControlInv, PlacesInv, LockInv, PhaseInv, Types
  <2> QED
    BY <2>1, <2>2, <2>3 DEF ControlInv
<1>2. ASSUME List PROVE ControlInv'
  <2> USE <1>2 DEF List
  <2>1. PlacesInv'
    <3>1. [NoWalk EXCEPT !.k = 1] \in Walks
      BY WalkRecords
    <3>2. walk' \in [Threads -> Walks] /\ walk'["event"] = walk["event"]
      BY <3>1, WalkSet DEF ControlInv
    <3> QED
      BY <3>2 DEF ControlInv, PlacesInv, AppPlaces
  <2>2. LockInv'
    BY DEF ControlInv, PlacesInv, LockInv
  <2>3. PhaseInv'
    BY DEF ControlInv, PlacesInv, LockInv, PhaseInv, Types
  <2> QED
    BY <2>1, <2>2, <2>3 DEF ControlInv
<1>3. ASSUME SubmitUrb PROVE ControlInv'
  <2> USE <1>3 DEF SubmitUrb, Accept
  <2>1. PlacesInv'
    <3>1. [walk["app"] EXCEPT !.k = @ + 1] \in Walks
      <4>1. "app" \in Threads /\ PlacesInv
        BY DEF ControlInv
      <4>2. walk["app"] \in Walks /\ walk["app"].k \in Nat
        BY <4>1, WalkIs
      <4>3. walk["app"].k + 1 \in Nat
        BY <4>2
      <4> QED
        BY <4>2, <4>3, WalkRecords
    <3>2. walk' = [walk EXCEPT !["app"] = [walk["app"] EXCEPT !.k = @ + 1]]
      BY DEF ControlInv, PlacesInv
    <3>3. walk' \in [Threads -> Walks] /\ walk'["event"] = walk["event"]
      BY <3>1, <3>2, WalkSet DEF ControlInv
    <3> QED
      BY <3>3 DEF ControlInv, PlacesInv, AppPlaces
  <2>2. LockInv'
    BY DEF ControlInv, PlacesInv, LockInv
  <2>3. PhaseInv'
    BY DEF ControlInv, PlacesInv, LockInv, PhaseInv, Types
  <2> QED
    BY <2>1, <2>2, <2>3 DEF ControlInv
<1>4. ASSUME SubmitRefused PROVE ControlInv'
  <2> USE <1>4 DEF SubmitRefused
  <2>1. PlacesInv'
    BY DEF ControlInv, PlacesInv, Types, AppPlaces, EventPlaces, Walks, NoWalk
  <2>2. LockInv'
    BY DEF ControlInv, PlacesInv, LockInv
  <2>3. PhaseInv'
    <3>1. pc["event"] # "handle"
      BY DEF DoneInv, OrderInv, RowInv, WalkInv, Types
    <3> QED
      BY <3>1, LocksAre DEF ControlInv, PlacesInv, PhaseInv, Types
  <2> QED
    BY <2>1, <2>2, <2>3 DEF ControlInv
<1>5. ASSUME SubmitStops PROVE ControlInv'
  <2> USE <1>5 DEF SubmitStops
  <2>1. PlacesInv'
    <3> DEFINE w == [k |-> Submitting - 1, lo |-> 1, hi |-> Submitting - 1, ret |-> "ok",
                     why |-> "submit"]
    <3>1. Submitting - 1 \in Nat
      BY DEF OrderInv, RowInv, WalkInv, Types
    <3>2. w \in Walks
      <4>1. 1 \in Nat \ {0}
        OBVIOUS
      <4> QED
        BY <3>1, <4>1, WalkRecords
    <3>3. walk' \in [Threads -> Walks] /\ walk'["app"] = w /\ walk'["event"] = walk["event"]
      BY <3>2, WalkSet DEF ControlInv
    <3> QED
      BY <3>3 DEF ControlInv, PlacesInv, AppPlaces
  <2>2. LockInv'
    BY DEF ControlInv, PlacesInv, LockInv
  <2>3. PhaseInv'
    BY DEF ControlInv, PlacesInv, LockInv, PhaseInv, Types
  <2> QED
    BY <2>1, <2>2, <2>3 DEF ControlInv
<1>6. ASSUME SubmitEndsEarly PROVE ControlInv'
  <2> USE <1>6 DEF SubmitEndsEarly, Accept
  <2>1. PlacesInv'
    BY DEF ControlInv, PlacesInv, Types, AppPlaces, EventPlaces, Walks, NoWalk
  <2>2. LockInv'
    BY DEF ControlInv, PlacesInv, LockInv
  <2>3. PhaseInv'
    BY DEF ControlInv, PlacesInv, LockInv, PhaseInv, Types
  <2> QED
    BY <2>1, <2>2, <2>3 DEF ControlInv
<1>7. ASSUME Unlist PROVE ControlInv'
  <2> USE <1>7 DEF Unlist
  <2>1. PlacesInv'
    BY DEF ControlInv, PlacesInv, Types, AppPlaces, EventPlaces, Walks, NoWalk
  <2>2. LockInv'
    BY DEF ControlInv, PlacesInv, LockInv
  <2>3. PhaseInv'
    BY DEF ControlInv, PlacesInv, LockInv, PhaseInv, Types
  <2> QED
    BY <2>1, <2>2, <2>3 DEF ControlInv
<1>8. ASSUME Cancel PROVE ControlInv'
  <2>1. /\ pc["app"] = "idle" /\ told = "pending"
        /\ BeginCancel("app", "cancel", "idle")
    BY <1>8 DEF Cancel, ControlInv, PhaseInv
  <2>2. /\ walk' \in [Threads -> Walks] /\ \A u \in Threads : u # "app" => walk'[u] = walk[u]
        /\ UNCHANGED <<has, flying, inflight, told, result, link, done, flock>>
        /\ xlock = "free"
        /\ \/ /\ xlock' = xlock /\ pc' = [pc EXCEPT !["app"] = "idle"]
           \/ /\ xlock' = "app" /\ pc' = [pc EXCEPT !["app"] = "discard"] /\ inflight /\ has
              /\ walk'["app"].why = "cancel"
    BY <2>1, BeginMoves DEF ControlInv
  <2>3. PlacesInv'
    BY <2>1, <2>2 DEF ControlInv, PlacesInv, AppPlaces, EventPlaces
  <2>4. LockInv'
    BY <2>1, <2>2 DEF ControlInv, PlacesInv, LockInv
  <2>5. PhaseInv'
    BY <2>1, <2>2 DEF ControlInv, PlacesInv, PhaseInv, Types
  <2> QED
    BY <2>3, <2>4, <2>5 DEF ControlInv
<1>9. ASSUME Reap PROVE ControlInv'
  <2> USE <1>9 DEF Reap
  <2>1. PlacesInv'
    BY DEF ControlInv, PlacesInv, Types, AppPlaces, EventPlaces, Walks, NoWalk
  <2>2. LockInv'
    BY DEF ControlInv, PlacesInv, LockInv
  <2>3. PhaseInv'
    <3>1. has
      BY DEF DoneInv
    <3> QED
      BY <3>1 DEF ControlInv, PlacesInv, PhaseInv, Types
  <2> QED
    BY <2>1, <2>2, <2>3 DEF ControlInv
<1>10. ASSUME HandleAbnormal \/ HandleBulk \/ HandleIso \/ HandleControl PROVE ControlInv'
  <2>1. /\ UNCHANGED <<flags, told, flock, link, done, urbs, job, num>>
        /\ pc["event"] = "handle" /\ pc["app"] \notin {"submit", "discard"}
        /\ xlock = "free" /\ has /\ told = "pending"
        /\ walk'["app"] = walk["app"]
    BY <1>10, HandleMoves DEF ControlInv
  <2>2. ASSUME ~has', xlock' = xlock, walk' = walk, result' \in Results,
               NEW p \in {"why", "finish"}, pc' = [pc EXCEPT !["event"] = p]
        PROVE  ControlInv'
    <3>1. PlacesInv'
      BY <2>2 DEF ControlInv, PlacesInv, EventPlaces
    <3>2. LockInv'
      BY <2>1, <2>2 DEF ControlInv, PlacesInv, LockInv
    <3>3. PhaseInv'
      BY <2>1, <2>2 DEF ControlInv, PlacesInv, PhaseInv, Types
    <3> QED
      BY <3>1, <3>2, <3>3 DEF ControlInv
  <2>3. ASSUME has' = has, xlock' = xlock, walk' = walk, result' = result,
               pc' = [pc EXCEPT !["event"] = "poll"]
        PROVE  ControlInv'
    <3>1. PlacesInv'
      BY <2>3 DEF ControlInv, PlacesInv, EventPlaces
    <3>2. LockInv'
      BY <2>1, <2>3 DEF ControlInv, PlacesInv, LockInv
    <3>3. PhaseInv'
      BY <2>1, <2>3 DEF ControlInv, PlacesInv, PhaseInv, Types
    <3> QED
      BY <3>1, <3>2, <3>3 DEF ControlInv
  <2>4. ASSUME has' = has, xlock' = "event", result' = result,
               pc' = [pc EXCEPT !["event"] = "discard"],
               walk' = [walk EXCEPT !["event"] =
                 [k |-> num, lo |-> cur + 1, hi |-> num, ret |-> "ok", why |-> "rest"]]
        PROVE  ControlInv'
    <3> DEFINE w == [k |-> num, lo |-> cur + 1, hi |-> num, ret |-> "ok", why |-> "rest"]
    <3>1. w \in Walks
      BY DEF Walks, Types, DoneInv
    <3>2. walk' \in [Threads -> Walks] /\ walk'["event"] = w
      BY <2>4, <3>1, WalkSet DEF ControlInv
    <3>3. PlacesInv'
      BY <2>1, <2>4, <3>2 DEF ControlInv, PlacesInv, EventPlaces
    <3>4. LockInv'
      BY <2>1, <2>4, <3>2 DEF ControlInv, PlacesInv, LockInv
    <3>5. PhaseInv'
      BY <2>1, <2>4, <3>2 DEF ControlInv, PlacesInv, PhaseInv, Types
    <3> QED
      BY <3>3, <3>4, <3>5 DEF ControlInv
  <2> QED
    BY <1>10, <2>2, <2>3, <2>4, HandleMoves DEF ControlInv
<1>11. ASSUME Why PROVE ControlInv'
  <2> USE <1>11 DEF Why
  <2>1. PlacesInv'
    BY DEF ControlInv, PlacesInv, Types, AppPlaces, EventPlaces, Walks, NoWalk
  <2>2. LockInv'
    BY DEF ControlInv, PlacesInv, LockInv
  <2>3. PhaseInv'
    BY DEF ControlInv, PlacesInv, PhaseInv, Types, Results
  <2> QED
    BY <2>1, <2>2, <2>3 DEF ControlInv
<1>12. ASSUME Remove PROVE ControlInv'
  <2> USE <1>12 DEF Remove
  <2>1. PlacesInv'
    BY DEF ControlInv, PlacesInv, Types, AppPlaces, EventPlaces, Walks, NoWalk
  <2>2. LockInv'
    BY DEF ControlInv, PlacesInv, LockInv
  <2>3. PhaseInv'
    <3>1. pc["app"] = "idle"
      BY LocksAre DEF ControlInv, PlacesInv, PhaseInv, AppPlaces
    <3> QED
      BY <3>1 DEF ControlInv, PlacesInv, PhaseInv, Types
  <2> QED
    BY <2>1, <2>2, <2>3 DEF ControlInv
<1>13. ASSUME Settle PROVE ControlInv'
  <2> USE <1>13 DEF Settle
  <2>1. PlacesInv'
    BY DEF ControlInv, PlacesInv, Types, AppPlaces, EventPlaces, Walks, NoWalk
  <2>2. LockInv'
    BY DEF ControlInv, PlacesInv, LockInv
  <2>3. PhaseInv'
    BY DEF ControlInv, PlacesInv, LockInv, PhaseInv, Types
  <2> QED
    BY <2>1, <2>2, <2>3 DEF ControlInv
<1>14. ASSUME Call PROVE ControlInv'
  <2> USE <1>14 DEF Call
  <2>1. PlacesInv'
    BY DEF ControlInv, PlacesInv, Types, AppPlaces, EventPlaces, Walks, NoWalk
  <2>2. LockInv'
    BY DEF ControlInv, PlacesInv, LockInv
  <2>3. PhaseInv'
    BY DEF ControlInv, PlacesInv, LockInv, PhaseInv, Types
  <2> QED
    BY <2>1, <2>2, <2>3 DEF ControlInv
<1>15. ASSUME Hangup PROVE ControlInv'
  <2> USE <1>15 DEF Hangup
  <2>1. PlacesInv'
    BY DEF ControlInv, PlacesInv, Types, AppPlaces, EventPlaces, Walks, NoWalk
  <2>2. LockInv'
    BY DEF ControlInv, PlacesInv, LockInv
  <2>3. PhaseInv'
    BY DEF ControlInv, PlacesInv, LockInv, PhaseInv, Types
  <2> QED
    BY <2>1, <2>2, <2>3 DEF ControlInv
<1>16. ASSUME FindLost PROVE ControlInv'
  <2> USE <1>16 DEF FindLost
  <2>1. PlacesInv'
    BY DEF ControlInv, PlacesInv, Types, AppPlaces, EventPlaces, Walks, NoWalk
  <2>2. LockInv'
    BY DEF ControlInv, PlacesInv, LockInv
  <2>3. PhaseInv'
    BY DEF ControlInv, PlacesInv, LockInv, PhaseInv, Types
  <2> QED
    BY <2>1, <2>2, <2>3 DEF ControlInv
<1>17. ASSUME ClearLost PROVE ControlInv'
  <2> USE <1>17 DEF ClearLost
  <2>1. PlacesInv'
    BY DEF ControlInv, PlacesInv, Types, AppPlaces, EventPlaces, Walks, NoWalk
  <2>2. LockInv'
    BY DEF ControlInv, PlacesInv, LockInv
  <2>3. PhaseInv'
    BY LocksAre DEF ControlInv, PlacesInv, PhaseInv, Types, Results
  <2> QED
    BY <2>1, <2>2, <2>3 DEF ControlInv
<1>18. ASSUME NEW t \in Threads, DiscardUrb(t) PROVE ControlInv'
  <2>0. /\ walk' \in [Threads -> Walks] /\ \A u \in Threads : walk'[u].why = walk[u].why
        /\ UNCHANGED <<job, flags, pc, flock, xlock, result, told, has>>
        /\ link' = link /\ (pc["event"] = "clear" => done' = done)
    <3>1. \A u \in Threads : walk'[u].why = walk[u].why
      BY <1>18, DiscardMoves DEF ControlInv
    <3>2. UNCHANGED <<job, flags, pc, flock, xlock, result, told, has, link>>
      BY <1>18 DEF DiscardUrb
    <3>3. pc["event"] = "clear" => ~alive
      BY DEF ControlInv, PhaseInv, DoneInv
    <3>4. ~alive => done' = done
      BY <1>18 DEF DiscardUrb
    <3> QED
      BY <1>18, <3>1, <3>2, <3>3, <3>4, DiscardMoves DEF ControlInv
  <2>1. PlacesInv'
    BY <2>0 DEF ControlInv, PlacesInv
  <2>2. LockInv'
    BY <2>0 DEF ControlInv, LockInv
  <2>3. PhaseInv'
    BY <2>0 DEF ControlInv, PhaseInv
  <2> QED
    BY <2>1, <2>2, <2>3 DEF ControlInv
<1>19. ASSUME NEW t \in Threads, Walked(t) PROVE ControlInv'
  <2> USE <1>19 DEF Walked, Walking, Accept
  <2>1. PlacesInv'
    <3>1. walk' = walk /\ pc[t] = "discard"
      OBVIOUS
    <3>2. \/ pc' = [pc EXCEPT ![t] = "idle"] /\ walk[t].why \in {"submit", "cancel"}
          \/ pc' = [pc EXCEPT ![t] = "poll"] /\ walk[t].why = "rest"
          \/ pc' = [pc EXCEPT ![t] = "mark"]
      OBVIOUS
    <3> QED
      BY ONLY <3>1, <3>2, t \in Threads, ControlInv
         DEF ControlInv, PlacesInv, AppPlaces, EventPlaces, Threads
  <2>2. LockInv'
    BY DEF ControlInv, PlacesInv, LockInv
  <2>3. PhaseInv'
    BY DEF ControlInv, PlacesInv, LockInv, PhaseInv, Types
  <2> QED
    BY <2>1, <2>2, <2>3 DEF ControlInv
<1>20. ASSUME NEW t \in Threads, TimerFires(t) PROVE ControlInv'
  <2> USE <1>20 DEF TimerFires, Rest
  <2>1. PlacesInv'
    BY DEF ControlInv, PlacesInv, Types, AppPlaces, EventPlaces, Walks, NoWalk
  <2>2. LockInv'
    BY DEF ControlInv, PlacesInv, LockInv
  <2>3. PhaseInv'
    BY DEF ControlInv, PlacesInv, LockInv, PhaseInv, Types
  <2> QED
    BY <2>1, <2>2, <2>3 DEF ControlInv
<1>21. ASSUME NEW t \in Threads, Expire(t) PROVE ControlInv'
  <2>1. /\ pc[t] = "expire" /\ (t = "app" => told = "pending")
        /\ BeginCancel(t, "timeout", "mark")
    BY <1>21 DEF Expire, ControlInv, PhaseInv
  <2>2. /\ walk' \in [Threads -> Walks] /\ \A u \in Threads : u # t => walk'[u] = walk[u]
        /\ UNCHANGED <<has, flying, inflight, told, result, link, done, flock>>
        /\ xlock = "free"
        /\ \/ /\ xlock' = xlock /\ pc' = [pc EXCEPT ![t] = "mark"]
           \/ /\ xlock' = t /\ pc' = [pc EXCEPT ![t] = "discard"] /\ inflight /\ has
              /\ walk'[t].why = "timeout"
    BY <2>1, BeginMoves DEF ControlInv
  <2>3. PlacesInv'
    BY <2>1, <2>2 DEF ControlInv, PlacesInv, AppPlaces, EventPlaces
  <2>4. LockInv'
    <3>1. CASE t = "app"
      BY <2>1, <2>2, <3>1 DEF ControlInv, PlacesInv, LockInv
    <3>2. CASE t = "event"
      <4>1. /\ pc'["app"] = pc["app"] /\ pc'["event"] \in {"mark", "discard"}
            /\ walk'["app"] = walk["app"]
            /\ pc'["event"] = "discard" => walk'["event"].why = "timeout" /\ xlock' = "event"
            /\ pc'["event"] = "mark" => xlock' = "free"
        BY <2>1, <2>2, <3>2 DEF ControlInv, PlacesInv
      <4>2. xlock = "free" /\ flock' = flock /\ flock = "event"
        BY <2>1, <2>2, <3>2 DEF ControlInv, LockInv
      <4>3. \A u \in Threads : (flock' = u => HoldsList(u)') /\ (HoldsList(u)' => flock' = u)
        BY <4>1, <4>2 DEF ControlInv, LockInv
      <4>4. \A u \in Threads :
              (xlock' = u => HoldsTransfer(u)') /\ (HoldsTransfer(u)' => xlock' = u)
        BY <4>1, <4>2 DEF ControlInv, LockInv
      <4>5. flock' \in Threads \cup {"free"} /\ xlock' \in Threads \cup {"free"}
        BY <4>1, <4>2
      <4> QED
        BY <4>3, <4>4, <4>5 DEF LockInv
    <3> QED
      BY <3>1, <3>2
  <2>5. PhaseInv'
    BY <2>1, <2>2 DEF ControlInv, PlacesInv, PhaseInv, Types
  <2> QED
    BY <2>3, <2>4, <2>5 DEF ControlInv
<1>22. ASSUME NEW t \in Threads, Mark(t) PROVE ControlInv'
  <2> USE <1>22 DEF Mark, Rest, Cancelled
  <2>1. PlacesInv'
    BY DEF ControlInv, PlacesInv, Types, AppPlaces, EventPlaces, Walks, NoWalk
  <2>2. LockInv'
    BY DEF ControlInv, PlacesInv, LockInv
  <2>3. PhaseInv'
    BY DEF ControlInv, PlacesInv, LockInv, PhaseInv, Types
  <2> QED
    BY <2>1, <2>2, <2>3 DEF ControlInv
<1>23. ASSUME Kernel PROVE ControlInv'
  <2>1. UNCHANGED <<has, flying, inflight, told, result, link, flock, xlock, pc, walk>>
    BY <1>23 DEF Kernel, UrbDone, UrbShort, UrbFails, UrbOverflows, Unplug, Shutdown, Finish
  <2>2. pc["event"] = "clear" => Queued = {} /\ done = <<>>
    BY DEF ControlInv, PhaseInv, DoneInv
  <2>3. pc["event"] = "clear" => done' = done
    BY <1>23, <2>2 DEF Kernel, UrbDone, UrbShort, UrbFails, UrbOverflows, Unplug, Shutdown
  <2> QED
    BY <2>1, <2>2, <2>3 DEF ControlInv, PlacesInv, LockInv, PhaseInv
<1>24. CASE UNCHANGED vars
  BY <1>24 DEF ControlInv, PlacesInv, LockInv, PhaseInv, vars
<1> QED
  BY <1>1, <1>2, <1>3, <1>4, <1>5, <1>6, <1>7, <1>8, <1>9, <1>10, <1>11, <1>12, <1>13,
     <1>14, <1>15, <1>16, <1>17, <1>18, <1>19, <1>20, <1>21, <1>22, <1>23, <1>24 DEF
     Next, App, Event, Either

-----------------------------------------------------------------------------
(* What the kernel hands back. *)

\* URBs i to last come back at once: i with n cells, those behind it empty.
Returns(i, status, n, last) ==
  /\ i \in Queued /\ last \in i..num /\ i..last \subseteq Queued
  /\ status \in Statuses \ {"unlinked"} /\ n \in 0..Size(i)
  /\ last > i => kind = "bulk"
  /\ kind = "iso" => n = Size(i)
  /\ kind # "iso" /\ n > 0 => \A j \in Queued : i <= j
  /\ alive => (\A j \in Queued : i <= j) \/ (last = i /\ \A j \in Queued : j <= i)
  /\ status = "overflow" => Queued = {i} /\ i = num
  /\ status = "ok" => n = Size(i)
  /\ status = "short" => n < Size(i)
  /\ status = "gone" => ~alive
  /\ last > i => status \in {"short", "stall", "bus"}
  /\ kind # "iso" /\ n > 0 => Flows
  /\ Complete(i, status, n, last)
  /\ UNCHANGED <<job, priv, alive, reapAfter, link, transferred, buf, cur, pc>>

LEMMA PartIs ==
  ASSUME NEW i \in Queued, JobInv, DoneInv, num \in Nat, NEW n \in Part(i)
  PROVE  /\ n \in 0..Size(i)
         /\ kind = "iso" => n = Size(i)
         /\ kind # "iso" /\ n > 0 => Flows /\ \A j \in Queued : i <= j
<1>1. i \in 1..num /\ Size(i) \in Nat
  BY SizeIs DEF DoneInv, Queued
<1>2. CASE kind = "iso"
  BY <1>1, <1>2 DEF Part
<1>3. CASE kind # "iso" /\ n = 0
  BY <1>1, <1>3
<1>4. CASE kind # "iso" /\ n # 0
  <2>1. i = First /\ n \in 0..Size(i) /\ Flows
    BY <1>1, <1>4 DEF Part
  <2> QED
    BY <1>4, <2>1, FirstLast
<1> QED
  BY <1>2, <1>3, <1>4

LEMMA KernelReturns ==
  ASSUME JobInv, DoneInv, OrderInv, num \in Nat,
         UrbDone \/ UrbShort \/ UrbFails \/ UrbOverflows \/ Shutdown
  PROVE  \E i \in 1..num, last \in 1..num, status \in Statuses, n \in Nat :
           /\ Returns(i, status, n, last) /\ (alive => \A j \in Queued : i <= j)
           /\ status # "cancelled"
<1> USE DEF job, priv, flags, data, threads
<1>1. ASSUME alive, Queued # {}, NEW status \in Statuses \ {"unlinked", "gone", "cancelled"},
             NEW n \in 0..Size(First),
             kind = "iso" => n = Size(First), Finish(status, n),
             status = "overflow" => Queued = {num},
             status = "ok" => n = Size(First), status = "short" => n < Size(First),
             kind # "iso" /\ n > 0 => Flows
      PROVE  \E i \in 1..num, last \in 1..num, st \in Statuses, m \in Nat :
               /\ Returns(i, st, m, last) /\ (alive => \A j \in Queued : i <= j)
               /\ st # "cancelled"
  <2> DEFINE last == IF Ends(status) /\ (status = "short" => First < num) THEN Last ELSE First
  <2>1. /\ First \in Queued /\ \A j \in Queued : First <= j
        /\ Last \in Queued /\ \A j \in Queued : j <= Last
        /\ Queued \subseteq 1..num
    BY <1>1, FirstLast
  <2>2. First..Last \subseteq Queued
    BY <1>1, <2>1 DEF OrderInv, RowInv, WalkInv
  <2>3. /\ last \in First..num /\ First..last \subseteq Queued
        /\ last > First => kind = "bulk" /\ status \in {"short", "stall", "bus"}
    BY <2>1, <2>2 DEF Ends
  <2>4. Complete(First, status, n, last)
    BY <1>1 DEF Finish
  <2>5. UNCHANGED <<job, priv, alive, reapAfter, link, transferred, buf, cur, pc>>
    BY <1>1 DEF Finish
  <2>6. status = "overflow" => Queued = {First} /\ First = num
    BY <1>1, <2>1
  <2>7. n \in Nat /\ First \in 1..num /\ last \in 1..num
    BY <1>1, <2>1, <2>3, SizeIs
  <2>8. Returns(First, status, n, last)
    <3> HIDE DEF last
    <3> QED
      BY <1>1, <2>1, <2>3, <2>4, <2>5, <2>6 DEF Returns
  <2> QED
    BY <2>1, <2>7, <2>8
<1>2. Queued # {} => First \in Queued /\ First \in 1..num /\ Size(First) \in Nat
  BY FirstLast, SizeIs
<1>3. CASE UrbDone
  <2>1. Size(First) \in 0..Size(First) /\ "ok" \in Statuses \ {"unlinked", "gone", "cancelled"}
    BY <1>2, <1>3 DEF UrbDone, Statuses
  <2> QED
    BY <1>1, <1>3, <2>1 DEF UrbDone
<1>4. CASE UrbShort
  <2>1. PICK n \in 0..Size(First) : n < Size(First) /\ Finish("short", n)
    BY <1>4 DEF UrbShort
  <2>2. "short" \in Statuses \ {"unlinked", "gone", "cancelled"}
    BY DEF Statuses
  <2> QED
    BY <1>1, <1>4, <2>1, <2>2 DEF UrbShort
<1>5. CASE UrbFails
  <2>1. PICK status \in Errors, n \in Part(First) : Finish(status, n)
    BY <1>5 DEF UrbFails
  <2>2. /\ status \in Statuses \ {"unlinked", "gone", "cancelled"}
        /\ status \notin {"overflow", "ok", "short"}
    BY DEF Errors, Statuses
  <2>3. /\ n \in 0..Size(First) /\ (kind = "iso" => n = Size(First))
        /\ kind # "iso" /\ n > 0 => Flows
    BY <1>2, <1>5, PartIs DEF UrbFails
  <2> QED
    BY <1>1, <1>5, <2>1, <2>2, <2>3 DEF UrbFails
<1>6. CASE UrbOverflows
  <2>1. alive /\ Queued = {num} /\ Flows /\ kind # "iso" /\ Finish("overflow", Size(num))
    BY <1>6 DEF UrbOverflows
  <2>2. First = num
    BY <1>2, <2>1
  <2>3. /\ "overflow" \in Statuses \ {"unlinked", "gone", "cancelled"}
        /\ Size(num) \in 0..Size(First)
    BY <1>2, <2>1, <2>2 DEF Statuses
  <2> QED
    BY <1>1, <2>1, <2>2, <2>3
<1>7. CASE Shutdown
  <2>1. PICK i \in Queued : \E n \in Part(i) : Complete(i, "gone", n, i)
    BY <1>7 DEF Shutdown
  <2>0. PICK n \in Part(i) : Complete(i, "gone", n, i)
    BY <2>1
  <2>2. /\ n \in 0..Size(i) /\ (kind = "iso" => n = Size(i))
        /\ kind # "iso" /\ n > 0 => Flows /\ \A j \in Queued : i <= j
    BY PartIs
  <2>3. i \in 1..num /\ i..i = {i} /\ Size(i) \in Nat
    BY SizeIs DEF Queued, DoneInv
  <2>4. UNCHANGED <<job, priv, alive, reapAfter, link, transferred, buf, cur, pc>> /\ ~alive
    BY <1>7 DEF Shutdown
  <2>5. "gone" \in Statuses \ {"unlinked"} /\ n \in Nat
    BY <2>2, <2>3 DEF Statuses
  <2>6. Returns(i, "gone", n, i)
    BY <2>0, <2>2, <2>3, <2>4, <2>5 DEF Returns
  <2> QED
    BY <2>3, <2>4, <2>5, <2>6
<1> QED
  BY <1>3, <1>4, <1>5, <1>6, <1>7

LEMMA DiscardReturns ==
  ASSUME JobInv, DoneInv, OrderInv, PlacesInv, num \in Nat, NEW t \in Threads, DiscardUrb(t)
  PROVE  /\ walk[t].k \in 1..num
         /\ \/ UNCHANGED <<urbs, done, sent>> /\ (alive => urbs[walk[t].k].st # "queued")
            \/ \E n \in Nat : Returns(walk[t].k, "cancelled", n, walk[t].k)
         /\ UNCHANGED <<job, priv, alive, reapAfter, link, transferred, buf, cur, pc>>
<1> USE DEF job, priv, flags, data, threads
<1> DEFINE i == walk[t].k
<1>1. i \in 1..num /\ pc[t] = "discard"
  <2>1. pc[t] = "discard" /\ walk[t].k >= walk[t].lo /\ walk[t].lo \in Nat \ {0} /\ walk[t].k \in Nat
    BY WalkIs DEF DiscardUrb, Walking, At
  <2>2. walk[t].k \in 0..num
    BY <2>1 DEF OrderInv, RowInv, WalkInv
  <2> QED
    BY <2>1, <2>2
<1>2. UNCHANGED <<job, priv, alive, reapAfter, link, transferred, buf, cur, pc>>
  BY DEF DiscardUrb
<1>3. CASE UNCHANGED <<urbs, done, sent>> /\ (alive => urbs[i].st # "queued")
  BY <1>1, <1>2, <1>3
<1>4. ASSUME alive, urbs[i].st = "queued", NEW n \in Part(i), Complete(i, "cancelled", n, i)
      PROVE  n \in Nat /\ Returns(i, "cancelled", n, i)
  <2> HIDE DEF i
  <2>1. i \in Queued
    BY <1>1, <1>4 DEF Queued, DoneInv
  <2>2. /\ n \in 0..Size(i) /\ Size(i) \in Nat
        /\ kind = "iso" => n = Size(i)
        /\ kind # "iso" /\ n > 0 => Flows /\ \A j \in Queued : i <= j
    BY <1>1, <2>1, PartIs, SizeIs
  <2>3. \A j \in Queued : j <= i
    BY <1>1, <1>4 DEF OrderInv, RowInv, WalkInv, i
  <2>4. "cancelled" \in Statuses \ {"unlinked"} /\ i..i = {i}
    BY <1>1 DEF Statuses
  <2> QED
    BY <1>1, <1>2, <1>4, <2>1, <2>2, <2>3, <2>4 DEF Returns
<1> QED
  <2>1. \/ alive /\ urbs[i].st = "queued" /\ \E n \in Part(i) : Complete(i, "cancelled", n, i)
        \/ UNCHANGED <<urbs, done, sent>> /\ (alive => urbs[i].st # "queued")
    BY DEF DiscardUrb, Discarded
  <2> QED
    BY <1>1, <1>2, <1>3, <1>4, <2>1

LEMMA CellsIs ==
  ASSUME NEW i \in 1..num, JobInv, sent \in Nat, NEW n \in Nat
  PROVE  Cells(i, n) \in Seq(Nat) /\ Len(Cells(i, n)) = n
<1>1. Start(i) \in Nat
  BY SizeIs
<1>2. Cells(i, n) \in [1..n -> Nat]
  BY <1>1 DEF Cells
<1> QED
  BY <1>2

\* What that makes of the URBs and of the queue of those that are done.
Back(i, status, n, last) ==
  /\ i \in 1..num /\ last \in i..num
  /\ urbs' \in [1..num -> Urbs]
  /\ \A j \in i..last : urbs'[j].st = "done" /\ urbs[j].st = "queued"
  /\ \A j \in 1..num : j \notin i..last => urbs'[j] = urbs[j]
  /\ urbs'[i].status = status /\ urbs'[i].cells = Cells(i, n) /\ Len(urbs'[i].cells) = n
  /\ \A j \in (i + 1)..last :
       urbs'[j].status = "unlinked" /\ urbs'[j].cells = urbs[j].cells
  /\ Queued' = Queued \ (i..last)
  /\ done' \in Seq(1..num) /\ Len(done') = Len(done) + (last - i + 1)
  /\ \A k \in 1..Len(done) : done'[k] = done[k]
  /\ \A k \in (Len(done) + 1)..Len(done') : done'[k] = i + (k - Len(done)) - 1
  /\ sent' = IF kind = "iso" THEN sent ELSE sent + n

LEMMA ReturnsIs ==
  ASSUME JobInv, DoneInv, num \in Nat, sent \in Nat, NEW i, NEW last, NEW status, NEW n \in Nat,
         Returns(i, status, n, last)
  PROVE  Back(i, status, n, last)
<1>1. i \in 1..num /\ last \in i..num /\ i..last \subseteq Queued /\ status \in Statuses
  BY DEF Returns, Queued, DoneInv
<1>2. urbs \in [1..num -> Urbs] /\ done \in Seq(1..num)
  BY DEF DoneInv
<1>3. Cells(i, n) \in Seq(Nat) /\ Len(Cells(i, n)) = n
  BY <1>1, CellsIs
<1>4. urbs' = [j \in 1..num |->
        IF j = i THEN [st |-> "done", status |-> status, cells |-> Cells(i, n)]
        ELSE IF j \in (i + 1)..last THEN [urbs[j] EXCEPT !.st = "done", !.status = "unlinked"]
        ELSE urbs[j]]
  BY <1>2 DEF Returns, Complete
<1>5. [st |-> "done", status |-> status, cells |-> Cells(i, n)] \in Urbs
  BY <1>1, <1>3 DEF Urbs
<1>6. ASSUME NEW u \in Urbs
      PROVE  /\ [u EXCEPT !.st = "done", !.status = "unlinked"] \in Urbs
             /\ [u EXCEPT !.st = "done", !.status = "unlinked"].st = "done"
             /\ [u EXCEPT !.st = "done", !.status = "unlinked"].status = "unlinked"
             /\ [u EXCEPT !.st = "done", !.status = "unlinked"].cells = u.cells
  BY DEF Urbs, Statuses
<1>7. urbs' \in [1..num -> Urbs]
  <2>1. ASSUME NEW j \in 1..num PROVE urbs'[j] \in Urbs
    <3>1. urbs[j] \in Urbs
      BY <1>2
    <3>2. CASE j = i
      BY <1>4, <1>5, <3>2
    <3>3. CASE j # i /\ j \in (i + 1)..last
      BY <1>4, <1>6, <3>1, <3>3
    <3>4. CASE j # i /\ j \notin (i + 1)..last
      BY <1>4, <3>1, <3>4
    <3> QED
      BY <3>2, <3>3, <3>4
  <2> QED
    BY <1>4, <2>1
<1>8. \A j \in i..last : urbs'[j].st = "done" /\ urbs[j].st = "queued"
  <2>1. \A j \in i..last : urbs[j].st = "queued" /\ j \in 1..num /\ (j = i \/ j \in (i + 1)..last)
    BY <1>1 DEF Queued
  <2> QED
    BY <1>2, <1>4, <1>6, <2>1
<1>9. ASSUME NEW j \in 1..num, j \notin i..last PROVE urbs'[j] = urbs[j]
  <2>1. j # i /\ j \notin (i + 1)..last
    BY <1>1, <1>9
  <2> QED
    BY <1>4, <2>1
<1>10. urbs'[i].status = status /\ urbs'[i].cells = Cells(i, n)
  BY <1>1, <1>4
<1>11. \A j \in (i + 1)..last : urbs'[j].status = "unlinked" /\ urbs'[j].cells = urbs[j].cells
  <2>1. \A j \in (i + 1)..last : j \in 1..num /\ j # i
    BY <1>1
  <2> QED
    BY <1>2, <1>4, <1>6, <2>1
<1>12. Queued' = Queued \ (i..last)
  BY <1>2, <1>7, <1>8, <1>9 DEF Queued
<1>13. DEFINE m == last - i + 1
<1>14. DEFINE f == [k \in 1..m |-> i + k - 1]
<1>15. m \in Nat /\ f \in Seq(1..num) /\ Len(f) = m /\ \A k \in 1..m : f[k] = i + k - 1
  <2>1. m \in Nat
    BY <1>1
  <2>2. f \in [1..m -> 1..num]
    BY <1>1, <2>1
  <2> QED
    BY <2>1, <2>2
<1>16. done' = done \o f
  BY DEF Returns, Complete
<1>17. /\ done' \in Seq(1..num) /\ Len(done') = Len(done) + m
       /\ \A k \in 1..(Len(done) + m) : done'[k] = IF k <= Len(done) THEN done[k] ELSE f[k - Len(done)]
  <2> HIDE DEF f, m
  <2> QED
    BY <1>2, <1>15, <1>16, ConcatProperties
<1>18. /\ \A k \in 1..Len(done) : done'[k] = done[k]
       /\ \A k \in (Len(done) + 1)..Len(done') : done'[k] = i + (k - Len(done)) - 1
  <2>1. Len(done) \in Nat
    BY <1>2
  <2> HIDE DEF f, m
  <2> QED
    BY <1>15, <1>17, <2>1
<1>19. sent' = IF kind = "iso" THEN sent ELSE sent + n
  <2>1. sent' = sent + (IF kind = "iso" THEN 0 ELSE n)
    BY DEF Returns, Complete
  <2> QED
    BY <2>1
<1> QED
  BY <1>1, <1>3, <1>7, <1>8, <1>9, <1>10, <1>11, <1>12, <1>17, <1>18, <1>19 DEF Back

\* What comes back joins the end of the queue of those that are done; nothing
\* else that the invariant speaks of changes.
LEMMA ReturnsKeep ==
  ASSUME JobInv, DoneInv, RowInv, CountInv, OverflowInv, num \in Nat, sent \in Nat,
         NEW i, NEW last, NEW status, NEW n \in Nat, Returns(i, status, n, last)
  PROVE  /\ DoneInv' /\ RowInv' /\ OverflowInv' /\ CountInv'
         /\ Queued' \subseteq Queued \ {i}
         /\ \A j \in 1..num : /\ urbs'[j].st = "none" => urbs[j].st = "none"
                              /\ urbs[j].st = "none" => urbs'[j].st = "none"
<1> USE DEF job, priv
<1>0. Back(i, status, n, last)
  BY ReturnsIs
<1>1. /\ i \in 1..num /\ last \in i..num
      /\ urbs' \in [1..num -> Urbs]
      /\ \A j \in i..last : urbs'[j].st = "done" /\ urbs[j].st = "queued"
      /\ \A j \in 1..num : j \notin i..last => urbs'[j] = urbs[j]
      /\ urbs'[i].status = status
      /\ \A j \in (i + 1)..last : urbs'[j].status = "unlinked"
      /\ Queued' = Queued \ (i..last)
      /\ done' \in Seq(1..num) /\ Len(done') = Len(done) + (last - i + 1)
      /\ \A k \in 1..Len(done) : done'[k] = done[k]
      /\ \A k \in (Len(done) + 1)..Len(done') : done'[k] = i + (k - Len(done)) - 1
  BY <1>0 DEF Back
<1>2. /\ urbs \in [1..num -> Urbs] /\ done \in Seq(1..num) /\ Len(done) \in Nat
      /\ \A k \in 1..Len(done) : done[k] \in 1..num /\ urbs[done[k]].st = "done"
  BY DEF DoneInv
<1>3. /\ i \in Queued /\ i..last \subseteq Queued /\ status # "unlinked"
      /\ last > i => kind = "bulk"
      /\ status = "overflow" => Queued = {i} /\ i = num
      /\ alive => (\A j \in Queued : i <= j) \/ (last = i /\ \A j \in Queued : j <= i)
      /\ UNCHANGED <<kind, mode, length, num, has, retired, alive, link, cur, pc>>
  BY DEF Returns
<1>4. \A j \in 1..num : \/ j \in i..last
                        \/ j \notin i..last /\ urbs'[j] = urbs[j]
  BY <1>1
<1>5. /\ \A j \in 1..num : /\ urbs'[j].st = "none" => urbs[j].st = "none"
                           /\ urbs[j].st = "none" => urbs'[j].st = "none"
      /\ \A j \in 1..num : /\ urbs'[j].st = "reaped" => urbs[j].st = "reaped"
                           /\ urbs[j].st = "reaped" => urbs'[j].st = "reaped"
  BY <1>1, <1>4
<1>6. ASSUME NEW k \in 1..Len(done')
      PROVE  \/ k \in 1..Len(done) /\ done'[k] = done[k]
             \/ /\ k \in (Len(done) + 1)..Len(done')
                /\ done'[k] = i + (k - Len(done)) - 1 /\ done'[k] \in i..last
  <2>1. Len(done) \in Nat /\ Len(done') = Len(done) + (last - i + 1) /\ i \in Nat /\ last \in Nat
    BY <1>1, <1>2
  <2>2. CASE k <= Len(done)
    <3>1. k \in 1..Len(done)
      BY <2>1, <2>2
    <3> QED
      BY <1>1, <3>1
  <2>3. CASE ~(k <= Len(done))
    <3>1. k \in (Len(done) + 1)..Len(done')
      BY <2>1, <2>3
    <3>2. done'[k] = i + (k - Len(done)) - 1
      BY <1>1, <3>1
    <3>3. i + (k - Len(done)) - 1 \in i..last
      BY <2>1, <2>3
    <3> QED
      BY <3>1, <3>2, <3>3
  <2> QED
    BY <2>2, <2>3
<1>7. DoneInv'
  <2>1. \A k \in 1..Len(done') : urbs'[done'[k]].st = "done"
    <3>1. ASSUME NEW k \in 1..Len(done) PROVE urbs'[done[k]].st = "done"
      BY <1>1, <1>2
    <3>2. ASSUME NEW k \in 1..Len(done') PROVE urbs'[done'[k]].st = "done"
      <4>1. CASE k \in 1..Len(done) /\ done'[k] = done[k]
        BY <3>1, <4>1
      <4>2. CASE done'[k] \in i..last
        BY <1>1, <4>2
      <4> QED
        BY <1>6, <4>1, <4>2
    <3> QED
      BY <3>2
  <2>2. ASSUME NEW j \in 1..Len(done'), NEW k \in 1..Len(done'), done'[j] = done'[k]
        PROVE  j = k
    <3>1. \A l \in 1..Len(done) : done[l] \notin i..last
      BY <1>1, <1>2
    <3>2. CASE j \in 1..Len(done) /\ k \in 1..Len(done)
      BY <1>1, <2>2, <3>2 DEF DoneInv
    <3>3. CASE j \notin 1..Len(done) /\ k \notin 1..Len(done)
      <4>1. i + (j - Len(done)) - 1 = i + (k - Len(done)) - 1
        BY <1>6, <2>2, <3>3
      <4> QED
        BY <1>1, <1>2, <4>1
    <3> QED
      BY <1>6, <2>2, <3>1, <3>2, <3>3
  <2>3. cur' # 0 => urbs'[cur'].st = "reaped"
    BY <1>3, <1>5 DEF DoneInv
  <2>4. has /\ link = "watched"
    BY <1>3 DEF DoneInv
  <2>5. kind # "bulk" => \A j \in 1..num : urbs'[j].status # "unlinked"
    <3> SUFFICES ASSUME kind # "bulk", NEW j \in 1..num PROVE urbs'[j].status # "unlinked"
      OBVIOUS
    <3>1. last = i
      BY <1>1, <1>3
    <3>2. CASE j = i
      BY <1>1, <1>3, <3>2
    <3>3. CASE j # i
      <4>1. urbs'[j] = urbs[j]
        BY <1>1, <3>1, <3>3
      <4> QED
        BY <4>1 DEF DoneInv
    <3> QED
      BY <3>2, <3>3
  <2> QED
    BY <1>1, <1>3, <2>1, <2>2, <2>3, <2>4, <2>5 DEF DoneInv
<1>8. RowInv'
  <2>1. \A j, k \in 1..num : j < k /\ urbs'[j].st = "none" => urbs'[k].st = "none"
    BY <1>5 DEF RowInv
  <2>2. ASSUME alive, NEW j \in Queued', NEW k \in Queued', NEW l \in j..k PROVE l \in Queued'
    <3>1. j \in Queued /\ k \in Queued /\ j \notin i..last /\ k \notin i..last /\ l \in Queued
      BY <1>1, <2>2 DEF RowInv
    <3>2. j \in 1..num /\ k \in 1..num
      BY <1>2, <3>1 DEF Queued
    <3>3. l \notin i..last
      <4>1. CASE \A q \in Queued : i <= q
        BY <1>1, <3>1, <3>2, <4>1
      <4>2. CASE last = i /\ \A q \in Queued : q <= i
        BY <1>1, <3>1, <3>2, <4>2
      <4> QED
        BY <1>3, <2>2, <4>1, <4>2
    <3> QED
      BY <1>1, <3>1, <3>3
  <2> QED
    BY <1>3, <2>1, <2>2 DEF RowInv
<1>9. CountInv'
  <2>1. Handled' = Handled
    BY <1>3, <1>5 DEF Handled
  <2>2. Unsent' = Unsent
    BY <1>3, <1>5 DEF Unsent
  <2> QED
    BY <1>3, <2>1, <2>2 DEF CountInv
<1>10. OverflowInv'
  <2> SUFFICES ASSUME NEW j \in 1..num, urbs'[j].status = "overflow"
               PROVE  /\ Queued' = {} /\ \A k \in 1..num : urbs'[k].st # "none"
                      /\ j = cur => done' = <<>>
                      /\ \A k \in 1..Len(done') : done'[k] = j => k = Len(done')
    BY <1>3 DEF OverflowInv
  <2>1. j \in i..last
    <3> SUFFICES ASSUME j \notin i..last PROVE FALSE
      OBVIOUS
    <3>1. urbs[j].status = "overflow"
      BY <1>1
    <3> QED
      BY <1>3, <3>1 DEF OverflowInv
  <2>2. j = i /\ status = "overflow"
    BY <1>1, <2>1
  <2>3. Queued = {i} /\ i = num /\ last = i
    BY <1>1, <1>3, <2>2
  <2>4. Queued' = {}
    BY <1>1, <2>3
  <2>5. \A k \in 1..num : urbs'[k].st # "none"
    <3>1. urbs[num].st = "queued"
      BY <2>3 DEF Queued
    <3>2. \A k \in 1..num : k = num \/ k < num
      BY <1>1
    <3> QED
      BY <1>1, <1>5, <2>3, <3>1, <3>2 DEF RowInv
  <2>6. j # cur
    <3>1. urbs[j].st = "queued"
      BY <2>2, <2>3 DEF Queued
    <3> QED
      BY <1>1, <3>1 DEF DoneInv
  <2>7. Len(done') = Len(done) + 1
    BY <1>1, <2>3
  <2>8. ASSUME NEW k \in 1..Len(done'), done'[k] = j PROVE k = Len(done')
    <3>1. k \notin 1..Len(done)
      BY <1>1, <1>2, <1>3, <2>1, <2>8 DEF Queued
    <3> QED
      BY <1>2, <2>7, <3>1
  <2> QED
    BY <2>4, <2>5, <2>6, <2>8
<1>11. Queued' \subseteq Queued \ {i}
  BY <1>1
<1> QED
  BY <1>5, <1>7, <1>8, <1>9, <1>10, <1>11

-----------------------------------------------------------------------------
(* What the actions do to the URBs. *)

Ground == Types /\ ControlInv /\ sent \in Nat

\* Steps that leave the URBs alone.
LEMMA QuietKeeps ==
  ASSUME UrbInv, num \in Nat,
         UNCHANGED <<kind, mode, length, num, has, retired, urbs, done, cur>>,
         alive' => alive, link' # "watched" => link # "watched",
         pc'["event"] = "handle" => pc["event"] = "handle",
         pc["event"] = "handle" => pc'["event"] = "handle",
         pc'["app"] = "submit" => pc["app"] = "submit" /\ walk'["app"].k = walk["app"].k,
         pc["app"] = "submit" => pc'["app"] = "submit",
         \A t \in Threads : pc'[t] = "discard" =>
           \/ pc[t] = "discard" /\ walk'[t].k = walk[t].k
           \/ walk'[t].k = num
  PROVE  UrbInv'
<1>1. JobInv'
  BY DEF UrbInv, JobInv
<1>2. DoneInv'
  BY DEF UrbInv, DoneInv, Queued
<1>3. RowInv'
  BY DEF UrbInv, OrderInv, RowInv, Queued
<1>4. WalkInv'
  <2>1. Queued' = Queued /\ Queued \subseteq 1..num
    BY DEF UrbInv, DoneInv, Queued
  <2>2. pc'["app"] = "submit" =>
          /\ Submitting' \in 1..num'
          /\ \A i \in 1..num' : (urbs'[i].st = "none" => i >= Submitting')
                                /\ (i >= Submitting' => urbs'[i].st = "none")
          /\ alive' => \A i \in Queued' : i..(Submitting' - 1) \subseteq Queued'
    BY <2>1 DEF UrbInv, OrderInv, WalkInv, Submitting
  <2>3. ASSUME NEW t \in Threads, pc'[t] = "discard"
        PROVE  walk'[t].k \in 0..num' /\ (alive' => \A i \in Queued' : i <= walk'[t].k)
    <3>1. CASE walk'[t].k = num
      BY <2>1, <3>1
    <3>2. CASE pc[t] = "discard" /\ walk'[t].k = walk[t].k
      BY <2>1, <3>2 DEF UrbInv, OrderInv, WalkInv
    <3> QED
      BY <2>3, <3>1, <3>2
  <2> QED
    BY <2>2, <2>3 DEF WalkInv
<1>5. CountInv'
  BY DEF UrbInv, CountInv, Handled, Unsent
<1>6. OverflowInv'
  BY DEF UrbInv, OverflowInv, Queued
<1> QED
  BY <1>1, <1>2, <1>3, <1>4, <1>5, <1>6 DEF UrbInv, OrderInv

Quiet ==
  \/ Submit \/ Unlist \/ Cancel \/ Why \/ Remove \/ Settle \/ Call \/ FindLost \/ Unplug
  \/ \E t \in Threads : Walked(t) \/ TimerFires(t) \/ Expire(t) \/ Mark(t)

LEMMA QuietSteps ==
  ASSUME Ground, UrbInv, Quiet
  PROVE  UrbInv'
<1> USE DEF At, Go, Threads, job, priv, kernel, flags, data, threads, ghosts
<1>1. /\ Types /\ PlacesInv /\ num \in Nat
      /\ pc \in [Threads -> AppPlaces \cup EventPlaces]
      /\ pc["app"] \in AppPlaces /\ pc["event"] \in EventPlaces
  BY DEF Ground, ControlInv, PlacesInv, Types
<1>2. CASE Submit
  BY <1>1, <1>2, QuietKeeps DEF Submit
<1>3. CASE Unlist
  BY <1>1, <1>3, QuietKeeps DEF Unlist
<1>4. CASE Why
  BY <1>1, <1>4, QuietKeeps DEF Why
<1>5. CASE Remove
  BY <1>1, <1>5, QuietKeeps DEF Remove
<1>6. CASE Settle
  BY <1>1, <1>6, QuietKeeps DEF Settle
<1>7. CASE Call
  BY <1>1, <1>7, QuietKeeps DEF Call
<1>8. CASE FindLost
  BY <1>1, <1>8, QuietKeeps DEF FindLost
<1>9. CASE Unplug
  BY <1>1, <1>9, QuietKeeps DEF Unplug
<1>10. ASSUME NEW t \in Threads, Walked(t) PROVE UrbInv'
  BY <1>1, <1>10, QuietKeeps DEF Walked, Accept
<1>11. ASSUME NEW t \in Threads, TimerFires(t) PROVE UrbInv'
  BY <1>1, <1>11, QuietKeeps DEF TimerFires, Rest
<1>12. ASSUME NEW t \in Threads, Mark(t) PROVE UrbInv'
  BY <1>1, <1>12, QuietKeeps DEF Mark, Rest
<1>13. ASSUME NEW t \in Threads, NEW why \in {"cancel", "timeout"}, NEW next \in {"idle", "mark"},
              pc[t] \in {"idle", "expire"}, BeginCancel(t, why, next)
       PROVE  UrbInv'
  <2>1. /\ walk' \in [Threads -> Walks] /\ \A u \in Threads : u # t => walk'[u] = walk[u]
        /\ UNCHANGED <<has, link, done, urbs, cur>>
        /\ \/ pc' = [pc EXCEPT ![t] = next]
           \/ pc' = [pc EXCEPT ![t] = "discard"] /\ walk'[t].k = num
    <3>1. Types /\ PlacesInv
      BY <1>1
    <3> QED
      BY <1>13, <3>1, BeginMoves
  <2>2. UNCHANGED <<kind, mode, length, num, retired, alive>>
    BY <1>13 DEF BeginCancel
  <2>3. CASE pc' = [pc EXCEPT ![t] = next]
    BY <1>1, <1>13, <2>1, <2>2, <2>3, QuietKeeps
  <2>4. CASE pc' = [pc EXCEPT ![t] = "discard"] /\ walk'[t].k = num
    BY <1>1, <1>13, <2>1, <2>2, <2>4, QuietKeeps
  <2> QED
    BY <2>1, <2>3, <2>4
<1>14. CASE Cancel
  BY <1>13, <1>14 DEF Cancel
<1>15. ASSUME NEW t \in Threads, Expire(t) PROVE UrbInv'
  BY <1>13, <1>15 DEF Expire
<1> QED
  BY <1>2, <1>3, <1>4, <1>5, <1>6, <1>7, <1>8, <1>9, <1>10, <1>11, <1>12, <1>14, <1>15 DEF Quiet

LEMMA CountIs ==
  ASSUME NEW k, NEW m, NEW n \in Nat
  PROVE  UrbCount(k, m, n) \in Nat \ {0}
<1>1. PerUrb(k, m, n) \in Nat \ {0}
  BY UsbTransferAssumption DEF PerUrb
<1> DEFINE p == PerUrb(k, m, n)
<1>2. CASE n = 0
  BY <1>2 DEF UrbCount
<1>3. CASE n # 0
  <2>1. n + p - 1 \in Nat /\ UrbCount(k, m, n) = (n + p - 1) \div p
    BY <1>1, <1>3 DEF UrbCount
  <2> DEFINE c == (n + p - 1) \div p
  <2>2. c \in Nat /\ c * p <= n + p - 1 /\ n + p - 1 < c * p + p
    BY <1>1, <2>1, Quotient
  <2>3. c # 0
    <3> SUFFICES ASSUME c = 0 PROVE FALSE
      OBVIOUS
    <3>1. c * p = 0 /\ p \in Nat
      BY <1>1
    <3> HIDE DEF c, p
    <3> QED
      BY <1>1, <1>3, <2>2, <3>1
  <2> QED
    BY <2>1, <2>2, <2>3
<1> QED
  BY <1>2, <1>3

LEMMA UrbSet ==
  ASSUME NEW u \in Urbs, NEW s \in {"none", "queued", "done", "reaped"}
  PROVE  /\ [u EXCEPT !.st = s] \in Urbs /\ [u EXCEPT !.st = s].st = s
         /\ [u EXCEPT !.st = s].status = u.status /\ [u EXCEPT !.st = s].cells = u.cells
BY DEF Urbs

LEMMA ListKeeps ==
  ASSUME Ground, UrbInv, List
  PROVE  UrbInv'
<1> USE DEF At, Go, ghosts
<1>1. ~has /\ done = <<>> /\ cur = 0 /\ pc["event"] # "handle"
  BY DEF List, Ground, ControlInv, PhaseInv, Submission, UrbInv, DoneInv
<1>2. /\ kind' \in Kinds /\ mode' \in Modes \cup {"whole"} /\ length' \in Lengths
      /\ num' = UrbCount(kind', mode', length')
  BY DEF List
<1>3. num' \in Nat \ {0}
  <2>1. length' \in Nat
    BY <1>2, UsbTransferAssumption
  <2> QED
    BY <1>2, <2>1, CountIs
<1>4. /\ urbs' = [i \in 1..num' |-> [st |-> "none", status |-> "ok", cells |-> <<>>]]
      /\ retired' = 0 /\ has' /\ UNCHANGED <<done, cur, link, alive>>
      /\ pc' = [pc EXCEPT !["app"] = "submit"]
      /\ walk' = [walk EXCEPT !["app"] = [NoWalk EXCEPT !.k = 1]]
  BY DEF List
<1>5. pc'["app"] = "submit" /\ pc'["event"] = pc["event"] /\ walk'["app"].k = 1
  BY <1>4 DEF Ground, ControlInv, PlacesInv, NoWalk, Threads
<1>6. urbs' \in [1..num' -> Urbs] /\ \A i \in 1..num' : urbs'[i].st = "none"
  BY <1>4 DEF Urbs, Statuses
<1>7. Queued' = {}
  BY <1>6 DEF Queued
<1>8. JobInv'
  BY <1>2 DEF JobInv
<1>9. DoneInv'
  <2>1. \A i \in 1..num' : urbs'[i].status # "unlinked"
    BY <1>4
  <2>2. <<>> \in Seq(1..num') /\ Len(<<>>) = 0
    OBVIOUS
  <2> QED
    BY <1>1, <1>3, <1>4, <1>5, <1>6, <1>7, <2>1, <2>2 DEF DoneInv, UrbInv
<1>10. RowInv'
  BY <1>6, <1>7 DEF RowInv
<1>11. WalkInv'
  <2>1. ASSUME NEW t \in Threads, pc'[t] = "discard" PROVE FALSE
    <3>1. t = "event" /\ pc["event"] = "discard"
      BY <1>5, <2>1 DEF Threads
    <3> QED
      BY <3>1, LocksAre DEF List, Ground, ControlInv
  <2> QED
    BY <1>3, <1>5, <1>6, <1>7, <2>1 DEF WalkInv, Submitting
<1>12. CountInv'
  <2>1. Handled' = {} /\ Unsent' = {}
    BY <1>5, <1>6 DEF Handled, Unsent
  <2>2. Cardinality(Handled' \cup Unsent') = 0
    BY <2>1, FS_EmptySet
  <2> QED
    BY <1>3, <1>4, <2>2 DEF CountInv
<1>13. OverflowInv'
  BY <1>4 DEF OverflowInv
<1> QED
  BY <1>8, <1>9, <1>10, <1>11, <1>12, <1>13 DEF UrbInv, OrderInv

\* What is true while the URBs are submitted.
LEMMA SubmittingIs ==
  ASSUME Ground, UrbInv, pc["app"] = "submit"
  PROVE  /\ has /\ xlock = "app" /\ pc["event"] # "discard"
         /\ Submitting \in 1..num /\ num \in Nat
         /\ \A i \in 1..num : (urbs[i].st = "none" => i >= Submitting)
                              /\ (i >= Submitting => urbs[i].st = "none")
         /\ \A i \in 1..num : urbs[i].status # "overflow"
         /\ walk \in [Threads -> Walks] /\ pc \in [Threads -> AppPlaces \cup EventPlaces]
<1>1. has /\ xlock = "app" /\ pc["event"] # "discard"
  BY LocksAre DEF Ground, ControlInv, PhaseInv, Submission
<1>2. /\ Submitting \in 1..num /\ num \in Nat
      /\ \A i \in 1..num : (urbs[i].st = "none" => i >= Submitting)
                           /\ (i >= Submitting => urbs[i].st = "none")
  BY DEF UrbInv, OrderInv, WalkInv, Ground, Types
<1>3. urbs[Submitting].st = "none"
  BY <1>2
<1>4. \A i \in 1..num : urbs[i].status # "overflow"
  BY <1>2, <1>3 DEF UrbInv, OverflowInv
<1> QED
  BY <1>1, <1>2, <1>4 DEF Ground, ControlInv, PlacesInv

LEMMA SubmitUrbKeeps ==
  ASSUME Ground, UrbInv, SubmitUrb
  PROVE  UrbInv'
<1> USE DEF job, priv, flags, data
<1> DEFINE k == Submitting
<1>1. /\ has /\ xlock = "app" /\ pc["event"] # "discard"
      /\ k \in 1..num /\ num \in Nat
      /\ \A i \in 1..num : (urbs[i].st = "none" => i >= k) /\ (i >= k => urbs[i].st = "none")
      /\ \A i \in 1..num : urbs[i].status # "overflow"
      /\ walk \in [Threads -> Walks] /\ pc \in [Threads -> AppPlaces \cup EventPlaces]
      /\ pc["app"] = "submit"
  BY SubmittingIs DEF SubmitUrb, At
<1>2. /\ alive /\ UNCHANGED <<kind, mode, length, num, has, retired, done, cur, link, alive>>
      /\ urbs' = [urbs EXCEPT ![k].st = "queued"]
      /\ walk' = [walk EXCEPT !["app"].k = @ + 1]
      /\ (IF k = num THEN pc' = [pc EXCEPT !["app"] = "idle"] ELSE pc' = pc)
  BY DEF SubmitUrb, Go
<1>3. link = "watched" /\ urbs \in [1..num -> Urbs]
  BY <1>2 DEF UrbInv, DoneInv
<1>4. urbs[k].st = "none" /\ urbs[k] \in Urbs
  BY <1>1, <1>3
<1>5. /\ urbs' = [urbs EXCEPT ![k] = [urbs[k] EXCEPT !.st = "queued"]]
      /\ [urbs[k] EXCEPT !.st = "queued"] \in Urbs
      /\ [urbs[k] EXCEPT !.st = "queued"].st = "queued"
      /\ [urbs[k] EXCEPT !.st = "queued"].status = urbs[k].status
  <2>1. urbs' = [urbs EXCEPT ![k] = [urbs[k] EXCEPT !.st = "queued"]]
    BY <1>1, <1>2, <1>3
  <2> QED
    BY <1>4, <2>1, UrbSet
<1>6. /\ urbs' \in [1..num -> Urbs] /\ urbs'[k].st = "queued" /\ urbs'[k].status = urbs[k].status
      /\ \A i \in 1..num : i # k => urbs'[i] = urbs[i]
  BY <1>1, <1>3, <1>5
<1>7. Queued' = Queued \cup {k} /\ \A i \in Queued : i < k
  <2>1. \A i \in Queued : i \in 1..num /\ i < k
    BY <1>1, <1>3 DEF Queued
  <2> QED
    BY <1>1, <1>3, <1>6, <2>1 DEF Queued
<1>8. pc'["event"] = pc["event"] /\ pc'["app"] = (IF k = num THEN "idle" ELSE "submit")
  BY <1>1, <1>2 DEF Threads
<1>9. walk'["app"].k = k + 1
  BY <1>1, <1>2 DEF Threads, Walks, Submitting
<1> HIDE DEF k
<1>10. JobInv'
  BY <1>2 DEF UrbInv, JobInv
<1>11. DoneInv'
  <2>0. \A j \in 1..Len(done) : done[j] \in 1..num /\ urbs[done[j]].st = "done"
    <3>1. DoneInv
      BY DEF UrbInv
    <3> QED
      BY <1>1, <3>1 DEF DoneInv
  <2>1. \A j \in 1..Len(done) : done[j] # k
    BY <1>4, <2>0
  <2>2. \A j \in 1..Len(done) : urbs'[done[j]].st = "done"
    BY <1>6, <2>0, <2>1
  <2>3. cur # 0 => cur # k /\ urbs'[cur].st = "reaped"
    BY <1>4, <1>6 DEF UrbInv, DoneInv
  <2>4. kind # "bulk" => \A i \in 1..num : urbs'[i].status # "unlinked"
    BY <1>1, <1>6 DEF UrbInv, DoneInv
  <2> QED
    BY <1>1, <1>2, <1>3, <1>6, <1>8, <2>2, <2>3, <2>4 DEF UrbInv, DoneInv
<1>12. \A i \in Queued : i..(k - 1) \subseteq Queued
  BY <1>1, <1>2 DEF UrbInv, OrderInv, WalkInv, k
<1>13. \A i \in Queued' : i..k \subseteq Queued'
  <2> SUFFICES ASSUME NEW i \in Queued', NEW j \in i..k PROVE j \in Queued'
    OBVIOUS
  <2>1. i \in 1..num
    BY <1>1, <1>6 DEF Queued, UrbInv, DoneInv
  <2>2. CASE j = k
    BY <1>7, <2>2
  <2>3. CASE j # k
    <3>1. i # k /\ j \in i..(k - 1)
      BY <1>1, <2>1, <2>3
    <3> QED
      BY <1>7, <1>12, <3>1
  <2> QED
    BY <2>2, <2>3
<1>14. RowInv'
  <2>1. \A i, j \in 1..num : i < j /\ urbs'[i].st = "none" => urbs'[j].st = "none"
    BY <1>1, <1>6
  <2>2. ASSUME NEW i \in Queued', NEW j \in Queued' PROVE i..j \subseteq Queued'
    <3>1. j <= k /\ i \in 1..num /\ j \in 1..num
      BY <1>1, <1>6, <1>7 DEF Queued, UrbInv, DoneInv
    <3>2. i..j \subseteq i..k
      BY <1>1, <3>1
    <3> QED
      BY <1>13, <3>2
  <2> QED
    BY <1>2, <2>1, <2>2 DEF RowInv
<1>15. WalkInv'
  <2>1. ASSUME NEW t \in Threads PROVE pc'[t] # "discard"
    BY <1>1, <1>8 DEF Threads
  <2>2. CASE k = num
    BY <1>8, <2>1, <2>2 DEF WalkInv
  <2>3. CASE k # num
    <3>1. Submitting' = k + 1 /\ k + 1 \in 1..num /\ (k + 1) - 1 = k
      BY <1>1, <1>9, <2>3 DEF Submitting
    <3>2. \A i \in 1..num : (urbs'[i].st = "none" => i >= k + 1)
                            /\ (i >= k + 1 => urbs'[i].st = "none")
      BY <1>1, <1>6
    <3> QED
      BY <1>2, <1>13, <2>1, <3>1, <3>2 DEF WalkInv
  <2> QED
    BY <2>2, <2>3
<1>16. CountInv'
  <2>1. Handled' = Handled
    BY <1>2, <1>4, <1>6 DEF Handled
  <2>2. Unsent' = Unsent
    <3>1. Unsent = {}
      BY <1>1 DEF Unsent
    <3>2. k = num => \A i \in 1..num : urbs'[i].st # "none"
      BY <1>1, <1>6
    <3> QED
      BY <1>2, <1>8, <3>1, <3>2 DEF Unsent
  <2> QED
    BY <1>2, <2>1, <2>2 DEF UrbInv, CountInv
<1>17. OverflowInv'
  BY <1>1, <1>2, <1>6 DEF OverflowInv
<1> QED
  BY <1>10, <1>11, <1>14, <1>15, <1>16, <1>17 DEF UrbInv, OrderInv

LEMMA HandledFinite ==
  ASSUME num \in Nat
  PROVE  /\ IsFiniteSet(1..num) /\ Cardinality(1..num) = num
         /\ Handled \subseteq 1..num /\ IsFiniteSet(Handled) /\ Cardinality(Handled) \in 0..num
         /\ Unsent \subseteq 1..num /\ IsFiniteSet(Handled \cup Unsent)
<1>1. IsFiniteSet(1..num) /\ Cardinality(1..num) = num
  BY FS_Interval
<1>2. Handled \in SUBSET (1..num) /\ Unsent \in SUBSET (1..num)
      /\ Handled \cup Unsent \in SUBSET (1..num)
  BY DEF Handled, Unsent
<1>3. IsFiniteSet(Handled) /\ Cardinality(Handled) <= num /\ IsFiniteSet(Handled \cup Unsent)
  BY <1>1, <1>2, FS_Subset
<1> QED
  BY <1>1, <1>2, <1>3, FS_CardinalityType

\* The URBs from here on will not be submitted: they count as retired.
LEMMA RestUnsent ==
  ASSUME Ground, UrbInv, pc["app"] = "submit"
  PROVE  LET k == Submitting
             rest == {i \in 1..num : urbs[i].st = "none"}
         IN  /\ retired + num + 1 - k \in 0..num
             /\ retired + num + 1 - k = Cardinality(Handled \cup rest)
<1> DEFINE k == Submitting
           rest == {i \in 1..num : urbs[i].st = "none"}
<1>1. /\ has /\ k \in 1..num /\ num \in Nat
      /\ \A i \in 1..num : (urbs[i].st = "none" => i >= k) /\ (i >= k => urbs[i].st = "none")
  BY SubmittingIs
<1>2. rest = k..num
  BY <1>1
<1>3. retired = Cardinality(Handled)
  <2>1. Handled \cup Unsent = Handled
    BY DEF Unsent
  <2> QED
    BY <1>1, <2>1 DEF UrbInv, CountInv
<1>4. IsFiniteSet(rest) /\ Cardinality(rest) = num - k + 1
  <2> HIDE DEF k, rest
  <2>1. k \in Int /\ num \in Int /\ ~(k > num)
    BY <1>1
  <2>2. IsFiniteSet(k..num) /\ Cardinality(k..num) = num - k + 1
    BY <2>1, FS_Interval
  <2> QED
    BY <1>2, <2>2
<1>5. Handled \cap rest = {}
  BY DEF Handled
<1>6. IsFiniteSet(Handled) /\ Cardinality(Handled) \in 0..num
  BY <1>1, HandledFinite
<1> HIDE DEF k, rest
<1>7. Cardinality(Handled \cup rest) = Cardinality(Handled) + Cardinality(rest)
  <2>1. Cardinality({}) = 0
    BY FS_EmptySet
  <2>2. Cardinality(Handled \cup rest) =
          Cardinality(Handled) + Cardinality(rest) - Cardinality(Handled \cap rest)
    BY <1>4, <1>6, FS_Union
  <2>3. Cardinality(Handled \cap rest) = 0
    BY <1>5, <2>1
  <2>4. Cardinality(Handled) \in Nat /\ Cardinality(rest) \in Nat
    BY <1>1, <1>4, <1>6
  <2> QED
    BY <2>2, <2>3, <2>4
<1>8. Cardinality(Handled \cup rest) <= num
  <2>1. Handled \cup rest \in SUBSET (1..num)
    BY DEF Handled, rest
  <2>2. IsFiniteSet(1..num) /\ Cardinality(1..num) = num
    BY <1>1, HandledFinite
  <2> QED
    BY <2>1, <2>2, FS_Subset
<1>9. retired + num + 1 - k \in 0..num /\ retired + num + 1 - k = Cardinality(Handled \cup rest)
  BY <1>1, <1>3, <1>4, <1>6, <1>7, <1>8
<1> QED
  BY <1>9 DEF k, rest

LEMMA SubmitEndKeeps ==
  ASSUME Ground, UrbInv, SubmitRefused \/ SubmitStops \/ SubmitEndsEarly
  PROVE  UrbInv'
<1> USE DEF job, priv, kernel, flags, data
<1> DEFINE k == Submitting
<1>1. /\ has /\ xlock = "app" /\ pc["event"] # "discard"
      /\ k \in 1..num /\ num \in Nat
      /\ \A i \in 1..num : (urbs[i].st = "none" => i >= k) /\ (i >= k => urbs[i].st = "none")
      /\ walk \in [Threads -> Walks] /\ pc \in [Threads -> AppPlaces \cup EventPlaces]
      /\ pc["app"] = "submit"
  BY SubmittingIs DEF SubmitRefused, SubmitStops, SubmitEndsEarly, At
<1>2. /\ UNCHANGED <<kind, mode, length, num, urbs, done, cur, link, alive>>
      /\ pc'["event"] = pc["event"] /\ pc'["app"] \in {"unlist", "discard", "idle"}
  BY <1>1 DEF SubmitRefused, SubmitStops, SubmitEndsEarly, Go, Threads
<1>3. Queued' = Queued /\ Handled' = Handled /\ Unsent' = {i \in 1..num : urbs[i].st = "none"}
  BY <1>2 DEF Queued, Handled, Unsent
<1>4. JobInv' /\ RowInv' /\ OverflowInv'
  BY <1>2, <1>3 DEF UrbInv, JobInv, OrderInv, RowInv, OverflowInv
<1>5. \A t \in Threads : pc'[t] = "discard" => t = "app" /\ walk'[t].k = k - 1
  <2>1. pc'["app"] = "discard" => SubmitStops
    BY <1>1 DEF SubmitRefused, SubmitStops, SubmitEndsEarly, Go, Threads
  <2>2. SubmitStops => walk'["app"].k = k - 1
    BY <1>1 DEF SubmitStops, Threads
  <2> QED
    BY <1>1, <1>2, <2>1, <2>2 DEF Threads
<1>6. Queued \subseteq 1..num /\ \A i \in Queued : i <= k - 1
  <2>1. \A i \in Queued : i \in 1..num /\ urbs[i].st # "none"
    BY DEF Queued, UrbInv, DoneInv
  <2> QED
    BY <1>1, <2>1
<1>7. WalkInv'
  BY <1>1, <1>2, <1>3, <1>5, <1>6 DEF WalkInv
<1>8. CASE SubmitRefused
  <2>1. k = 1 /\ ~has' /\ retired' = retired
    BY <1>8 DEF SubmitRefused
  <2>2. Queued = {}
    BY <1>1, <1>6, <2>1
  <2>3. done = <<>>
    <3>1. DoneInv
      BY DEF UrbInv
    <3>2. Len(done) \in Nat /\ \A j \in 1..Len(done) : done[j] \in 1..num /\ urbs[done[j]].st = "done"
      BY <1>1, <3>1 DEF DoneInv
    <3>3. \A j \in 1..num : urbs[j].st = "none"
      BY <1>1, <2>1
    <3>4. Len(done) = 0
      <4> SUFFICES ASSUME Len(done) # 0 PROVE FALSE
        OBVIOUS
      <4>1. 1 \in 1..Len(done)
        BY <3>2
      <4> QED
        BY <3>2, <3>3, <4>1
    <3> QED
      BY <3>1, <3>4, EmptySeq DEF DoneInv
  <2>4. DoneInv'
    BY <1>2, <1>3, <2>1, <2>2, <2>3 DEF UrbInv, DoneInv
  <2>5. CountInv'
    BY <1>2, <2>1 DEF UrbInv, CountInv
  <2> QED
    BY <1>4, <1>7, <2>4, <2>5 DEF UrbInv, OrderInv
<1>9. CASE SubmitStops \/ SubmitEndsEarly
  <2>1. has' = has /\ retired' = retired + num + 1 - k
    BY <1>9 DEF SubmitStops, SubmitEndsEarly, Unsubmitted
  <2>2. DoneInv'
    BY <1>2, <1>3, <2>1 DEF UrbInv, DoneInv
  <2>3. CountInv'
    BY <1>1, <1>2, <1>3, <2>1, RestUnsent DEF CountInv
  <2> QED
    BY <1>4, <1>7, <2>2, <2>3 DEF UrbInv, OrderInv
<1> QED
  BY <1>8, <1>9

\* The end of the descriptor: what is left of the queue is dropped, and what
\* is left of the transfer is freed.
LEMMA LostKeeps ==
  ASSUME Ground, UrbInv, Hangup \/ ClearLost
  PROVE  UrbInv'
<1> USE DEF job, flags, data, threads
<1>1. /\ num \in Nat /\ pc \in [Threads -> AppPlaces \cup EventPlaces] /\ JobInv /\ DoneInv
  BY DEF Ground, Types, ControlInv, PlacesInv, UrbInv
<1>2. /\ UNCHANGED <<kind, mode, length, num, urbs, cur, alive, retired, walk>>
      /\ pc["event"] # "handle" /\ pc'["event"] # "handle" /\ pc'["app"] = pc["app"]
      /\ pc'["event"] # "discard"
  BY <1>1 DEF Hangup, ClearLost, At, Go, Threads, priv, kernel
<1>3. /\ Queued = {} /\ ~alive
      /\ link' # "watched" /\ (done' = done \/ done' = <<>>)
  BY DEF Ground, ControlInv, PhaseInv, DoneInv, UrbInv, Hangup, ClearLost, At, kernel
<1>4. has' = has \/ (~has' /\ done' = <<>>)
  BY DEF Ground, ControlInv, PhaseInv, Hangup, ClearLost, At, priv, kernel
<1>5. Queued' = {} /\ Handled' = Handled /\ Unsent' = Unsent
  BY <1>2, <1>3 DEF Queued, Handled, Unsent
<1>6. DoneInv'
  <2>1. <<>> \in Seq(1..num) /\ Len(<<>>) = 0
    OBVIOUS
  <2>2. ~has' => done' = <<>>
    BY <1>1, <1>3, <1>4 DEF DoneInv
  <2>3. CASE done' = done
    BY <1>1, <1>2, <1>3, <1>5, <2>2, <2>3 DEF DoneInv
  <2>4. CASE done' = <<>>
    BY <1>1, <1>2, <1>3, <1>5, <2>1, <2>2, <2>4 DEF DoneInv
  <2> QED
    BY <1>3, <2>3, <2>4
<1>7. JobInv' /\ RowInv'
  BY <1>2, <1>3, <1>5 DEF UrbInv, JobInv, OrderInv, RowInv
<1>8. WalkInv'
  <2>1. pc'["app"] = pc["app"] /\ walk' = walk /\ ~alive'
    BY <1>2, <1>3
  <2> QED
    BY <1>2, <1>5, <2>1 DEF UrbInv, OrderInv, WalkInv, Threads, Submitting
<1>9. CountInv'
  BY <1>2, <1>4, <1>5 DEF UrbInv, CountInv
<1>10. OverflowInv'
  <2>1. done' = done => OverflowInv'
    BY <1>2, <1>3, <1>5 DEF UrbInv, OverflowInv
  <2>2. done' = <<>> => OverflowInv'
    BY <1>2, <1>3, <1>5 DEF UrbInv, OverflowInv
  <2> QED
    BY <1>3, <2>1, <2>2
<1> QED
  BY <1>6, <1>7, <1>8, <1>9, <1>10 DEF UrbInv, OrderInv

LEMMA KernelKeeps ==
  ASSUME Ground, UrbInv, UrbDone \/ UrbShort \/ UrbFails \/ UrbOverflows \/ Shutdown
  PROVE  UrbInv'
<1> USE DEF priv, job, flags, data, threads
<1>1. /\ num \in Nat /\ sent \in Nat /\ JobInv /\ DoneInv /\ OrderInv /\ RowInv /\ WalkInv
      /\ CountInv /\ OverflowInv
  BY DEF Ground, Types, UrbInv, OrderInv
<1>2. PICK i \in 1..num, last \in 1..num, status \in Statuses, n \in Nat :
        Returns(i, status, n, last) /\ (alive => \A j \in Queued : i <= j)
  BY <1>1, KernelReturns
<1>3. /\ DoneInv' /\ RowInv' /\ OverflowInv' /\ CountInv'
      /\ Queued' \subseteq Queued \ {i}
      /\ \A j \in 1..num : /\ urbs'[j].st = "none" => urbs[j].st = "none"
                           /\ urbs[j].st = "none" => urbs'[j].st = "none"
  BY <1>1, <1>2, ReturnsKeep
<1>4. Queued' = Queued \ (i..last) /\ last \in i..num
  BY <1>1, <1>2, ReturnsIs DEF Back
<1>5. /\ UNCHANGED <<kind, mode, length, num, alive, pc>>
      /\ walk' = walk
  <2>1. UNCHANGED <<kind, mode, length, num, alive, pc>>
    BY <1>2 DEF Returns
  <2>2. walk' = walk
    BY DEF UrbDone, UrbShort, UrbFails, UrbOverflows, Shutdown, Finish
  <2> QED
    BY <2>1, <2>2
<1>6. WalkInv'
  <2>1. ASSUME pc["app"] = "submit", alive, NEW j \in Queued'
        PROVE  j..(Submitting - 1) \subseteq Queued'
    <3>1. j \in Queued /\ j \notin i..last /\ i <= j /\ j \in 1..num
      BY <1>1, <1>2, <1>4, <2>1 DEF Queued, DoneInv
    <3>2. j > last
      BY <1>4, <3>1
    <3>3. \A l \in j..(Submitting - 1) : l \in Queued /\ l \notin i..last
      BY <1>1, <1>4, <2>1, <3>1, <3>2 DEF WalkInv
    <3> QED
      BY <1>4, <3>3
  <2>2. pc["app"] = "submit" =>
          /\ Submitting \in 1..num
          /\ \A j \in 1..num : (urbs'[j].st = "none" => j >= Submitting)
                               /\ (j >= Submitting => urbs'[j].st = "none")
    BY <1>1, <1>3 DEF WalkInv
  <2>3. \A t \in Threads : pc[t] = "discard" =>
          walk[t].k \in 0..num /\ (alive => \A j \in Queued' : j <= walk[t].k)
    BY <1>1, <1>3 DEF WalkInv
  <2>4. Submitting' = Submitting
    BY <1>5 DEF Submitting
  <2> QED
    BY <1>5, <2>1, <2>2, <2>3, <2>4 DEF WalkInv
<1>7. JobInv'
  BY <1>1, <1>5 DEF JobInv
<1> QED
  BY <1>3, <1>6, <1>7 DEF UrbInv, OrderInv

LEMMA DiscardKeeps ==
  ASSUME Ground, UrbInv, NEW t \in Threads, DiscardUrb(t)
  PROVE  UrbInv'
<1> USE DEF priv, job, flags, data, threads
<1> DEFINE k == walk[t].k
<1>1. /\ num \in Nat /\ sent \in Nat /\ JobInv /\ DoneInv /\ OrderInv /\ RowInv /\ WalkInv
      /\ CountInv /\ OverflowInv /\ PlacesInv /\ LockInv
  BY DEF Ground, Types, ControlInv, UrbInv, OrderInv
<1>2. /\ k \in 1..num
      /\ \/ UNCHANGED <<urbs, done, sent>> /\ (alive => urbs[k].st # "queued")
         \/ \E n \in Nat : Returns(k, "cancelled", n, k)
      /\ UNCHANGED <<kind, mode, length, num, has, retired, alive, link, cur, pc>>
  BY <1>1, DiscardReturns
<1>3. /\ walk'[t].k = k - 1 /\ pc[t] = "discard"
      /\ \A u \in Threads : u # t => walk'[u] = walk[u]
  BY <1>1, DiscardMoves DEF DiscardUrb, Walking, At
<1>4. pc["app"] # "submit" /\ \A u \in Threads : u # t => pc[u] # "discard"
  BY <1>1, <1>3, LocksAre DEF Threads
<1>5. /\ DoneInv' /\ RowInv' /\ OverflowInv' /\ CountInv'
      /\ Queued' \subseteq Queued /\ (alive => k \notin Queued')
  <2>1. CASE UNCHANGED <<urbs, done, sent>> /\ (alive => urbs[k].st # "queued")
    <3>1. Queued' = Queued /\ Handled' = Handled /\ Unsent' = Unsent
      BY <1>2, <2>1 DEF Queued, Handled, Unsent
    <3>2. RowInv' /\ OverflowInv'
      BY <1>1, <1>2, <2>1, <3>1 DEF RowInv, OverflowInv
    <3>3. CountInv'
      BY <1>1, <1>2, <3>1 DEF CountInv
    <3>4. DoneInv'
      BY <1>1, <1>2, <2>1, <3>1 DEF DoneInv
    <3> QED
      BY <2>1, <3>1, <3>2, <3>3, <3>4 DEF Queued
  <2>2. ASSUME NEW n \in Nat, Returns(k, "cancelled", n, k)
        PROVE  /\ DoneInv' /\ RowInv' /\ OverflowInv' /\ CountInv'
               /\ Queued' \subseteq Queued /\ (alive => k \notin Queued')
    <3> HIDE DEF k
    <3> QED
      BY <1>1, <2>2, ReturnsKeep
  <2> QED
    BY <1>2, <2>1, <2>2
<1>6. WalkInv'
  <2>1. \A j \in Queued : j \in 1..num
    BY DEF Queued, UrbInv, DoneInv
  <2>2. alive => \A j \in Queued' : j <= k - 1
    <3>1. alive => \A j \in Queued : j <= k
      BY <1>1, <1>3 DEF WalkInv
    <3> QED
      BY <1>2, <1>5, <2>1, <3>1
  <2>3. pc' = pc /\ alive' = alive /\ num' = num /\ k - 1 \in 0..num
    BY <1>1, <1>2
  <2>4. ASSUME NEW u \in Threads, pc'[u] = "discard"
        PROVE  walk'[u].k \in 0..num' /\ (alive' => \A j \in Queued' : j <= walk'[u].k)
    <3>1. u = t
      BY <1>4, <2>3, <2>4
    <3> HIDE DEF k
    <3> QED
      BY <1>3, <2>2, <2>3, <3>1
  <2>5. pc'["app"] # "submit"
    BY <1>4, <2>3
  <2> QED
    BY <2>4, <2>5 DEF WalkInv
<1>7. JobInv'
  BY <1>1, <1>2 DEF JobInv
<1> QED
  BY <1>5, <1>6, <1>7 DEF UrbInv, OrderInv

\* The oldest URB that is done leaves the queue, to be handled.
LEMMA HeadTail ==
  ASSUME NEW S, NEW s \in Seq(S), s # <<>>
  PROVE  /\ Len(s) \in Nat \ {0} /\ Head(s) = s[1] /\ Head(s) \in S
         /\ Tail(s) \in Seq(S) /\ Len(Tail(s)) = Len(s) - 1
         /\ \A k \in 1..Len(Tail(s)) : k + 1 \in 1..Len(s) /\ Tail(s)[k] = s[k + 1]
<1>1. /\ Head(s) \in S /\ Tail(s) \in Seq(S) /\ Len(Tail(s)) = Len(s) - 1
      /\ \A k \in 1..Len(Tail(s)) : Tail(s)[k] = s[k + 1]
  BY HeadTailProperties
<1>2. Len(s) \in Nat /\ Len(s) # 0 /\ Head(s) = s[1]
  BY EmptySeq
<1> QED
  BY <1>1, <1>2

LEMMA ReapMoves ==
  ASSUME Ground, UrbInv, Reap
  PROVE  /\ has /\ cur = 0 /\ pc["event"] = "poll" /\ done # <<>> /\ Len(done) \in Nat \ {0}
         /\ cur' = done[1] /\ cur' \in 1..num /\ urbs[cur'].st = "done"
         /\ done' \in Seq(1..num) /\ Len(done') = Len(done) - 1
         /\ \A k \in 1..Len(done') : /\ k + 1 \in 1..Len(done) /\ done'[k] = done[k + 1]
                                     /\ done'[k] \in 1..num /\ done'[k] # cur'
                                     /\ urbs[done'[k]].st = "done"
         /\ urbs' \in [1..num -> Urbs] /\ urbs'[cur'].st = "reaped"
         /\ \A j \in 1..num : /\ urbs'[j].status = urbs[j].status
                              /\ urbs'[j].cells = urbs[j].cells
                              /\ j # cur' => urbs'[j].st = urbs[j].st
         /\ Queued' = Queued
         /\ pc'["event"] = "handle" /\ pc'["app"] = pc["app"]
         /\ UNCHANGED <<job, num, has, retired, action, reapStatus, offset, broken, sent,
                        alive, reapAfter, link, transferred, walk>>
<1> USE DEF priv, job
<1>1. /\ num \in Nat /\ DoneInv /\ pc \in [Threads -> AppPlaces \cup EventPlaces]
  BY DEF Ground, Types, ControlInv, PlacesInv, UrbInv
<1>2. urbs \in [1..num -> Urbs] /\ done \in Seq(1..num)
  BY <1>1 DEF DoneInv
<1>3. /\ pc["event"] = "poll" /\ done # <<>> /\ cur' = Head(done) /\ done' = Tail(done)
      /\ urbs' = [urbs EXCEPT ![cur'].st = "reaped"]
      /\ pc' = [pc EXCEPT !["event"] = "handle"]
      /\ UNCHANGED <<job, num, has, retired, action, reapStatus, offset, broken, sent,
                     alive, reapAfter, link, transferred, walk>>
  BY DEF Reap, At, Go
<1>4. has /\ cur = 0
  BY <1>1, <1>3 DEF DoneInv
<1>5. /\ Len(done) \in Nat \ {0} /\ cur' = done[1] /\ cur' \in 1..num
      /\ done' \in Seq(1..num) /\ Len(done') = Len(done) - 1
      /\ \A k \in 1..Len(done') : k + 1 \in 1..Len(done) /\ done'[k] = done[k + 1]
  BY <1>2, <1>3, HeadTail
<1>6. 1 \in 1..Len(done) /\ urbs[cur'].st = "done"
  BY <1>1, <1>5 DEF DoneInv
<1>7. ASSUME NEW k \in 1..Len(done')
      PROVE  done'[k] \in 1..num /\ done'[k] # cur' /\ urbs[done'[k]].st = "done"
  <2>1. /\ k + 1 \in 1..Len(done) /\ done'[k] = done[k + 1] /\ k + 1 # 1
    BY <1>5
  <2> QED
    BY <1>1, <1>2, <1>5, <1>6, <2>1 DEF DoneInv
<1>8. urbs' = [urbs EXCEPT ![cur'] = [urbs[cur'] EXCEPT !.st = "reaped"]]
  BY <1>2, <1>3, <1>5
<1>9. /\ [urbs[cur'] EXCEPT !.st = "reaped"] \in Urbs
      /\ [urbs[cur'] EXCEPT !.st = "reaped"].st = "reaped"
      /\ [urbs[cur'] EXCEPT !.st = "reaped"].status = urbs[cur'].status
      /\ [urbs[cur'] EXCEPT !.st = "reaped"].cells = urbs[cur'].cells
  <2>1. urbs[cur'] \in Urbs
    BY <1>2, <1>5
  <2> QED
    BY <2>1, UrbSet
<1>10. /\ urbs' \in [1..num -> Urbs] /\ urbs'[cur'].st = "reaped"
       /\ \A j \in 1..num : /\ urbs'[j].status = urbs[j].status
                            /\ urbs'[j].cells = urbs[j].cells
                            /\ j # cur' => urbs'[j].st = urbs[j].st
  BY <1>2, <1>5, <1>8, <1>9
<1>11. Queued' = Queued
  BY <1>2, <1>6, <1>10 DEF Queued
<1>12. pc'["event"] = "handle" /\ pc'["app"] = pc["app"]
  BY <1>1, <1>3 DEF Threads
<1> QED
  BY <1>3, <1>4, <1>5, <1>6, <1>7, <1>10, <1>11, <1>12

LEMMA ReapKeeps ==
  ASSUME Ground, UrbInv, Reap
  PROVE  UrbInv'
<1> USE DEF job
<1>1. /\ has /\ cur = 0 /\ pc["event"] = "poll" /\ done # <<>> /\ Len(done) \in Nat \ {0}
      /\ cur' = done[1] /\ cur' \in 1..num /\ urbs[cur'].st = "done"
      /\ done' \in Seq(1..num) /\ Len(done') = Len(done) - 1
      /\ \A k \in 1..Len(done') : /\ k + 1 \in 1..Len(done) /\ done'[k] = done[k + 1]
                                  /\ done'[k] \in 1..num /\ done'[k] # cur'
                                  /\ urbs[done'[k]].st = "done"
      /\ urbs' \in [1..num -> Urbs] /\ urbs'[cur'].st = "reaped"
      /\ \A j \in 1..num : /\ urbs'[j].status = urbs[j].status
                           /\ j # cur' => urbs'[j].st = urbs[j].st
      /\ Queued' = Queued
      /\ pc'["event"] = "handle" /\ pc'["app"] = pc["app"]
      /\ UNCHANGED <<kind, mode, length, num, has, retired, alive, link, walk>>
  BY ReapMoves
<1>2. num \in Nat /\ JobInv /\ DoneInv /\ RowInv /\ WalkInv /\ CountInv /\ OverflowInv
  BY DEF Ground, Types, UrbInv, OrderInv
<1>3. \A j \in 1..num : /\ urbs'[j].st = "none" => urbs[j].st = "none"
                        /\ urbs[j].st = "none" => urbs'[j].st = "none"
  BY <1>1
<1>4. JobInv'
  BY <1>1, <1>2 DEF JobInv
<1>5. DoneInv'
  <2>1. \A k \in 1..Len(done') : urbs'[done'[k]].st = "done"
    BY <1>1
  <2>2. ASSUME NEW j \in 1..Len(done'), NEW k \in 1..Len(done'), done'[j] = done'[k]
        PROVE  j = k
    <3>1. /\ j + 1 \in 1..Len(done) /\ k + 1 \in 1..Len(done) /\ done[j + 1] = done[k + 1]
      BY <1>1, <2>2
    <3>2. j + 1 = k + 1
      BY <1>2, <3>1 DEF DoneInv
    <3>3. j \in Int /\ k \in Int
      OBVIOUS
    <3> QED
      BY <3>2, <3>3
  <2>3. kind # "bulk" => \A j \in 1..num : urbs'[j].status # "unlinked"
    BY <1>1, <1>2 DEF DoneInv
  <2>4. link # "watched" => ~alive /\ Queued = {}
    BY <1>2 DEF DoneInv
  <2>5. cur' # 0 /\ cur' \in 0..num
    BY <1>1
  <2> QED
    BY <1>1, <2>1, <2>2, <2>3, <2>4, <2>5 DEF DoneInv
<1>6. RowInv'
  <2>1. \A i, j \in 1..num : i < j /\ urbs'[i].st = "none" => urbs'[j].st = "none"
    BY <1>2, <1>3 DEF RowInv
  <2> QED
    BY <1>1, <1>2, <2>1 DEF RowInv
<1>7. WalkInv'
  <2>1. pc'["app"] = "submit" => \A i \in 1..num : (urbs'[i].st = "none" => i >= Submitting)
                                                   /\ (i >= Submitting => urbs'[i].st = "none")
    BY <1>1, <1>2, <1>3 DEF WalkInv
  <2>2. Submitting' = Submitting
    BY <1>1 DEF Submitting
  <2>3. \A t \in Threads : pc'[t] = "discard" => pc[t] = "discard"
    BY <1>1 DEF Threads
  <2> QED
    BY <1>1, <1>2, <2>1, <2>2, <2>3 DEF WalkInv
<1>8. CountInv'
  <2>1. Handled' = Handled
    <3>1. \A j \in 1..num : j # 0
      OBVIOUS
    <3>2. \A j \in 1..num : j \in Handled => urbs'[j].st = "reaped" /\ j # cur'
      BY <1>1 DEF Handled
    <3>3. \A j \in 1..num : urbs'[j].st = "reaped" /\ j # cur' => j \in Handled
      BY <1>1, <3>1 DEF Handled
    <3> QED
      BY <1>1, <3>2, <3>3 DEF Handled
  <2>2. Unsent' = Unsent
    <3>1. {j \in 1..num : urbs'[j].st = "none"} = {j \in 1..num : urbs[j].st = "none"}
      BY <1>3
    <3> QED
      BY <1>1, <3>1 DEF Unsent
  <2> QED
    BY <1>1, <1>2, <2>1, <2>2 DEF CountInv
<1>9. OverflowInv'
  <2> SUFFICES ASSUME NEW i \in 1..num, urbs'[i].status = "overflow"
               PROVE  /\ Queued' = {} /\ \A j \in 1..num : urbs'[j].st # "none"
                      /\ i = cur' => done' = <<>>
                      /\ \A k \in 1..Len(done') : done'[k] = i => k = Len(done')
    BY <1>1 DEF OverflowInv
  <2>1. /\ Queued = {} /\ \A j \in 1..num : urbs[j].st # "none"
        /\ \A k \in 1..Len(done) : done[k] = i => k = Len(done)
    BY <1>1, <1>2 DEF OverflowInv
  <2>2. ASSUME i = cur' PROVE done' = <<>>
    <3>1. 1 \in 1..Len(done) /\ done[1] = i
      BY <1>1, <2>2
    <3>2. Len(done') = 0
      BY <1>1, <2>1, <3>1
    <3> QED
      BY <1>1, <3>2, EmptySeq
  <2>3. ASSUME NEW k \in 1..Len(done'), done'[k] = i PROVE k = Len(done')
    BY <1>1, <2>1, <2>3
  <2> QED
    BY <1>1, <1>3, <2>1, <2>2, <2>3
<1> QED
  BY <1>4, <1>5, <1>6, <1>7, <1>8, <1>9 DEF UrbInv, OrderInv

HandleSteps == HandleAbnormal \/ HandleBulk \/ HandleIso \/ HandleControl

\* The URB that has been handled counts from now on; when all of them do, the
\* kernel has none.
LEMMA OneMore ==
  ASSUME Ground, UrbInv, pc["event"] = "handle", pc["app"] # "submit"
  PROVE  LET counted == Handled \cup {cur} \cup Unsent
         IN  /\ cur \in 1..num /\ urbs[cur].st = "reaped"
             /\ retired + 1 = Cardinality(counted) /\ retired + 1 \in 0..num
             /\ retired + 1 = num => Queued = {} /\ done = <<>>
<1> DEFINE counted == Handled \cup {cur} \cup Unsent
           before == Handled \cup Unsent
<1>1. num \in Nat /\ DoneInv /\ CountInv /\ has
  BY DEF Ground, Types, UrbInv, ControlInv, PhaseInv
<1>2. cur \in 1..num /\ urbs[cur].st = "reaped"
  BY <1>1 DEF DoneInv
<1>3. cur \notin before /\ counted = before \cup {cur} /\ retired = Cardinality(before)
  BY <1>1, <1>2 DEF Handled, Unsent, CountInv
<1>4. IsFiniteSet(before) /\ counted \in SUBSET (1..num)
  BY <1>1, <1>2, HandledFinite
<1>5. \A i \in counted : urbs[i].st \in {"reaped", "none"}
  BY <1>2 DEF Handled, Unsent
<1> HIDE DEF counted, before
<1>6. Cardinality(counted) = retired + 1
  BY <1>3, <1>4, FS_AddElement
<1>7. IsFiniteSet(1..num) /\ Cardinality(1..num) = num
  BY <1>1, HandledFinite
<1>8. Cardinality(counted) <= num /\ (Cardinality(counted) = num => counted = 1..num)
  BY <1>4, <1>7, FS_Subset
<1>9. ASSUME retired + 1 = num PROVE Queued = {} /\ done = <<>>
  <2>1. \A i \in 1..num : urbs[i].st \in {"reaped", "none"}
    BY <1>5, <1>6, <1>8, <1>9
  <2>2. Queued = {}
    BY <1>1, <2>1 DEF Queued, DoneInv
  <2>3. Len(done) \in Nat /\ \A k \in 1..Len(done) : done[k] \in 1..num /\ urbs[done[k]].st = "done"
    BY <1>1 DEF DoneInv
  <2>4. Len(done) = 0
    <3> SUFFICES ASSUME Len(done) # 0 PROVE FALSE
      OBVIOUS
    <3>1. 1 \in 1..Len(done)
      BY <2>3
    <3> QED
      BY <2>1, <2>3, <3>1
  <2> QED
    BY <1>1, <2>2, <2>4, EmptySeq DEF DoneInv
<1>10. retired + 1 \in 0..num
  <2>1. retired \in 0..num
    BY <1>1 DEF CountInv
  <2> QED
    BY <1>1, <1>6, <1>8, <2>1
<1> QED
  BY <1>2, <1>6, <1>9, <1>10 DEF counted

LEMMA HandleKeeps ==
  ASSUME Ground, UrbInv, HandleSteps
  PROVE  UrbInv'
<1>1. /\ num \in Nat /\ JobInv /\ DoneInv /\ RowInv /\ WalkInv /\ CountInv /\ OverflowInv
      /\ Types /\ PlacesInv /\ LockInv /\ PhaseInv
      /\ pc \in [Threads -> AppPlaces \cup EventPlaces]
  BY DEF Ground, Types, UrbInv, OrderInv, ControlInv, PlacesInv
<1>2. /\ UNCHANGED <<kind, mode, length, link, done, urbs, num>> /\ cur' = 0
      /\ pc["event"] = "handle" /\ pc["app"] \notin {"submit", "discard"} /\ has
      /\ pc'["app"] = pc["app"] /\ pc'["event"] # "handle"
      /\ pc'["event"] = "discard" => walk'["event"].k = num
  <2>1. /\ UNCHANGED <<flags, told, flock, link, done, urbs, job, num>>
        /\ pc["event"] = "handle" /\ pc["app"] \notin {"submit", "discard"} /\ has
        /\ \/ /\ cur' = 0 /\ \E p \in {"why", "finish"} : pc' = [pc EXCEPT !["event"] = p]
           \/ /\ cur' = 0 /\ pc' = [pc EXCEPT !["event"] = "poll"]
           \/ /\ cur' = 0 /\ pc' = [pc EXCEPT !["event"] = "discard"]
              /\ walk' = [walk EXCEPT !["event"] =
                    [k |-> num, lo |-> cur + 1, hi |-> num, ret |-> "ok", why |-> "rest"]]
    BY <1>1, HandleMoves DEF HandleSteps
  <2>2. walk \in [Threads -> Walks]
    BY <1>1 DEF PlacesInv
  <2> QED
    BY <1>1, <2>1, <2>2 DEF job, Threads
<1>3. alive' = alive
  BY DEF HandleSteps, HandleAbnormal, HandleBulk, HandleIso, HandleControl,
     HandledUnchanged, kernel
<1>4. /\ cur \in 1..num /\ urbs[cur].st = "reaped"
      /\ retired + 1 = Cardinality(Handled \cup {cur} \cup Unsent) /\ retired + 1 \in 0..num
      /\ retired + 1 = num => Queued = {} /\ done = <<>>
  BY <1>2, OneMore
<1>5. Handled' = Handled \cup {cur} /\ Unsent' = Unsent /\ Queued' = Queued
  BY <1>2, <1>4 DEF Handled, Unsent, Queued
<1>6. /\ retired' \in 0..num
      /\ has' => has /\ retired' = retired + 1
      /\ ~has' => Queued = {} /\ done = <<>>
  <2>1. CASE HandleAbnormal
    BY <1>2, <1>4, <2>1 DEF HandleAbnormal, Over, Wait, All
  <2>2. CASE HandleIso
    BY <1>2, <1>4, <2>2 DEF HandleIso, Over, Wait, All
  <2>3. CASE HandleBulk
    <3>1. urbs[cur].status = "overflow" => Queued = {} /\ done = <<>>
      BY <1>1, <1>4 DEF OverflowInv
    <3>2. urbs[cur].status = "overflow" \/ (CASE urbs[cur].status = "gone" -> "no device"
                    [] urbs[cur].status = "stall" -> "stall"
                    [] urbs[cur].status = "overflow" -> "overflow"
                    [] urbs[cur].status = "bus" -> "error"
                    [] OTHER -> "completed") # "overflow"
      OBVIOUS
    <3> QED
      BY <1>2, <1>4, <2>3, <3>1, <3>2 DEF HandleBulk, Over, Wait, DiscardRest, All
  <2>4. CASE HandleControl
    <3>1. num = 1 /\ retired' = retired /\ ~has'
      <4>1. kind = "control" /\ retired' = retired /\ ~has'
        BY <2>4 DEF HandleControl, Over
      <4>2. num # 0
        BY <1>1, <1>4
      <4> QED
        BY <1>1, <4>1, <4>2, OneForControl
    <3>2. cur = 1 /\ retired + 1 = 1 /\ retired \in 0..num
      BY <1>1, <1>4, <3>1 DEF CountInv
    <3> QED
      BY <1>4, <3>1, <3>2
  <2> QED
    BY <2>1, <2>2, <2>3, <2>4 DEF HandleSteps
<1>7. JobInv'
  BY <1>1, <1>2 DEF JobInv
<1>8. DoneInv'
  BY <1>1, <1>2, <1>3, <1>5, <1>6 DEF DoneInv
<1>9. RowInv'
  BY <1>1, <1>2, <1>3, <1>5 DEF RowInv
<1>10. WalkInv'
  <2>1. \A i \in Queued : i \in 1..num
    BY <1>1 DEF Queued, DoneInv
  <2>2. ASSUME NEW t \in Threads, pc'[t] = "discard" PROVE t = "event" /\ walk'[t].k = num
    BY <1>2, <2>2 DEF Threads
  <2>3. pc'["app"] # "submit"
    BY <1>2
  <2>4. num \in 0..num /\ \A i \in Queued : i <= num
    BY <1>1, <2>1
  <2> QED
    BY <1>2, <1>5, <2>2, <2>3, <2>4 DEF WalkInv
<1>11. CountInv'
  BY <1>2, <1>4, <1>5, <1>6 DEF CountInv
<1>12. OverflowInv'
  BY <1>1, <1>2, <1>5 DEF OverflowInv
<1> QED
  BY <1>7, <1>8, <1>9, <1>10, <1>11, <1>12 DEF UrbInv, OrderInv

LEMMA UrbStep == Ground /\ UrbInv /\ [Next]_vars => UrbInv'
<1> SUFFICES ASSUME Ground, UrbInv, [Next]_vars PROVE UrbInv'
  OBVIOUS
<1>1. CASE UNCHANGED vars
  <2>1. num \in Nat
    BY DEF Ground, Types
  <2> QED
    BY <1>1, <2>1, QuietKeeps DEF vars, job, priv, kernel, threads
<1>2. CASE Quiet
  BY <1>2, QuietSteps
<1>3. CASE List
  BY <1>3, ListKeeps
<1>4. CASE SubmitUrb
  BY <1>4, SubmitUrbKeeps
<1>5. CASE SubmitRefused \/ SubmitStops \/ SubmitEndsEarly
  BY <1>5, SubmitEndKeeps
<1>6. CASE UrbDone \/ UrbShort \/ UrbFails \/ UrbOverflows \/ Shutdown
  BY <1>6, KernelKeeps
<1>7. CASE \E t \in Threads : DiscardUrb(t)
  BY <1>7, DiscardKeeps
<1>8. CASE Reap
  BY <1>8, ReapKeeps
<1>9. CASE HandleSteps
  BY <1>9, HandleKeeps
<1>10. CASE Hangup \/ ClearLost
  BY <1>10, LostKeeps
<1> QED
  BY <1>1, <1>2, <1>3, <1>4, <1>5, <1>6, <1>7, <1>8, <1>9, <1>10
     DEF Next, App, Kernel, Event, Either, Quiet, HandleSteps

-----------------------------------------------------------------------------
(* How much the URBs carry, step by step. *)

LEMMA StillKeeps ==
  ASSUME DataInv, UNCHANGED <<kind, mode, length, num, sent, transferred, offset, cur>>,
         DOMAIN buf' = DOMAIN buf, Handled' = Handled,
         \A i \in 1..num : /\ urbs'[i].cells = urbs[i].cells
                           /\ urbs'[i].st \in {"none", "queued"} => urbs[i].st \in {"none", "queued"}
                           /\ urbs'[i].st \in {"done", "reaped"} => urbs[i].st \in {"done", "reaped"},
         DoneInv, num \in Nat,
         \/ done' = done /\ (link' = "watched" \/ reapAfter' => link = "watched" \/ reapAfter)
         \/ done' = <<>> /\ ~(link' = "watched" \/ reapAfter')
  PROVE  DataInv'
<1>1. SizeInv'
  <2>1. \A i \in 1..num : Size(i)' = Size(i)
    BY DEF Size, Start
  <2> QED
    BY <2>1 DEF DataInv, SizeInv
<1>2. SentInv'
  <2>1. \A i \in 1..num : Start(i)' = Start(i)
    BY DEF Start
  <2> QED
    BY <2>1 DEF DataInv, SentInv
<1>3. SlotInv'
  BY DEF DataInv, SlotInv, Slots, Size, Start
<1>4. Carried' = Carried
  BY DEF Carried, DoneInv
<1>5. ChainInv'
  <2> SUFFICES ASSUME kind # "iso" PROVE \E pos \in [0..Len(done') -> 0..sent] : Adds(pos)'
    BY DEF DataInv, ChainInv
  <2>1. PICK pos \in [0..Len(done) -> 0..sent] : Adds(pos)
    BY DEF DataInv, ChainInv
  <2>2. Len(done) \in Nat /\ \A k \in 1..Len(done) : done[k] \in 1..num
    BY DEF DoneInv
  <2>3. CASE done' = done /\ (link' = "watched" \/ reapAfter' => link = "watched" \/ reapAfter)
    <3>1. \A i \in 1..num : Start(i)' = Start(i)
      BY DEF Start
    <3>2. \A k \in 1..Len(done') : Carries(done[k], pos[k - 1])'
      BY <2>1, <2>2, <2>3, <3>1 DEF Adds, Carries
    <3>3. /\ pos[0] = transferred' + Carried'
          /\ \A k \in 1..Len(done') : pos[k] = pos[k - 1] + Len(urbs'[done'[k]].cells)
          /\ link' = "watched" \/ reapAfter' => pos[Len(done')] = sent'
      BY <1>4, <2>1, <2>2, <2>3 DEF Adds
    <3>4. Adds(pos)'
      BY <2>3, <3>2, <3>3 DEF Adds
    <3> QED
      BY <2>3, <3>4
  <2>4. CASE done' = <<>> /\ ~(link' = "watched" \/ reapAfter')
    <3> DEFINE p == [k \in 0..0 |-> pos[0]]
    <3>1. Len(done') = 0 /\ 0 \in 0..Len(done)
      BY <2>2, <2>4
    <3>2. p \in [0..Len(done') -> 0..sent] /\ p[0] = pos[0]
      BY <2>1, <3>1
    <3>3. p[0] = transferred' + Carried'
      BY <1>4, <2>1, <3>2 DEF Adds
    <3> HIDE DEF p
    <3>4. Adds(p)'
      BY <2>4, <3>1, <3>3 DEF Adds
    <3> QED
      BY <3>2, <3>4
  <2> QED
    BY <2>3, <2>4
<1> QED
  BY <1>1, <1>2, <1>3, <1>5 DEF DataInv

LEMMA QuietData ==
  ASSUME Ground, UrbInv, DataInv, Quiet \/ SubmitRefused \/ SubmitStops \/ SubmitEndsEarly
  PROVE  DataInv'
<1>1. UNCHANGED <<kind, mode, length, num, sent, transferred, offset, cur, urbs, done, buf>>
  BY DEF Quiet, SubmitRefused, SubmitStops, SubmitEndsEarly, Submit, Unlist, Cancel, Why,
     Remove,
         Settle, Call, FindLost, Unplug, Walked, TimerFires, Expire, Mark, BeginCancel,
         job, priv, kernel, data, threads
<1>2. link' = "watched" \/ reapAfter' => link = "watched" \/ reapAfter
  <2>1. CASE Unplug
    BY <2>1 DEF Unplug, UrbInv, DoneInv
  <2>2. CASE ~Unplug
    <3>1. reapAfter' = reapAfter
      BY <2>2 DEF Quiet, SubmitRefused, SubmitStops, SubmitEndsEarly, Submit, Unlist,
         Cancel, Why,
         Remove, Settle, Call, FindLost, Walked, TimerFires, Expire, Mark, BeginCancel, kernel
    <3>2. link' = link \/ link' = "over"
      BY <2>2 DEF Quiet, SubmitRefused, SubmitStops, SubmitEndsEarly, Submit, Unlist,
         Cancel, Why,
         Remove, Settle, Call, FindLost, Walked, TimerFires, Expire, Mark, BeginCancel
    <3> QED
      BY <3>1, <3>2
  <2> QED
    BY <2>1, <2>2
<1>3. Handled' = Handled
  BY <1>1 DEF Handled
<1>4. DoneInv /\ num \in Nat
  BY DEF UrbInv, Ground, Types
<1> QED
  BY <1>1, <1>2, <1>3, <1>4, StillKeeps

LEMMA SubmitUrbData ==
  ASSUME Ground, UrbInv, DataInv, SubmitUrb
  PROVE  DataInv'
<1> DEFINE k == Submitting
<1>1. k \in 1..num /\ num \in Nat /\ urbs[k].st = "none"
  BY SubmittingIs DEF SubmitUrb, At
<1>2. /\ UNCHANGED <<kind, mode, length, num, sent, transferred, offset, cur, done, buf, link, reapAfter>>
      /\ urbs' = [urbs EXCEPT ![k].st = "queued"]
  BY DEF SubmitUrb, job, priv, data
<1>3. DoneInv /\ urbs \in [1..num -> Urbs] /\ urbs[k] \in Urbs
  BY <1>1 DEF UrbInv, DoneInv
<1>4. urbs' = [urbs EXCEPT ![k] = [urbs[k] EXCEPT !.st = "queued"]]
  BY <1>1, <1>2, <1>3
<1>5. /\ urbs'[k].st = "queued" /\ urbs'[k].cells = urbs[k].cells
      /\ \A i \in 1..num : i # k => urbs'[i] = urbs[i]
  BY <1>1, <1>3, <1>4, UrbSet
<1> HIDE DEF k
<1>6. Handled' = Handled
  BY <1>1, <1>2, <1>5 DEF Handled
<1>7. \A i \in 1..num :
        /\ urbs'[i].cells = urbs[i].cells
        /\ urbs'[i].st \in {"none", "queued"} => urbs[i].st \in {"none", "queued"}
        /\ urbs'[i].st \in {"done", "reaped"} => urbs[i].st \in {"done", "reaped"}
  BY <1>1, <1>5
<1> QED
  BY <1>1, <1>2, <1>3, <1>6, <1>7, StillKeeps

LEMMA LostData ==
  ASSUME Ground, UrbInv, DataInv, Hangup \/ ClearLost
  PROVE  DataInv'
<1>1. UNCHANGED <<kind, mode, length, num, sent, transferred, offset, cur, urbs, buf, reapAfter>>
  BY DEF Hangup, ClearLost, job, priv, kernel, data, threads
<1>2. \/ done' = done /\ (link' = "watched" \/ reapAfter' => link = "watched" \/ reapAfter)
      \/ done' = <<>> /\ ~(link' = "watched" \/ reapAfter')
  BY DEF Hangup, ClearLost, kernel
<1>3. Handled' = Handled
  BY <1>1 DEF Handled
<1>4. DoneInv /\ num \in Nat
  BY DEF UrbInv, Ground, Types
<1> QED
  BY <1>1, <1>2, <1>3, <1>4, StillKeeps

LEMMA ListData ==
  ASSUME Ground, UrbInv, DataInv, List
  PROVE  DataInv'
<1> DEFINE p == PerUrb(kind', mode', length')
<1>1. done = <<>> /\ cur = 0 /\ num' = UrbCount(kind', mode', length') /\ length' \in Nat
  BY UsbTransferAssumption
     DEF List, Ground, ControlInv, PhaseInv, Submission, UrbInv, DoneInv, At
<1>2. /\ urbs' = [i \in 1..num' |-> [st |-> "none", status |-> "ok", cells |-> <<>>]]
      /\ sent' = 0 /\ transferred' = 0 /\ offset' = 0 /\ done' = done /\ cur' = cur
      /\ buf' = [c \in 1..length' |-> 0]
  BY DEF List
<1>3. p \in Nat \ {0} /\ num' \in Nat \ {0}
  <2>1. p \in Nat \ {0}
    BY <1>1, UsbTransferAssumption DEF PerUrb
  <2> QED
    BY <1>1, <2>1, CountIs
<1>4. ASSUME NEW i \in 1..num'
      PROVE  Start(i)' \in Nat /\ Size(i)' \in Nat
  <2>1. num' = IF length' = 0 THEN 1 ELSE (length' + p - 1) \div p
    BY <1>1 DEF UrbCount
  <2>2. Start(i)' = (i - 1) * p /\ Size(i)' = IF i < num' THEN p ELSE length' - (i - 1) * p
    BY DEF Start, Size
  <2> HIDE DEF p
  <2>3. (i - 1) * p \in Nat /\ (i - 1) * p <= length'
    BY <1>1, <1>3, <2>1, Cut
  <2>4. length' - (i - 1) * p \in Nat
    BY <1>1, <2>3
  <2> DEFINE s == (i - 1) * p
  <2>5. s \in Nat /\ length' - s \in Nat /\ Start(i)' = s
        /\ Size(i)' = IF i < num' THEN p ELSE length' - s
    BY <2>2, <2>3, <2>4
  <2> HIDE DEF s
  <2> QED
    BY <1>3, <2>5
<1>5. SizeInv'
  <2>1. Len(<<>>) = 0
    OBVIOUS
  <2> QED
    BY <1>2, <1>4, <2>1 DEF SizeInv
<1>6. SentInv'
  BY <1>1, <1>2, <1>4 DEF SentInv
<1>7. ChainInv'
  <2> DEFINE z == [k \in 0..0 |-> 0]
  <2>1. Carried' = 0 /\ Len(done') = 0
    BY <1>1, <1>2 DEF Carried
  <2>2. z \in [0..Len(done') -> 0..sent'] /\ z[0] = 0
    BY <1>2, <2>1
  <2>3. DOMAIN buf' = 1..length'
    BY <1>2
  <2> HIDE DEF z
  <2>4. Adds(z)'
    BY <1>1, <1>2, <2>1, <2>2 DEF Adds
  <2> QED
    BY <1>2, <2>2, <2>3, <2>4 DEF ChainInv
<1>8. SlotInv'
  <2>1. Handled' = {} /\ Handled' \ {num'} = {}
    BY <1>2 DEF Handled
  <2>2. Cardinality(Handled' \ {num'}) = 0
    BY <2>1, FS_EmptySet
  <2>3. Slots' = 0
    BY <2>1, <2>2, UsbTransferAssumption DEF Slots
  <2> QED
    BY <1>2, <2>3 DEF SlotInv
<1> QED
  BY <1>5, <1>6, <1>7, <1>8 DEF DataInv

\* What comes back has gone into the place that was left for it, and joins
\* the end of the chain.
LEMMA ReturnsData ==
  ASSUME Ground, UrbInv, DataInv, NEW i, NEW last, NEW status, NEW n \in Nat,
         Returns(i, status, n, last)
  PROVE  DataInv'
<1> USE DEF job, priv
<1>0. /\ num \in Nat /\ sent \in Nat /\ JobInv /\ DoneInv /\ RowInv
  BY DEF Ground, Types, UrbInv, OrderInv
<1>00. Back(i, status, n, last)
  BY <1>0, ReturnsIs
<1>1. /\ i \in 1..num /\ last \in i..num
      /\ urbs' \in [1..num -> Urbs]
      /\ \A j \in i..last : urbs'[j].st = "done" /\ urbs[j].st = "queued"
      /\ \A j \in 1..num : j \notin i..last => urbs'[j] = urbs[j]
      /\ Len(urbs'[i].cells) = n
      /\ \A j \in (i + 1)..last : urbs'[j].cells = urbs[j].cells
      /\ Len(done') = Len(done) + (last - i + 1)
      /\ \A k \in 1..Len(done) : done'[k] = done[k]
      /\ \A k \in (Len(done) + 1)..Len(done') : done'[k] = i + (k - Len(done)) - 1
      /\ sent' = IF kind = "iso" THEN sent ELSE sent + n
  BY <1>00 DEF Back
<1>2. /\ i \in Queued /\ n \in 0..Size(i)
      /\ last > i => kind = "bulk"
      /\ kind = "iso" => n = Size(i)
      /\ kind # "iso" /\ n > 0 => \A j \in Queued : i <= j
      /\ UNCHANGED <<kind, mode, length, num, offset, reapAfter, link, transferred, buf, cur>>
  BY DEF Returns
<1>3. /\ urbs \in [1..num -> Urbs] /\ Len(done) \in Nat
      /\ \A k \in 1..Len(done) : done[k] \in 1..num /\ urbs[done[k]].st = "done"
      /\ link = "watched" /\ (cur # 0 => cur \in 1..num /\ urbs[cur].st = "reaped")
  BY <1>0, <1>2 DEF DoneInv
<1>4. Size(i) \in Nat /\ Start(i) \in Nat /\ Start(i) + Size(i) <= length /\ length \in Nat
  BY <1>0, <1>1, SizeIs, PerUrbIs
<1>5. \A j \in 1..num : Size(j)' = Size(j) /\ Start(j)' = Start(j)
  BY <1>2 DEF Size, Start
<1>6. \A j \in 1..num : \/ j \notin i..last /\ urbs'[j] = urbs[j]
                        \/ j = i
                        \/ j \in (i + 1)..last /\ j \in i..last
  BY <1>1
<1>7. \A j \in (i + 1)..last : urbs'[j].cells = <<>>
  <2>0. i \in 1..num /\ last \in i..num /\ num \in Nat
    BY <1>0, <1>1
  <2>1. \A j \in (i + 1)..last : j \in i..last /\ j \in 1..num
    BY <2>0
  <2> QED
    BY <1>1, <2>1 DEF DataInv, SizeInv
<1>8. SizeInv'
  <2>1. sent' \in Nat
    BY <1>0, <1>1
  <2>2. ASSUME NEW j \in 1..num
        PROVE  /\ Len(urbs'[j].cells) <= Size(j)
               /\ urbs'[j].st \in {"none", "queued"} => urbs'[j].cells = <<>>
               /\ kind = "iso" /\ urbs'[j].st \in {"done", "reaped"} =>
                    Len(urbs'[j].cells) = Size(j)
    <3>1. CASE j \notin i..last /\ urbs'[j] = urbs[j]
      BY <3>1 DEF DataInv, SizeInv
    <3>2. CASE j = i
      <4>1. urbs'[i].st = "done"
        BY <1>1
      <4> QED
        BY <1>1, <1>2, <1>4, <3>2, <4>1
    <3>3. CASE j \in (i + 1)..last /\ j \in i..last
      <4>1. urbs'[j].st = "done" /\ urbs'[j].cells = urbs[j].cells /\ kind # "iso"
        BY <1>1, <1>2, <3>3
      <4> QED
        BY <4>1 DEF DataInv, SizeInv
    <3> QED
      BY <1>6, <3>1, <3>2, <3>3
  <2> QED
    BY <1>2, <1>5, <2>1, <2>2 DEF SizeInv
<1>9. urbs[i].st = "queued"
  BY <1>1
<1>10. SentInv'
  <2>1. CASE kind = "iso"
    BY <1>1, <1>2, <2>1 DEF DataInv, SentInv
  <2>2. CASE kind # "iso"
    <3>1. sent <= Start(i) /\ sent' = sent + n
      BY <1>1, <1>9, <2>2 DEF DataInv, SentInv
    <3>2. sent' <= length
      BY <1>0, <1>2, <1>4, <3>1
    <3>3. ASSUME NEW j \in 1..num, urbs'[j].st \in {"none", "queued"}
          PROVE  sent' <= Start(j)
      <4>1. j \notin i..last /\ urbs'[j] = urbs[j]
        BY <1>1, <3>3
      <4>2. sent <= Start(j)
        BY <2>2, <3>3, <4>1 DEF DataInv, SentInv
      <4>3. CASE n = 0
        BY <1>0, <3>1, <4>2, <4>3
      <4>4. CASE n # 0
        <5>1. n > 0
          BY <4>4
        <5>2. i < j
          <6>1. CASE urbs[j].st = "queued"
            <7>1. i <= j /\ i # j
              BY <1>1, <1>2, <1>3, <2>2, <4>1, <5>1, <6>1 DEF Queued
            <7> QED
              BY <1>1, <7>1
          <6>2. CASE urbs[j].st = "none"
            BY <1>0, <1>1, <1>9, <6>2 DEF RowInv
          <6> QED
            BY <3>3, <4>1, <6>1, <6>2
        <5>3. Start(i) + Size(i) <= Start(j) /\ Start(j) \in Nat
          BY <1>0, <1>1, <5>2, StartsGrow, SizeIs
        <5> QED
          BY <1>0, <1>2, <1>4, <3>1, <5>3
      <4> QED
        BY <4>3, <4>4
    <3> QED
      BY <1>2, <1>5, <2>2, <3>2, <3>3 DEF SentInv
  <2> QED
    BY <2>1, <2>2
<1>11. Carried' = Carried
  <2>1. cur # 0 => cur \notin i..last
    BY <1>1, <1>3
  <2> QED
    BY <1>1, <1>2, <1>3, <2>1 DEF Carried
<1>12. ChainInv'
  <2> SUFFICES ASSUME kind # "iso" PROVE \E pos \in [0..Len(done') -> 0..sent'] : Adds(pos)'
    BY <1>2 DEF DataInv, ChainInv
  <2>1. PICK pos \in [0..Len(done) -> 0..sent] : Adds(pos)
    BY DEF DataInv, ChainInv
  <2>2. /\ pos[0] = transferred + Carried
        /\ \A k \in 1..Len(done) : pos[k] = pos[k - 1] + Len(urbs[done[k]].cells)
        /\ pos[Len(done)] = sent
        /\ \A k \in 1..Len(done) : Carries(done[k], pos[k - 1])
    BY <1>3, <2>1 DEF Adds
  <2>3. sent' = sent + n /\ sent' \in Nat /\ Len(done') \in Nat /\ Len(done) < Len(done')
    BY <1>0, <1>1, <1>3
  <2>4. ASSUME NEW k \in 0..Len(done')
        PROVE  (IF k <= Len(done) THEN pos[k] ELSE sent') \in 0..sent'
    <3>1. CASE k <= Len(done)
      <4>1. k \in 0..Len(done)
        BY <1>3, <3>1
      <4>2. pos[k] \in 0..sent
        BY <2>1, <4>1
      <4> QED
        BY <1>0, <2>3, <3>1, <4>2
    <3>2. CASE ~(k <= Len(done))
      BY <2>3, <3>2
    <3> QED
      BY <3>1, <3>2
  <2>5. PICK p \in [0..Len(done') -> 0..sent'] :
          /\ \A k \in 0..Len(done) : p[k] = pos[k]
          /\ \A k \in (Len(done) + 1)..Len(done') : p[k] = sent'
    <3> DEFINE q == [k \in 0..Len(done') |-> IF k <= Len(done) THEN pos[k] ELSE sent']
    <3>1. q \in [0..Len(done') -> 0..sent']
      BY <2>4
    <3>2. /\ \A k \in 0..Len(done) : q[k] = pos[k]
          /\ \A k \in (Len(done) + 1)..Len(done') : q[k] = sent'
      BY <1>3, <2>3
    <3> QED
      BY <3>1, <3>2
  <2>6. ASSUME NEW k \in 1..Len(done')
        PROVE  p[k] = p[k - 1] + Len(urbs'[done'[k]].cells) /\ Carries(done[k], p[k - 1])'
    <3>1. CASE k <= Len(done)
      <4>1. k \in 1..Len(done) /\ k - 1 \in 0..Len(done) /\ k \in 0..Len(done)
        BY <1>3, <3>1
      <4>2. done'[k] = done[k] /\ done[k] \in 1..num /\ done[k] \notin i..last
        BY <1>1, <1>3, <4>1
      <4>3. urbs'[done'[k]] = urbs[done[k]]
        BY <1>1, <4>2
      <4>5. p[k - 1] = pos[k - 1] /\ Carries(done[k], pos[k - 1])
        BY <2>2, <2>5, <4>1
      <4>6. Carries(done[k], p[k - 1])
        BY <4>5
      <4>4. Carries(done[k], p[k - 1])'
        BY <1>2, <4>2, <4>3, <4>6 DEF Carries, Start
      <4> QED
        BY <2>2, <2>5, <4>1, <4>3, <4>4
    <3>2. CASE k = Len(done) + 1
      <4>1. k \in (Len(done) + 1)..Len(done') /\ k - 1 = Len(done) /\ Len(done) \in 0..Len(done)
        BY <1>3, <3>2
      <4>2. done'[k] = i + (k - Len(done)) - 1
        BY <1>1, <4>1
      <4>3. done'[k] = i
        BY <1>1, <1>3, <3>2, <4>2
      <4>4. p[k] = sent' /\ p[k - 1] = sent
        BY <2>2, <2>5, <4>1
      <4>5. sent <= Start(i) /\ urbs'[i].cells = Cells(i, n)
        BY <1>00, <1>1, <1>9 DEF Back, DataInv, SentInv
      <4>6. \A c \in 1..n : urbs'[i].cells[c] = sent + c
        BY <4>5 DEF Cells
      <4>7. Carries(done[k], p[k - 1])'
        BY <1>1, <1>5, <4>3, <4>4, <4>5, <4>6 DEF Carries
      <4> QED
        BY <1>1, <2>3, <4>3, <4>4, <4>7
    <3>3. CASE k > Len(done) + 1
      <4>1. /\ k \in (Len(done) + 1)..Len(done') /\ k - 1 \in (Len(done) + 1)..Len(done')
            /\ k - Len(done) - 1 \in 1..(last - i)
        BY <1>1, <1>3, <3>3
      <4>2. done'[k] = i + (k - Len(done)) - 1
        BY <1>1, <4>1
      <4>3. done'[k] \in (i + 1)..last
        BY <1>1, <1>3, <4>1, <4>2
      <4>4. Len(urbs'[done'[k]].cells) = 0
        BY <1>7, <4>3
      <4>5. p[k] = sent' /\ p[k - 1] = sent'
        BY <2>5, <4>1
      <4>6. done'[k] \in 1..num /\ i < done'[k]
        BY <1>0, <1>1, <4>3
      <4>7. sent <= Start(i) /\ Start(i) + Size(i) <= Start(done'[k]) /\ Start(done'[k]) \in Nat
        BY <1>0, <1>1, <1>9, <4>6, StartsGrow, SizeIs DEF DataInv, SentInv
      <4>8. sent' <= Start(done'[k])
        BY <1>0, <1>2, <1>4, <2>3, <4>7
      <4>9. Carries(done[k], p[k - 1])'
        BY <1>5, <4>4, <4>5, <4>6, <4>8 DEF Carries
      <4> QED
        BY <2>3, <4>4, <4>5, <4>9
    <3> QED
      BY <1>3, <3>1, <3>2, <3>3
  <2>7. p[0] = transferred' + Carried' /\ p[Len(done')] = sent'
    <3>1. 0 \in 0..Len(done) /\ Len(done') \in (Len(done) + 1)..Len(done')
      BY <1>3, <2>3
    <3> QED
      BY <1>2, <1>11, <2>2, <2>5, <3>1
  <2>8. Adds(p)'
    BY <2>6, <2>7 DEF Adds
  <2> QED
    BY <2>8
<1>13. SlotInv'
  <2>1. \A j \in 1..num : /\ urbs'[j].st = "reaped" => urbs[j].st = "reaped"
                          /\ urbs[j].st = "reaped" => urbs'[j].st = "reaped"
    BY <1>1
  <2>2. Handled' = Handled
    BY <1>2, <2>1 DEF Handled
  <2>3. Size(num)' = Size(num)
    BY <1>2 DEF Size, Start
  <2> QED
    BY <1>2, <2>2, <2>3 DEF DataInv, SlotInv, Slots
<1> QED
  BY <1>8, <1>10, <1>12, <1>13 DEF DataInv

LEMMA KernelData ==
  ASSUME Ground, UrbInv, DataInv,
         \/ UrbDone \/ UrbShort \/ UrbFails \/ UrbOverflows \/ Shutdown
         \/ \E t \in Threads : DiscardUrb(t)
  PROVE  DataInv'
<1>1. num \in Nat /\ sent \in Nat /\ JobInv /\ DoneInv /\ OrderInv /\ PlacesInv
  BY DEF Ground, Types, ControlInv, UrbInv
<1>2. CASE UrbDone \/ UrbShort \/ UrbFails \/ UrbOverflows \/ Shutdown
  <2>1. PICK i \in 1..num, last \in 1..num, status \in Statuses, n \in Nat :
          Returns(i, status, n, last)
    BY <1>1, <1>2, KernelReturns
  <2> QED
    BY <2>1, ReturnsData
<1>3. ASSUME NEW t \in Threads, DiscardUrb(t) PROVE DataInv'
  <2>1. /\ \/ UNCHANGED <<urbs, done, sent>>
           \/ \E n \in Nat : Returns(walk[t].k, "cancelled", n, walk[t].k)
        /\ UNCHANGED <<job, priv, alive, reapAfter, link, transferred, buf, cur, pc>>
    BY <1>1, <1>3, DiscardReturns
  <2>2. CASE UNCHANGED <<urbs, done, sent>>
    <3>1. Handled' = Handled
      BY <2>1, <2>2 DEF Handled, job, priv
    <3> QED
      BY <1>1, <2>1, <2>2, <3>1, StillKeeps DEF job, priv
  <2>3. ASSUME NEW n \in Nat, Returns(walk[t].k, "cancelled", n, walk[t].k) PROVE DataInv'
    BY <2>3, ReturnsData
  <2> QED
    BY <2>1, <2>2, <2>3
<1> QED
  BY <1>2, <1>3

\* Reaping moves the head of the chain into the URB that is handled.
LEMMA ReapData ==
  ASSUME Ground, UrbInv, DataInv, Reap
  PROVE  DataInv'
<1> USE DEF job
<1>1. /\ cur = 0 /\ Len(done) \in Nat \ {0}
      /\ cur' = done[1] /\ cur' \in 1..num /\ urbs[cur'].st = "done"
      /\ Len(done') = Len(done) - 1
      /\ \A k \in 1..Len(done') : /\ k + 1 \in 1..Len(done) /\ done'[k] = done[k + 1]
                                  /\ done'[k] \in 1..num
      /\ urbs'[cur'].st = "reaped"
      /\ \A j \in 1..num : /\ urbs'[j].cells = urbs[j].cells
                           /\ j # cur' => urbs'[j].st = urbs[j].st
      /\ UNCHANGED <<kind, mode, length, num, offset, sent, reapAfter, link, transferred>>
  BY ReapMoves
<1>2. num \in Nat /\ DoneInv
  BY DEF Ground, Types, UrbInv
<1>3. SizeInv'
  <2>1. \A i \in 1..num : Size(i)' = Size(i)
    BY <1>1 DEF Size, Start
  <2>2. ASSUME NEW i \in 1..num
        PROVE  /\ Len(urbs'[i].cells) <= Size(i)
               /\ urbs'[i].st \in {"none", "queued"} => urbs'[i].cells = <<>>
               /\ kind = "iso" /\ urbs'[i].st \in {"done", "reaped"} =>
                    Len(urbs'[i].cells) = Size(i)
    <3>1. CASE i = cur'
      BY <1>1, <3>1 DEF DataInv, SizeInv
    <3>2. CASE i # cur'
      BY <1>1, <3>2 DEF DataInv, SizeInv
    <3> QED
      BY <3>1, <3>2
  <2>3. sent \in Nat
    BY DEF Ground
  <2> QED
    BY <1>1, <2>1, <2>2, <2>3 DEF SizeInv
<1>4. SentInv'
  <2>1. \A i \in 1..num : Start(i)' = Start(i)
    BY <1>1 DEF Start
  <2>2. \A i \in 1..num : urbs'[i].st \in {"none", "queued"} => urbs[i].st \in {"none", "queued"}
    BY <1>1
  <2> QED
    BY <1>1, <2>1, <2>2 DEF DataInv, SentInv
<1>5. DOMAIN buf' = DOMAIN buf
  BY DEF Reap, Place
<1>6. Carried = 0 /\ Carried' = Len(urbs[done[1]].cells)
  BY <1>1 DEF Carried
<1>7. ChainInv'
  <2> SUFFICES ASSUME kind # "iso" PROVE \E pos \in [0..Len(done') -> 0..sent] : Adds(pos)'
    BY <1>1, <1>5 DEF DataInv, ChainInv
  <2>1. PICK pos \in [0..Len(done) -> 0..sent] : Adds(pos)
    BY DEF DataInv, ChainInv
  <2>2. /\ pos[0] = transferred + Carried
        /\ \A k \in 1..Len(done) : pos[k] = pos[k - 1] + Len(urbs[done[k]].cells)
        /\ link = "watched" \/ reapAfter => pos[Len(done)] = sent
        /\ \A k \in 1..Len(done) : Carries(done[k], pos[k - 1])
    BY <2>1 DEF Adds
  <2>3. \A k \in 0..Len(done') : k + 1 \in 0..Len(done) /\ pos[k + 1] \in 0..sent
    BY <1>1, <2>1
  <2>4. PICK p \in [0..Len(done') -> 0..sent] : \A k \in 0..Len(done') : p[k] = pos[k + 1]
    <3> DEFINE q == [k \in 0..Len(done') |-> pos[k + 1]]
    <3>1. q \in [0..Len(done') -> 0..sent] /\ \A k \in 0..Len(done') : q[k] = pos[k + 1]
      BY <2>3
    <3> QED
      BY <3>1
  <2>5. p[0] = transferred' + Carried'
    <3>1. 0 \in 0..Len(done') /\ 1 \in 1..Len(done) /\ 0 + 1 = 1 /\ 1 - 1 = 0
      BY <1>1
    <3>2. p[0] = pos[1] /\ pos[1] = pos[0] + Len(urbs[done[1]].cells)
      BY <2>2, <2>4, <3>1
    <3>3. transferred \in Nat
      BY DEF DataInv, ChainInv
    <3> QED
      BY <1>1, <1>6, <2>2, <3>2, <3>3
  <2>6. ASSUME NEW k \in 1..Len(done')
        PROVE  p[k] = p[k - 1] + Len(urbs'[done'[k]].cells) /\ Carries(done[k], p[k - 1])'
    <3>1. /\ k \in 0..Len(done') /\ k - 1 \in 0..Len(done') /\ k + 1 \in 1..Len(done)
          /\ (k - 1) + 1 = k /\ (k + 1) - 1 = k
      BY <1>1
    <3>2. p[k] = pos[k + 1] /\ p[k - 1] = pos[k]
      BY <2>4, <3>1
    <3>3. pos[k + 1] = pos[k] + Len(urbs[done[k + 1]].cells)
      BY <2>2, <3>1
    <3>4. urbs'[done'[k]].cells = urbs[done[k + 1]].cells
      BY <1>1
    <3>5. Carries(done[k + 1], p[k - 1]) /\ done'[k] = done[k + 1]
      <4>1. Carries(done[k + 1], pos[(k + 1) - 1])
        BY <2>2, <3>1
      <4> QED
        BY <1>1, <3>1, <3>2, <4>1
    <3>6. Carries(done[k], p[k - 1])'
      BY <1>1, <3>4, <3>5 DEF Carries, Start
    <3> QED
      BY <3>2, <3>3, <3>4, <3>6
  <2>7. link' = "watched" \/ reapAfter' => p[Len(done')] = sent'
    <3>1. Len(done') \in 0..Len(done') /\ Len(done') + 1 = Len(done)
      BY <1>1
    <3> QED
      BY <1>1, <2>2, <2>4, <3>1
  <2>8. Adds(p)'
    BY <2>5, <2>6, <2>7 DEF Adds
  <2> QED
    BY <2>8
<1>8. SlotInv'
  <2>1. Handled' = Handled
    <3>1. \A j \in 1..num : j \in Handled => urbs'[j].st = "reaped" /\ j # cur'
      BY <1>1 DEF Handled
    <3>2. \A j \in 1..num : urbs'[j].st = "reaped" /\ j # cur' => j \in Handled
      BY <1>1 DEF Handled
    <3> QED
      BY <1>1, <3>1, <3>2 DEF Handled
  <2>2. Size(num)' = Size(num)
    BY <1>1 DEF Size, Start
  <2> QED
    BY <1>1, <2>1, <2>2 DEF DataInv, SlotInv, Slots
<1> QED
  BY <1>3, <1>4, <1>7, <1>8 DEF DataInv

LEMMA Distribute ==
  ASSUME NEW a \in Nat, NEW b \in Nat
  PROVE  a * (b + 1) = a * b + a /\ a * b \in Nat
OBVIOUS

\* One more URB handled fills as many slots as it has packets.
LEMMA SlotsGrow ==
  ASSUME JobInv, num \in Nat, kind = "iso", cur \in 1..num,
         UNCHANGED <<kind, mode, length, num>>, Handled' = Handled \cup {cur}
  PROVE  Slots' = Slots + Size(cur)
<1> DEFINE C == Cardinality(Handled \ {num})
<1>1. cur \notin Handled
  BY DEF Handled
<1>2. IsFiniteSet(Handled) /\ IsFiniteSet(Handled \ {num}) /\ C \in Nat /\ Chunk \in Nat
  <2>1. IsFiniteSet(Handled)
    BY HandledFinite
  <2> QED
    BY <2>1, FS_RemoveElement, FS_CardinalityType, UsbTransferAssumption
<1>3. Size(num)' = Size(num) /\ Size(cur) \in Nat /\ Size(num) \in Nat /\ Chunk * C \in Nat
  <2>1. num \in 1..num
    OBVIOUS
  <2>2. Size(cur) \in Nat /\ Size(num) \in Nat
    BY <2>1, SizeIs
  <2>3. Chunk * C \in Nat
    <3> HIDE DEF C
    <3> QED
      BY <1>2, Distribute
  <2> QED
    BY <2>2, <2>3 DEF Size, Start
<1>4. Slots = Chunk * C + (IF num \in Handled THEN Size(num) ELSE 0)
  BY DEF Slots
<1>5. Slots' = Chunk * Cardinality((Handled \cup {cur}) \ {num})
               + (IF num \in Handled \cup {cur} THEN Size(num) ELSE 0)
  BY <1>3 DEF Slots
<1>6. CASE cur = num
  <2>1. (Handled \cup {cur}) \ {num} = Handled \ {num} /\ num \in Handled \cup {cur} /\ num \notin Handled
    BY <1>1, <1>6
  <2>2. Slots' = Chunk * C + Size(cur) /\ Slots = Chunk * C + 0
    BY <1>4, <1>5, <1>6, <2>1
  <2> HIDE DEF C
  <2> QED
    BY <1>3, <2>2
<1>7. CASE cur # num
  <2>1. (Handled \cup {cur}) \ {num} = (Handled \ {num}) \cup {cur}
    BY <1>7
  <2>2. Cardinality((Handled \ {num}) \cup {cur}) = C + 1
    BY <1>1, <1>2, FS_AddElement
  <2>3. Size(cur) = Chunk
    BY <1>7 DEF Size, PerUrb
  <2>4. num \in Handled \cup {cur} <=> num \in Handled
    BY <1>7
  <2>5. Slots' = Chunk * (C + 1) + (IF num \in Handled THEN Size(num) ELSE 0)
    BY <1>5, <2>1, <2>2, <2>4
  <2> HIDE DEF C
  <2>6. Chunk * (C + 1) = Chunk * C + Chunk
    BY <1>2, Distribute
  <2> QED
    BY <1>2, <1>3, <1>4, <2>3, <2>5, <2>6
<1> QED
  BY <1>6, <1>7

LEMMA HandleData ==
  ASSUME Ground, UrbInv, DataInv, HandleSteps
  PROVE  DataInv'
<1>1. /\ num \in Nat /\ JobInv /\ DoneInv /\ Types /\ PlacesInv /\ LockInv /\ PhaseInv
  BY DEF Ground, Types, UrbInv, ControlInv
<1>2. /\ UNCHANGED <<kind, mode, length, link, done, urbs, num>> /\ cur' = 0
      /\ pc["event"] = "handle"
  <2>1. /\ UNCHANGED <<flags, told, flock, link, done, urbs, job, num>> /\ cur' = 0
        /\ pc["event"] = "handle"
    BY <1>1, HandleMoves DEF HandleSteps
  <2> QED
    BY <2>1 DEF job
<1>3. sent' = sent /\ reapAfter' = reapAfter
  BY DEF HandleSteps, HandleAbnormal, HandleBulk, HandleIso, HandleControl,
     HandledUnchanged, kernel
<1>4. cur \in 1..num /\ urbs[cur].st = "reaped"
  BY <1>1, <1>2 DEF DoneInv
<1>5. /\ DOMAIN buf' = DOMAIN buf
      /\ kind = "iso" => transferred' = transferred /\ offset' = offset + Len(urbs[cur].cells)
      /\ kind # "iso" => transferred' = transferred + Len(urbs[cur].cells) /\ offset' = offset
  <2>1. CASE HandleAbnormal
    BY <2>1 DEF HandleAbnormal, Surplus, Place
  <2>2. CASE HandleBulk
    BY <2>2 DEF HandleBulk
  <2>3. CASE HandleIso
    BY <2>3 DEF HandleIso, Place
  <2>4. CASE HandleControl
    BY <2>4 DEF HandleControl
  <2> QED
    BY <2>1, <2>2, <2>3, <2>4 DEF HandleSteps
<1>6. SizeInv' /\ SentInv'
  <2>1. \A i \in 1..num : Size(i)' = Size(i) /\ Start(i)' = Start(i)
    BY <1>2 DEF Size, Start
  <2> QED
    BY <1>2, <1>3, <2>1 DEF DataInv, SizeInv, SentInv
<1>7. Carried = Len(urbs[cur].cells) /\ Carried' = 0 /\ Carried \in Nat
  <2>1. urbs[cur].cells \in Seq(Nat)
    BY <1>1, <1>4 DEF DoneInv, Urbs
  <2>2. Len(urbs[cur].cells) \in Nat
    BY <2>1
  <2> QED
    BY <1>2, <1>4, <2>2 DEF Carried
<1>8. ChainInv'
  <2>1. transferred \in Nat /\ DOMAIN buf \in {{}, 1..length}
    BY DEF DataInv, ChainInv
  <2>2. CASE kind = "iso"
    BY <1>2, <1>5, <2>1, <2>2 DEF DataInv, ChainInv
  <2>3. CASE kind # "iso"
    <3>1. PICK pos \in [0..Len(done) -> 0..sent] : Adds(pos)
      BY <2>3 DEF DataInv, ChainInv
    <3>2. transferred' + Carried' = transferred + Carried /\ transferred' \in Nat
      BY <1>5, <1>7, <2>1, <2>3
    <3>4. \A k \in 1..Len(done') : Carries(done[k], pos[k - 1])'
      BY <1>2, <3>1 DEF Adds, Carries, Start
    <3>3. Adds(pos)'
      BY <1>2, <1>3, <3>1, <3>2, <3>4 DEF Adds
    <3> QED
      BY <1>2, <1>3, <1>5, <2>1, <2>3, <3>2, <3>3 DEF ChainInv
  <2> QED
    BY <2>2, <2>3
<1>9. SlotInv'
  <2>1. CASE kind = "iso"
    <3>1. Handled' = Handled \cup {cur}
      BY <1>2, <1>4 DEF Handled
    <3>2. Slots' = Slots + Size(cur)
      BY <1>1, <1>2, <1>4, <2>1, <3>1, SlotsGrow
    <3>3. Len(urbs[cur].cells) = Size(cur)
      BY <1>4, <2>1 DEF DataInv, SizeInv
    <3> QED
      BY <1>2, <1>5, <2>1, <3>2, <3>3 DEF DataInv, SlotInv
  <2>2. CASE kind # "iso"
    BY <1>2, <1>5, <2>2 DEF DataInv, SlotInv
  <2> QED
    BY <2>1, <2>2
<1> QED
  BY <1>6, <1>8, <1>9 DEF DataInv

LEMMA DataStep == Ground /\ UrbInv /\ DataInv /\ [Next]_vars => DataInv'
<1> SUFFICES ASSUME Ground, UrbInv, DataInv, [Next]_vars PROVE DataInv'
  OBVIOUS
<1>1. CASE UNCHANGED vars
  <2>1. /\ UNCHANGED <<kind, mode, length, num, sent, transferred, offset, cur, urbs, done, buf,
                       link, reapAfter>>
    BY <1>1 DEF vars, job, priv, kernel, data, threads
  <2>2. Handled' = Handled
    BY <2>1 DEF Handled
  <2>3. DoneInv /\ num \in Nat
    BY DEF UrbInv, Ground, Types
  <2> QED
    BY <2>1, <2>2, <2>3, StillKeeps
<1>2. CASE Quiet \/ SubmitRefused \/ SubmitStops \/ SubmitEndsEarly
  BY <1>2, QuietData
<1>3. CASE List
  BY <1>3, ListData
<1>4. CASE SubmitUrb
  BY <1>4, SubmitUrbData
<1>5. CASE \/ UrbDone \/ UrbShort \/ UrbFails \/ UrbOverflows \/ Shutdown
           \/ \E t \in Threads : DiscardUrb(t)
  BY <1>5, KernelData
<1>6. CASE Reap
  BY <1>6, ReapData
<1>7. CASE HandleSteps
  BY <1>7, HandleData
<1>8. CASE Hangup \/ ClearLost
  BY <1>8, LostData
<1> QED
  BY <1>1, <1>2, <1>3, <1>4, <1>5, <1>6, <1>7, <1>8
     DEF Next, App, Kernel, Event, Either, Quiet, HandleSteps

-----------------------------------------------------------------------------
(* Types. *)

PlainInv ==
  /\ timed \in BOOLEAN /\ broken \in BOOLEAN /\ alive \in BOOLEAN /\ reapAfter \in BOOLEAN
  /\ handled \in BOOLEAN /\ timedout \in BOOLEAN /\ cancelled \in BOOLEAN
  /\ action \in {"normal", "submit_failed", "cancelled", "early", "error"}
  /\ submits \in 0..MaxSubmits

IInv == Ground /\ PlainInv /\ UrbInv /\ DataInv

LEMMA TypesStep == Ground /\ UrbInv /\ [Next]_vars => Types'
<1> SUFFICES ASSUME Ground, UrbInv, [Next]_vars PROVE Types'
  OBVIOUS
<1> USE DEF Types, Threads, job, priv, kernel, flags, data, threads, ghosts
<1>1. Types /\ PlacesInv /\ LockInv /\ PhaseInv /\ DoneInv /\ JobInv
  BY DEF Ground, ControlInv, UrbInv
<1>2. ASSUME Submit PROVE Types'
  BY <1>1, <1>2 DEF Submit
<1>3. ASSUME List PROVE Types'
  <2>1. num' \in Nat
    <3>1. length' \in Nat /\ num' = UrbCount(kind', mode', length')
      BY <1>3, UsbTransferAssumption DEF List
    <3> QED
      BY <3>1, CountIs
  <2> QED
    BY <1>1, <1>3, <2>1 DEF List, Results
<1>4. ASSUME SubmitUrb \/ SubmitRefused \/ SubmitStops \/ SubmitEndsEarly \/ Unlist
      PROVE  Types'
  BY <1>1, <1>4 DEF SubmitUrb, SubmitRefused, SubmitStops, SubmitEndsEarly, Unlist, Accept
<1>5. ASSUME NEW t \in Threads, NEW why, NEW next, BeginCancel(t, why, next)
      PROVE  Types'
  <2>1. cancelling' \in BOOLEAN
    BY <1>1, <1>5 DEF BeginCancel
  <2> QED
    BY <1>1, <1>5, <2>1 DEF BeginCancel
<1>6. ASSUME Cancel \/ \E t \in Threads : Expire(t) PROVE Types'
  BY <1>5, <1>6 DEF Cancel, Expire
<1>7. ASSUME UrbDone \/ UrbShort \/ UrbFails \/ UrbOverflows \/ Unplug \/ Shutdown
      PROVE  Types'
  <2>1. ASSUME NEW status, NEW n, Finish(status, n) PROVE Types'
    <3>1. broken' \in BOOLEAN
      BY <1>1, <2>1 DEF Finish, Ends
    <3> QED
      BY <1>1, <2>1, <3>1 DEF Finish
  <2>2. CASE Unplug \/ Shutdown
    BY <1>1, <2>2 DEF Unplug, Shutdown
  <2> QED
    BY <1>7, <2>1, <2>2 DEF UrbDone, UrbShort, UrbFails, UrbOverflows
<1>8. ASSUME NEW t \in Threads, DiscardUrb(t) \/ TimerFires(t) \/ Mark(t)
      PROVE  Types'
  BY <1>1, <1>8 DEF DiscardUrb, TimerFires, Mark, Cancelled
<1>9. ASSUME NEW t \in Threads, Walked(t) PROVE Types'
  BY <1>1, <1>9 DEF Walked, Accept
<1>10. ASSUME Reap \/ Why \/ Remove \/ Settle \/ Hangup \/ FindLost \/ ClearLost
       PROVE  Types'
  BY <1>1, <1>10 DEF Reap, Why, Remove, Settle, Hangup, FindLost, ClearLost, Results
<1>11. ASSUME Call PROVE Types'
  <2>1. result \in Results
    BY <1>1, <1>11 DEF Call, At, PhaseInv
  <2> QED
    BY <1>1, <1>11, <2>1 DEF Call, Results
<1>12. ASSUME HandleSteps PROVE Types'
  <2>1. UNCHANGED <<flying, inflight, cancelling, told, link, num>>
    BY <1>12 DEF HandleSteps, HandleAbnormal, HandleBulk, HandleIso, HandleControl,
       HandledUnchanged
  <2>2. result' \in Results \cup {"none"}
    <3>1. result' = result \/ result' \in Results
      BY <1>1, <1>12, HandleMoves DEF HandleSteps
    <3> QED
      BY <1>1, <3>1
  <2>3. has' = FALSE \/ has' = has
    BY <1>12 DEF HandleSteps, HandleAbnormal, HandleBulk, HandleIso, HandleControl, Over, Wait,
                 DiscardRest
  <2>4. reapStatus' = reapStatus \/ reapStatus' \in Results
    <3>1. CASE HandleAbnormal
      BY <3>1 DEF HandleAbnormal, Results
    <3>2. CASE HandleBulk
      BY <3>2 DEF HandleBulk, Results
    <3>3. CASE HandleIso
      BY <3>3 DEF HandleIso
    <3>4. CASE HandleControl
      BY <3>4 DEF HandleControl
    <3> QED
      BY <1>12, <3>1, <3>2, <3>3, <3>4 DEF HandleSteps
  <2> QED
    BY <1>1, <2>1, <2>2, <2>3, <2>4
<1>13. CASE UNCHANGED vars
  BY <1>1, <1>13 DEF vars
<1> QED
  BY <1>2, <1>3, <1>4, <1>6, <1>7, <1>8, <1>9, <1>10, <1>11, <1>12, <1>13
     DEF Next, App, Kernel, Event, Either, HandleSteps

LEMMA PlainStep == Ground /\ UrbInv /\ PlainInv /\ [Next]_vars => PlainInv'
<1> SUFFICES ASSUME Ground, UrbInv, PlainInv, [Next]_vars PROVE PlainInv'
  OBVIOUS
<1> USE DEF PlainInv, Threads, job, priv, kernel, flags, data, threads, ghosts
<1>1. Types /\ PlacesInv /\ LockInv /\ PhaseInv /\ DoneInv /\ JobInv
  BY DEF Ground, ControlInv, UrbInv
<1>2. ASSUME Submit PROVE PlainInv'
  <2>1. submits' \in 0..MaxSubmits
    BY <1>1, <1>2, UsbTransferAssumption DEF Submit
  <2> QED
    BY <1>1, <1>2, <2>1 DEF Submit
<1>3. ASSUME List PROVE PlainInv'
  BY <1>1, <1>3 DEF List
<1>4. ASSUME SubmitUrb \/ SubmitRefused \/ SubmitStops \/ SubmitEndsEarly \/ Unlist
      PROVE  PlainInv'
  BY <1>1, <1>4 DEF SubmitUrb, SubmitRefused, SubmitStops, SubmitEndsEarly, Unlist, Accept
<1>5. ASSUME NEW t \in Threads, NEW why, NEW next, BeginCancel(t, why, next)
      PROVE  PlainInv'
  BY <1>1, <1>5 DEF BeginCancel
<1>6. ASSUME Cancel \/ \E t \in Threads : Expire(t) PROVE PlainInv'
  BY <1>5, <1>6 DEF Cancel, Expire
<1>7. ASSUME UrbDone \/ UrbShort \/ UrbFails \/ UrbOverflows \/ Unplug \/ Shutdown
      PROVE  PlainInv'
  <2>1. ASSUME NEW status, NEW n, Finish(status, n) PROVE PlainInv'
    <3>1. broken' \in BOOLEAN
      BY <1>1, <2>1 DEF Finish, Ends
    <3> QED
      BY <1>1, <2>1, <3>1 DEF Finish
  <2>2. CASE Unplug \/ Shutdown
    BY <1>1, <2>2 DEF Unplug, Shutdown
  <2> QED
    BY <1>7, <2>1, <2>2 DEF UrbDone, UrbShort, UrbFails, UrbOverflows
<1>8. ASSUME NEW t \in Threads, DiscardUrb(t) \/ TimerFires(t) \/ Mark(t)
      PROVE  PlainInv'
  BY <1>1, <1>8 DEF DiscardUrb, TimerFires, Mark, Cancelled
<1>9. ASSUME NEW t \in Threads, Walked(t) PROVE PlainInv'
  BY <1>1, <1>9 DEF Walked, Accept
<1>10. ASSUME Reap \/ Why \/ Remove \/ Settle \/ Call PROVE PlainInv'
  <2>1. CASE Reap
    BY <2>1 DEF Reap
  <2>2. CASE Why
    BY <2>2 DEF Why
  <2>3. CASE Remove
    BY <2>3 DEF Remove
  <2>4. CASE Settle
    BY <2>4 DEF Settle
  <2>5. CASE Call
    BY <2>5 DEF Call
  <2> QED
    BY <1>10, <2>1, <2>2, <2>3, <2>4, <2>5
<1>11. ASSUME Hangup \/ FindLost \/ ClearLost PROVE PlainInv'
  BY <1>1, <1>11 DEF Hangup, FindLost, ClearLost
<1>12. ASSUME HandleSteps PROVE PlainInv'
  <2>1. UNCHANGED <<timed, broken, alive, reapAfter, handled, timedout, cancelled, submits>>
    BY <1>12 DEF HandleSteps, HandleAbnormal, HandleBulk, HandleIso, HandleControl,
       HandledUnchanged
  <2>2. action' \in {action, "error", "early"}
    BY <1>12 DEF HandleSteps, HandleAbnormal, HandleBulk, HandleIso, HandleControl
  <2> QED
    BY <1>1, <2>1, <2>2
<1>13. CASE UNCHANGED vars
  BY <1>1, <1>13 DEF vars
<1> QED
  BY <1>2, <1>3, <1>4, <1>6, <1>7, <1>8, <1>9, <1>10, <1>11, <1>12, <1>13
     DEF Next, App, Kernel, Event, Either, HandleSteps

LEMMA InitInv == Init => IInv
<1> SUFFICES ASSUME Init PROVE IInv
  OBVIOUS
<1> USE DEF Init
<1>1. Queued = {} /\ Handled = {} /\ Unsent = {}
  BY DEF Queued, Handled, Unsent, NoUrbs
<1>2. PlacesInv
  <2>1. NoWalk \in Walks
    BY DEF NoWalk, Walks
  <2> QED
    BY <2>1 DEF PlacesInv, AppPlaces, EventPlaces, Threads
<1>3. LockInv
  BY DEF LockInv, HoldsList, HoldsTransfer, Threads
<1>4. PhaseInv
  BY DEF PhaseInv, Submission
<1>5. Types /\ PlainInv /\ sent \in Nat
  <2>1. Types
    BY DEF Types, Results
  <2>2. submits \in 0..MaxSubmits
    BY UsbTransferAssumption
  <2>3. /\ timed \in BOOLEAN /\ broken \in BOOLEAN /\ alive \in BOOLEAN /\ reapAfter \in BOOLEAN
        /\ handled \in BOOLEAN /\ timedout \in BOOLEAN /\ cancelled \in BOOLEAN
    OBVIOUS
  <2>4. action \in {"normal", "submit_failed", "cancelled", "early", "error"}
    OBVIOUS
  <2> QED
    BY <2>1, <2>2, <2>3, <2>4 DEF PlainInv
<1>6. JobInv
  BY DEF JobInv
<1>7. DoneInv
  <2>1. urbs \in [1..num -> Urbs]
    BY DEF NoUrbs
  <2>2. <<>> \in Seq(1..num) /\ Len(<<>>) = 0
    OBVIOUS
  <2> QED
    BY <1>1, <2>1, <2>2 DEF DoneInv
<1>8. OrderInv /\ OverflowInv
  BY <1>1 DEF OrderInv, RowInv, WalkInv, OverflowInv, Threads
<1>9. CountInv
  BY DEF CountInv
<1>10. SizeInv /\ SentInv
  BY DEF SizeInv, SentInv
<1>11. ChainInv
  <2> DEFINE z == [k \in 0..0 |-> 0]
  <2>1. z \in [0..Len(done) -> 0..sent] /\ z[0] = 0 /\ Len(done) = 0
    OBVIOUS
  <2> HIDE DEF z
  <2>2. Adds(z)
    BY <2>1 DEF Adds, Carried
  <2> QED
    BY <2>1, <2>2 DEF ChainInv
<1>12. SlotInv
  BY DEF SlotInv
<1> QED
  BY <1>2, <1>3, <1>4, <1>5, <1>6, <1>7, <1>8, <1>9, <1>10, <1>11, <1>12
     DEF IInv, Ground, ControlInv, UrbInv, DataInv

LEMMA NextInv == IInv /\ [Next]_vars => IInv'
<1> SUFFICES ASSUME IInv, [Next]_vars PROVE IInv'
  OBVIOUS
<1>1. Ground /\ PlainInv /\ UrbInv /\ DataInv
  BY DEF IInv
<1>2. ControlInv'
  BY <1>1, ControlStep DEF Ground, UrbInv
<1>3. UrbInv'
  BY <1>1, UrbStep
<1>4. DataInv'
  BY <1>1, DataStep
<1>5. Types' /\ PlainInv'
  BY <1>1, TypesStep, PlainStep
<1>6. sent' \in Nat
  BY <1>4 DEF DataInv, SizeInv
<1> QED
  BY <1>2, <1>3, <1>4, <1>5, <1>6 DEF IInv, Ground

\* The inductive invariant.
THEOREM Invariant == Spec => []IInv
<1>1. Init => IInv
  BY InitInv
<1>2. IInv /\ [Next]_vars => IInv'
  BY NextInv
<1> QED
  BY <1>1, <1>2, PTL DEF Spec

-----------------------------------------------------------------------------
(* What it says. *)

\* The slots filled are never more than the transfer has.
LEMMA SlotsFit ==
  ASSUME JobInv, num \in Nat, kind = "iso"
  PROVE  Slots \in 0..length
<1> DEFINE C == Cardinality(Handled \ {num})
<1>1. length \in Nat /\ Chunk \in Nat \ {0}
  BY PerUrbIs, UsbTransferAssumption
<1>2. Slots = Chunk * C + (IF num \in Handled THEN Size(num) ELSE 0)
  BY DEF Slots
<1>3. CASE num = 0
  <2>1. Handled = {} /\ Handled \ {num} = {}
    BY <1>3 DEF Handled
  <2>2. C = 0
    BY <2>1, FS_EmptySet
  <2>3. Slots = Chunk * 0 + 0
    BY <1>2, <2>1, <2>2
  <2> QED
    BY <1>1, <2>3
<1>4. CASE num # 0
  <2>1. num \in 1..num /\ num \in Nat \ {0} /\ num - 1 \in Nat
    BY <1>4
  <2>2. /\ Start(num) \in Nat /\ Size(num) \in Nat /\ Start(num) + Size(num) = length
    BY <2>1, SizeIs
  <2>3. Start(num) = (num - 1) * Chunk
    BY DEF Start, PerUrb
  <2>4. C \in Nat /\ C <= num - 1
    <3>1. Handled \ {num} \in SUBSET (1..(num - 1))
      BY <2>1 DEF Handled
    <3>2. IsFiniteSet(1..(num - 1)) /\ Cardinality(1..(num - 1)) = num - 1
      <4>1. 1 \in Int /\ num - 1 \in Int /\ (IF 1 > num - 1 THEN 0 ELSE (num - 1) - 1 + 1) = num - 1
        BY <2>1
      <4> QED
        BY <4>1, FS_Interval
    <3>3. IsFiniteSet(Handled \ {num}) /\ Cardinality(Handled \ {num}) <= num - 1
      BY <3>1, <3>2, FS_Subset
    <3> QED
      BY <3>3, FS_CardinalityType
  <2> HIDE DEF C
  <2>5. C * Chunk \in Nat /\ C * Chunk <= (num - 1) * Chunk
    <3>1. CASE C = num - 1
      BY <1>1, <2>1, <2>2, <2>3, <3>1
    <3>2. CASE C < num - 1
      BY <1>1, <2>1, <2>2, <2>3, <2>4, <3>2, Multiples
    <3> QED
      BY <2>1, <2>4, <3>1, <3>2
  <2>6. Chunk * C = C * Chunk
    BY <1>1, <2>4
  <2> DEFINE m == C * Chunk
  <2>7. m \in Nat /\ m <= Start(num) /\ Slots = m + (IF num \in Handled THEN Size(num) ELSE 0)
    BY <1>2, <2>3, <2>5, <2>6
  <2> HIDE DEF m
  <2> QED
    BY <1>1, <2>2, <2>7
<1> QED
  BY <1>3, <1>4

LEMMA TypesFollow == IInv => TypeOK
<1> SUFFICES ASSUME IInv PROVE TypeOK
  OBVIOUS
<1>1. /\ Types /\ PlainInv /\ JobInv /\ DoneInv /\ CountInv /\ LockInv /\ num \in Nat /\ sent \in Nat
      /\ SizeInv /\ SentInv /\ ChainInv /\ SlotInv
  BY DEF IInv, Ground, ControlInv, UrbInv, DataInv, Types
<1>2. length \in Nat
  BY <1>1, PerUrbIs
<1>3. transferred \in 0..length
  <2>1. CASE kind = "iso"
    BY <1>1, <1>2, <2>1 DEF ChainInv
  <2>2. CASE kind # "iso"
    <3>1. PICK pos \in [0..Len(done) -> 0..sent] : Adds(pos)
      BY <1>1, <2>2 DEF ChainInv
    <3>2. Len(done) \in Nat /\ pos[0] \in 0..sent /\ pos[0] = transferred + Carried
      BY <1>1, <3>1 DEF DoneInv, Adds
    <3>3. Carried \in Nat
      <4>1. cur # 0 => urbs[cur].cells \in Seq(Nat)
        BY <1>1 DEF DoneInv, Urbs
      <4>2. cur # 0 => Len(urbs[cur].cells) \in Nat
        BY <4>1
      <4> QED
        BY <4>2 DEF Carried
    <3>4. transferred \in Nat /\ sent <= length
      BY <1>1 DEF ChainInv, SentInv
    <3> QED
      BY <1>1, <1>2, <3>2, <3>3, <3>4
  <2> QED
    BY <2>1, <2>2
<1>4. offset \in 0..length
  BY <1>1, <1>2, SlotsFit DEF SlotInv
<1>5. \A i \in 1..num : /\ urbs[i].st \in {"none", "queued", "done", "reaped"}
                        /\ urbs[i].status \in Statuses
                        /\ Len(urbs[i].cells) <= Size(i)
  <2>1. \A i \in 1..num : urbs[i] \in Urbs
    BY <1>1 DEF DoneInv
  <2> QED
    BY <1>1, <2>1 DEF Urbs, SizeInv
<1>6. DOMAIN urbs = 1..num /\ \A k \in DOMAIN done : done[k] \in 1..num
  BY <1>1 DEF DoneInv
<1>7. DOMAIN buf \in {{}, 1..length} /\ retired \in 0..num /\ cur \in 0..num
  BY <1>1 DEF ChainInv, CountInv, DoneInv
<1>8. {flying, inflight, cancelling, handled, timedout, cancelled} \subseteq BOOLEAN
  BY <1>1 DEF Types, PlainInv
<1>9. /\ kind \in Kinds \cup {"control"} /\ mode \in Modes \cup {"whole"} /\ length \in Lengths \cup {0}
      /\ flock \in Threads \cup {"free"} /\ xlock \in Threads \cup {"free"}
  BY <1>1 DEF JobInv, LockInv
<1>10. /\ action \in {"normal", "submit_failed", "cancelled", "early", "error"}
       /\ reapStatus \in Results /\ link \in {"watched", "dropped", "over"}
       /\ result \in Results \cup {"none"}
       /\ told \in Results \cup {"none", "pending"} /\ submits \in 0..MaxSubmits
  BY <1>1 DEF Types, PlainInv
<1>11. /\ timed \in BOOLEAN /\ has \in BOOLEAN /\ broken \in BOOLEAN
       /\ alive \in BOOLEAN /\ reapAfter \in BOOLEAN
  BY <1>1 DEF Types, PlainInv
<1> QED
  BY <1>1, <1>3, <1>4, <1>5, <1>6, <1>7, <1>8, <1>9, <1>10, <1>11 DEF TypeOK

\* Every variable keeps its type and its bounds: no more cells are transferred
\* than the transfer has, no more packet slots are filled, and no more URBs
\* retired, whatever is cancelled, cut short or unplugged.
THEOREM TypeCorrect == Spec => []TypeOK
BY Invariant, TypesFollow, PTL

\* The URBs are freed only when the kernel can hand none of them back, and
\* what is being handled has not been freed.
THEOREM UrbsKept == Spec => []UrbsOwned
<1>1. IInv => UrbsOwned
  <2>1. IInv => /\ ~has => Queued = {} /\ done = <<>>
                /\ At("event", "handle") => has
    BY DEF IInv, Ground, ControlInv, PhaseInv, UrbInv, DoneInv, At
  <2> QED
    BY <2>1, TypesFollow DEF UrbsOwned
<1> QED
  BY <1>1, Invariant, PTL

\* The callback runs once for each submission that was accepted, and no
\* thread works on the transfer then.
THEOREM CallsAlone == Spec => []CalledAlone
<1>1. IInv => CalledAlone
  <2> SUFFICES ASSUME IInv, pc["event"] = "call"
               PROVE  /\ told = "pending" /\ ~flying /\ ~inflight /\ ~has
                      /\ pc["app"] = "idle" /\ xlock = "free" /\ flock = "free"
    BY DEF CalledAlone, At
  <2>1. PhaseInv /\ LockInv
    BY DEF IInv, Ground, ControlInv
  <2>2. told = "pending" /\ ~flying /\ ~inflight /\ ~has /\ pc["app"] = "idle"
    BY <2>1 DEF PhaseInv
  <2>3. xlock = "free" /\ flock = "free"
    BY <2>1, <2>2 DEF LockInv, HoldsList, HoldsTransfer, Threads
  <2> QED
    BY <2>2, <2>3
<1> QED
  BY <1>1, Invariant, PTL

-----------------------------------------------------------------------------
(* What became of the URBs, step by step. *)

\* Steps that change no status and no data.
LEMMA FateKeeps ==
  ASSUME UrbFateInv, DoneInv, num \in Nat,
         UNCHANGED <<kind, mode, length, num, sent>>, alive' => alive,
         \A i \in 1..num : /\ urbs'[i].cells = urbs[i].cells /\ urbs'[i].status = urbs[i].status
                           /\ urbs'[i].st = "done" => urbs[i].st = "done"
                           /\ urbs[i].st = "done" => urbs'[i].st = "done"
                           /\ urbs'[i].st = "reaped" => urbs[i].st = "reaped"
                           /\ urbs[i].st = "reaped" => urbs'[i].st = "reaped",
         cur' \in {0, cur}, broken' => broken,
         cur' # 0 => link' = "watched" \/ reapAfter',
         \/ done' = done /\ (link' = "watched" \/ reapAfter' => link = "watched" \/ reapAfter)
         \/ done' = <<>> /\ ~(link' = "watched" \/ reapAfter')
  PROVE  UrbFateInv'
<1>1. \A i \in 1..num : Size(i)' = Size(i) /\ Start(i)' = Start(i)
  BY DEF Size, Start
<1>2. \A i \in 1..num : /\ Returned(i)' => Returned(i)
                        /\ Returned(i) => Returned(i)'
                        /\ Laden(i)' => Laden(i)
                        /\ Laden(i) => Laden(i)'
                        /\ Full(i)' => Full(i)
                        /\ Full(i) => Full(i)'
  BY <1>1 DEF Returned, Laden, Full
<1>3. FateInv'
  BY <1>2 DEF UrbFateInv, FateInv
<1>4. KeptInv'
  BY DEF UrbFateInv, KeptInv
<1>5. /\ done \in Seq(1..num) /\ Len(done) \in Nat /\ (cur # 0 => cur \in 1..num)
      /\ \A k \in 1..Len(done) : done[k] \in 1..num
      /\ done' = done \/ (done' = <<>> /\ Len(done') = 0)
  BY DEF DoneInv
<1>6. LadenInv'
  <2> SUFFICES ASSUME kind # "iso" PROVE LadenInv'
    BY DEF LadenInv
  <2>1. \A i, j \in 1..num : j < i /\ Laden(i)' => Returned(j)' /\ urbs'[j].status \notin {"stall", "gone"}
    BY <1>2 DEF UrbFateInv, LadenInv
  <2>2. ASSUME NEW k \in 1..Len(done'), NEW l \in 1..Len(done'), k < l, Laden(done[k])'
        PROVE  done'[k] < done'[l]
    <3>1. done' = done /\ k \in 1..Len(done) /\ l \in 1..Len(done)
      BY <1>5, <2>2
    <3>2. Len(urbs'[done[k]].cells) > 0
      BY <2>2, <3>1 DEF Laden
    <3>3. Laden(done[k])
      BY <1>5, <3>1, <3>2 DEF Laden
    <3> QED
      BY <2>2, <3>1, <3>3 DEF UrbFateInv, LadenInv
  <2>3. ASSUME cur' # 0, Laden(cur)', NEW k \in 1..Len(done') PROVE cur' < done'[k]
    <3>1. done' = done /\ k \in 1..Len(done) /\ cur' = cur /\ cur # 0
      BY <1>5, <2>3
    <3>2. Len(urbs'[cur].cells) > 0
      BY <2>3, <3>1 DEF Laden
    <3>3. Laden(cur)
      BY <1>5, <3>1, <3>2 DEF Laden
    <3> QED
      BY <3>1, <3>3 DEF UrbFateInv, LadenInv
  <2> QED
    BY <2>1, <2>2, <2>3 DEF LadenInv
<1>7. AlignedInv'
  <2> SUFFICES ASSUME kind # "iso", NEW i \in 1..num, FullBelow(i)'
               PROVE  /\ ~Returned(i)' => sent = Start(i)
                      /\ Laden(i)' => urbs'[i].cells[1] = Start(i) + 1
    BY <1>1 DEF AlignedInv
  <2>1. FullBelow(i)
    BY <1>2 DEF FullBelow
  <2> QED
    BY <1>2, <2>1 DEF UrbFateInv, AlignedInv
<1> QED
  BY <1>3, <1>4, <1>6, <1>7 DEF UrbFateInv

LEMMA QuietFate ==
  ASSUME Ground, UrbInv, UrbFateInv,
         \/ Quiet \/ SubmitRefused \/ SubmitStops \/ SubmitEndsEarly \/ HandleSteps
         \/ Hangup \/ ClearLost
  PROVE  UrbFateInv'
<1> USE DEF job, priv, kernel, data, threads, flags
<1>1. DoneInv /\ num \in Nat /\ Types /\ PlacesInv /\ LockInv /\ PhaseInv
  BY DEF UrbInv, Ground, Types, ControlInv
<1>2. CASE Quiet \/ SubmitRefused \/ SubmitStops \/ SubmitEndsEarly
  <2>1. UNCHANGED <<kind, mode, length, num, sent, cur, urbs, done, broken>>
    BY <1>2 DEF Quiet, SubmitRefused, SubmitStops, SubmitEndsEarly, Submit, Unlist, Cancel, Why,
         Remove, Settle, Call, FindLost, Unplug, Walked, TimerFires, Expire, Mark, BeginCancel
  <2>2. /\ link' = "watched" \/ reapAfter' => link = "watched" \/ reapAfter
        /\ alive' => alive
        /\ cur' # 0 => link' = "watched" \/ reapAfter'
    <3>1. CASE Unplug
      BY <1>1, <3>1 DEF Unplug, DoneInv
    <3>2. CASE FindLost
      BY <1>1, <3>2 DEF FindLost, At, DoneInv
    <3>3. CASE ~Unplug /\ ~FindLost
      <4>1. UNCHANGED <<link, reapAfter, alive>>
        BY <1>2, <3>3 DEF Quiet, SubmitRefused, SubmitStops, SubmitEndsEarly, Submit, Unlist,
             Cancel, Why, Remove, Settle, Call, Walked, TimerFires, Expire, Mark, BeginCancel
      <4> QED
        BY <2>1, <4>1 DEF UrbFateInv, KeptInv
    <3> QED
      BY <3>1, <3>2, <3>3
  <2> QED
    BY <1>1, <2>1, <2>2, FateKeeps
<1>3. CASE HandleSteps
  <2>1. UNCHANGED <<kind, mode, length, num, urbs, done, link>> /\ cur' = 0
    BY <1>1, <1>3, HandleMoves DEF HandleSteps
  <2>2. UNCHANGED <<sent, broken, alive, reapAfter>>
    BY <1>3 DEF HandleSteps, HandleAbnormal, HandleBulk, HandleIso, HandleControl,
       HandledUnchanged
  <2> QED
    BY <1>1, <2>1, <2>2, FateKeeps
<1>4. CASE Hangup \/ ClearLost
  <2>1. UNCHANGED <<kind, mode, length, num, sent, cur, urbs, alive, reapAfter, broken>>
    BY <1>4 DEF Hangup, ClearLost
  <2>2. \/ done' = done /\ (link' = "watched" \/ reapAfter' => link = "watched" \/ reapAfter)
        \/ done' = <<>> /\ ~(link' = "watched" \/ reapAfter')
    BY <1>4 DEF Hangup, ClearLost
  <2>3. cur = 0
    BY <1>1, <1>4 DEF Hangup, ClearLost, At, DoneInv
  <2> QED
    BY <1>1, <2>1, <2>2, <2>3, FateKeeps
<1> QED
  BY <1>2, <1>3, <1>4

LEMMA SubmitUrbFate ==
  ASSUME Ground, UrbInv, UrbFateInv, SubmitUrb
  PROVE  UrbFateInv'
<1> DEFINE k == Submitting
<1>1. k \in 1..num /\ num \in Nat /\ urbs[k].st = "none"
  BY SubmittingIs DEF SubmitUrb, At
<1>2. /\ UNCHANGED <<kind, mode, length, num, sent, cur, done, link, reapAfter, alive, broken>>
      /\ urbs' = [urbs EXCEPT ![k].st = "queued"]
  BY DEF SubmitUrb, job, priv, data
<1>3. DoneInv /\ urbs \in [1..num -> Urbs] /\ urbs[k] \in Urbs
  BY <1>1 DEF UrbInv, DoneInv
<1>4. urbs' = [urbs EXCEPT ![k] = [urbs[k] EXCEPT !.st = "queued"]]
  BY <1>1, <1>2, <1>3
<1>5. /\ urbs'[k].st = "queued" /\ urbs'[k].cells = urbs[k].cells
      /\ urbs'[k].status = urbs[k].status
      /\ \A i \in 1..num : i # k => urbs'[i] = urbs[i]
  BY <1>1, <1>3, <1>4, UrbSet
<1> HIDE DEF k
<1>6. \A i \in 1..num :
        /\ urbs'[i].cells = urbs[i].cells /\ urbs'[i].status = urbs[i].status
        /\ urbs'[i].st = "done" => urbs[i].st = "done"
        /\ urbs[i].st = "done" => urbs'[i].st = "done"
        /\ urbs'[i].st = "reaped" => urbs[i].st = "reaped"
        /\ urbs[i].st = "reaped" => urbs'[i].st = "reaped"
  BY <1>1, <1>5
<1>7. cur' # 0 => link' = "watched" \/ reapAfter'
  BY <1>2 DEF UrbFateInv, KeptInv
<1> QED
  BY <1>1, <1>2, <1>3, <1>6, <1>7, FateKeeps

LEMMA ListFate ==
  ASSUME Ground, UrbInv, List
  PROVE  UrbFateInv'
<1> DEFINE p == PerUrb(kind', mode', length')
<1>1. done = <<>> /\ cur = 0 /\ num' = UrbCount(kind', mode', length') /\ length' \in Nat
  BY UsbTransferAssumption
     DEF List, Ground, ControlInv, PhaseInv, Submission, UrbInv, DoneInv, At
<1>2. /\ urbs' = [i \in 1..num' |-> [st |-> "none", status |-> "ok", cells |-> <<>>]]
      /\ sent' = 0 /\ done' = done /\ cur' = cur /\ ~broken'
  BY DEF List
<1>3. p \in Nat \ {0} /\ num' \in Nat \ {0}
  <2>1. p \in Nat \ {0}
    BY <1>1, UsbTransferAssumption DEF PerUrb
  <2> QED
    BY <1>1, <2>1, CountIs
<1>4. Len(<<>>) = 0
  OBVIOUS
<1>5. \A i \in 1..num' : urbs'[i].st = "none" /\ urbs'[i].status = "ok" /\ urbs'[i].cells = <<>>
  BY <1>2
<1>6. FateInv' /\ KeptInv'
  BY <1>1, <1>2, <1>5 DEF FateInv, KeptInv, Returned
<1>7. LadenInv'
  BY <1>1, <1>2, <1>4, <1>5 DEF LadenInv, Laden
<1>8. AlignedInv'
  <2> SUFFICES ASSUME NEW i \in 1..num', FullBelow(i)'
               PROVE  (~Returned(i)' => sent' = Start(i)') /\ ~Laden(i)'
    BY DEF AlignedInv
  <2>1. ~Laden(i)'
    BY <1>4, <1>5 DEF Laden
  <2>2. i = 1
    <3> SUFFICES ASSUME i # 1 PROVE FALSE
      OBVIOUS
    <3>1. 1 \in 1..num' /\ 1 < i /\ 1 < num'
      BY <1>3
    <3>2. Size(1)' = p
      BY <3>1 DEF Size
    <3>3. Len(urbs'[1].cells) = Size(1)'
      BY <3>1 DEF FullBelow, Full
    <3> HIDE DEF p
    <3> QED
      BY <1>3, <1>4, <1>5, <3>1, <3>2, <3>3
  <2>3. Start(i)' = 0
    <3>1. Start(i)' = (1 - 1) * p
      BY <2>2 DEF Start
    <3> HIDE DEF p
    <3> QED
      BY <1>3, <3>1
  <2> QED
    BY <1>2, <2>1, <2>3
<1> QED
  BY <1>6, <1>7, <1>8 DEF UrbFateInv

LEMMA ReapFate ==
  ASSUME Ground, UrbInv, UrbFateInv, Reap
  PROVE  UrbFateInv'
<1> USE DEF job
<1>1. /\ cur = 0 /\ Len(done) \in Nat \ {0}
      /\ cur' = done[1] /\ cur' \in 1..num /\ urbs[cur'].st = "done"
      /\ Len(done') = Len(done) - 1
      /\ \A k \in 1..Len(done') : /\ k + 1 \in 1..Len(done) /\ done'[k] = done[k + 1]
                                  /\ done'[k] \in 1..num /\ done'[k] # cur'
      /\ urbs'[cur'].st = "reaped"
      /\ \A j \in 1..num : /\ urbs'[j].cells = urbs[j].cells
                           /\ urbs'[j].status = urbs[j].status
                           /\ j # cur' => urbs'[j].st = urbs[j].st
      /\ UNCHANGED <<kind, mode, length, num, sent, reapAfter, link, alive, broken>>
  BY ReapMoves
<1>2. num \in Nat /\ DoneInv
  BY DEF Ground, Types, UrbInv
<1>3. \A i \in 1..num : Size(i)' = Size(i) /\ Start(i)' = Start(i)
  BY <1>1 DEF Size, Start
<1>4. \A i \in 1..num : /\ Returned(i)' => Returned(i)
                        /\ Returned(i) => Returned(i)'
                        /\ Laden(i)' => Laden(i)
                        /\ Laden(i) => Laden(i)'
                        /\ Full(i)' => Full(i)
                        /\ Full(i) => Full(i)'
  BY <1>1, <1>3 DEF Returned, Laden, Full
<1>5. FateInv'
  <2>1. ASSUME NEW i \in 1..num, urbs[i].status = "unlinked"
        PROVE  \E j \in 1..(i - 1) : urbs'[j].status \in {"short", "stall", "bus"}
    <3>1. PICK j \in 1..(i - 1) : urbs[j].status \in {"short", "stall", "bus"}
      BY <2>1 DEF UrbFateInv, FateInv
    <3>2. j \in 1..num
      BY <1>2
    <3> QED
      BY <1>1, <3>1, <3>2
  <2>2. ASSUME NEW i \in 1..num
        PROVE  /\ ~Returned(i)' => urbs'[i].status = "ok"
               /\ urbs'[i].status = "short" => ~Full(i)'
               /\ Returned(i)' /\ urbs'[i].status = "ok" => Full(i)'
               /\ urbs'[i].status = "gone" => ~alive
    BY <1>1, <1>4 DEF UrbFateInv, FateInv
  <2> QED
    BY <1>1, <2>1, <2>2 DEF FateInv
<1>6. KeptInv'
  <2>1. link = "watched" \/ reapAfter
    BY <1>2 DEF Reap, DoneInv
  <2>2. ASSUME NEW i \in 1..num, urbs'[i].st = "done" PROVE \E k \in 1..Len(done') : done'[k] = i
    <3>1. i # cur' /\ urbs[i].st = "done"
      BY <1>1, <2>2
    <3>2. PICK k \in 1..Len(done) : done[k] = i
      BY <2>1, <3>1 DEF UrbFateInv, KeptInv
    <3>3. k # 1
      BY <1>1, <3>1, <3>2
    <3>4. k - 1 \in 1..Len(done') /\ (k - 1) + 1 = k
      BY <1>1, <3>2, <3>3
    <3>5. done'[k - 1] = i
      BY <1>1, <3>2, <3>4
    <3> QED
      BY <3>4, <3>5
  <2> QED
    BY <1>1, <2>1, <2>2 DEF UrbFateInv, KeptInv
<1>7. LadenInv'
  <2> SUFFICES ASSUME kind # "iso" PROVE LadenInv'
    BY <1>1 DEF LadenInv
  <2>1. \A i, j \in 1..num : j < i /\ Laden(i)' => Returned(j)' /\ urbs'[j].status \notin {"stall", "gone"}
    BY <1>1, <1>4 DEF UrbFateInv, LadenInv
  <2>2. ASSUME NEW k \in 1..Len(done'), NEW l \in 1..Len(done'), k < l, Laden(done[k])'
        PROVE  done'[k] < done'[l]
    <3>1. /\ k + 1 \in 1..Len(done) /\ l + 1 \in 1..Len(done) /\ k + 1 < l + 1
          /\ done'[k] = done[k + 1] /\ done'[l] = done[l + 1] /\ done'[k] \in 1..num
      BY <1>1, <2>2
    <3>2. Len(urbs'[done[k + 1]].cells) > 0
      BY <2>2, <3>1 DEF Laden
    <3>3. Laden(done[k + 1])
      BY <1>1, <3>1, <3>2 DEF Laden
    <3> QED
      BY <3>1, <3>3 DEF UrbFateInv, LadenInv
  <2>3. ASSUME Laden(cur)', NEW k \in 1..Len(done') PROVE cur' < done'[k]
    <3>1. /\ k + 1 \in 1..Len(done) /\ 1 \in 1..Len(done) /\ 1 < k + 1
          /\ done'[k] = done[k + 1]
      BY <1>1, <2>3
    <3>2. Len(urbs'[done[1]].cells) > 0
      BY <1>1, <2>3 DEF Laden
    <3>3. Laden(done[1])
      BY <1>1, <3>2 DEF Laden
    <3> QED
      BY <1>1, <3>1, <3>3 DEF UrbFateInv, LadenInv
  <2> QED
    BY <1>1, <2>1, <2>2, <2>3 DEF LadenInv
<1>8. AlignedInv'
  <2> SUFFICES ASSUME kind # "iso", NEW i \in 1..num, FullBelow(i)'
               PROVE  /\ ~Returned(i)' => sent = Start(i)
                      /\ Laden(i)' => urbs'[i].cells[1] = Start(i) + 1
    BY <1>1, <1>3 DEF AlignedInv
  <2>1. FullBelow(i)
    BY <1>1, <1>4 DEF FullBelow
  <2> QED
    BY <1>1, <1>4, <2>1 DEF UrbFateInv, AlignedInv
<1> QED
  BY <1>5, <1>6, <1>7, <1>8 DEF UrbFateInv

\* What the kernel hands back.
LEMMA ReturnsFate ==
  ASSUME Ground, UrbInv, DataInv, UrbFateInv, NEW i, NEW last, NEW status, NEW n \in Nat,
         Returns(i, status, n, last), broken' => broken \/ kind = "bulk"
  PROVE  UrbFateInv'
<1> USE DEF job, priv
<1>0. /\ num \in Nat /\ sent \in Nat /\ JobInv /\ DoneInv /\ RowInv
  BY DEF Ground, Types, UrbInv, OrderInv
<1>00. Back(i, status, n, last)
  BY <1>0, ReturnsIs
<1>1. /\ i \in 1..num /\ last \in i..num
      /\ \A j \in i..last : urbs'[j].st = "done" /\ urbs[j].st = "queued"
      /\ \A j \in 1..num : j \notin i..last => urbs'[j] = urbs[j]
      /\ Len(urbs'[i].cells) = n /\ urbs'[i].status = status
      /\ \A j \in (i + 1)..last :
           urbs'[j].status = "unlinked" /\ urbs'[j].cells = urbs[j].cells
      /\ Len(done') = Len(done) + (last - i + 1)
      /\ \A k \in 1..Len(done) : done'[k] = done[k]
      /\ \A k \in (Len(done) + 1)..Len(done') : done'[k] = i + (k - Len(done)) - 1
      /\ sent' = IF kind = "iso" THEN sent ELSE sent + n
  BY <1>00 DEF Back
<1>2. /\ i \in Queued /\ n \in 0..Size(i) /\ status # "unlinked"
      /\ kind # "iso" /\ n > 0 => Flows /\ \A j \in Queued : i <= j
      /\ status = "ok" => n = Size(i)
      /\ status = "short" => n < Size(i)
      /\ status = "gone" => ~alive
      /\ last > i => status \in {"short", "stall", "bus"}
      /\ UNCHANGED <<kind, mode, length, num, reapAfter, link, cur, alive>>
  BY DEF Returns
<1>3. /\ urbs \in [1..num -> Urbs] /\ Len(done) \in Nat
      /\ \A k \in 1..Len(done) : done[k] \in 1..num /\ urbs[done[k]].st = "done"
      /\ cur # 0 => cur \in 1..num /\ urbs[cur].st = "reaped"
  BY <1>0 DEF DoneInv
<1>4. Size(i) \in Nat /\ Start(i) \in Nat
  BY <1>0, <1>1, SizeIs
<1>5. \A j \in 1..num : Size(j)' = Size(j) /\ Start(j)' = Start(j)
  BY <1>2 DEF Size, Start
<1>6. \A j \in 1..num : \/ j \notin i..last /\ urbs'[j] = urbs[j]
                        \/ j = i
                        \/ j \in (i + 1)..last /\ j \in i..last /\ i < j
  BY <1>1
<1>7. \A j \in (i + 1)..last : /\ j \in 1..num /\ j \in i..last /\ last > i
                               /\ ~Laden(j)' /\ Len(urbs'[j].cells) = 0
  <2>1. \A j \in (i + 1)..last : j \in i..last /\ j \in 1..num /\ last > i
    BY <1>0, <1>1
  <2>2. \A j \in (i + 1)..last : urbs'[j].cells = <<>>
    BY <1>1, <2>1 DEF DataInv, SizeInv
  <2>3. Len(<<>>) = 0
    OBVIOUS
  <2> QED
    BY <2>1, <2>2, <2>3 DEF Laden
<1>8. \A j \in 1..num : j \notin i..last =>
        /\ Returned(j)' = Returned(j) /\ Laden(j)' = Laden(j) /\ Full(j)' = Full(j)
  BY <1>1, <1>5 DEF Returned, Laden, Full
<1>9. \A j \in i..last : Returned(j)' /\ ~Returned(j)
  BY <1>1 DEF Returned
<1>10. \A j \in 1..num : Returned(j) => j \notin i..last /\ urbs'[j] = urbs[j]
  BY <1>1, <1>9
<1>11. i \in i..last
  BY <1>1
<1>12. ASSUME kind # "iso", n > 0, NEW j \in 1..num, j < i
       PROVE  Returned(j) /\ urbs[j].status \notin {"stall", "gone"}
  <2>1. j \notin Queued
    BY <1>1, <1>2, <1>12 DEF Queued, DoneInv
  <2>2. urbs[j].st # "none" /\ urbs[i].st = "queued"
    BY <1>0, <1>1, <1>11, <1>12 DEF RowInv
  <2>3. urbs[j] \in Urbs /\ urbs[j].st # "queued"
    BY <1>3, <2>1 DEF Queued
  <2> QED
    BY <1>2, <1>3, <1>12, <2>2, <2>3 DEF Returned, Urbs, Flows
<1>13. FateInv'
  <2> SUFFICES ASSUME NEW j \in 1..num
               PROVE  /\ ~Returned(j)' => urbs'[j].status = "ok"
                      /\ urbs'[j].status = "short" => ~Full(j)'
                      /\ Returned(j)' /\ urbs'[j].status = "ok" => Full(j)'
                      /\ urbs'[j].status = "gone" => ~alive
                      /\ urbs'[j].status = "unlinked" =>
                           \E f \in 1..(j - 1) : urbs'[f].status \in {"short", "stall", "bus"}
    BY <1>2 DEF FateInv
  <2>1. CASE j \notin i..last /\ urbs'[j] = urbs[j]
    <3>1. /\ ~Returned(j)' => urbs'[j].status = "ok"
          /\ urbs'[j].status = "short" => ~Full(j)'
          /\ Returned(j)' /\ urbs'[j].status = "ok" => Full(j)'
          /\ urbs'[j].status = "gone" => ~alive
      BY <1>8, <2>1 DEF UrbFateInv, FateInv
    <3>2. ASSUME urbs'[j].status = "unlinked"
          PROVE  \E f \in 1..(j - 1) : urbs'[f].status \in {"short", "stall", "bus"}
      <4>1. PICK f \in 1..(j - 1) : urbs[f].status \in {"short", "stall", "bus"}
        BY <2>1, <3>2 DEF UrbFateInv, FateInv
      <4>2. f \in 1..num
        BY <1>0
      <4>3. Returned(f)
        BY <4>1, <4>2 DEF UrbFateInv, FateInv
      <4> QED
        BY <1>10, <4>1, <4>2, <4>3
    <3> QED
      BY <3>1, <3>2
  <2>2. CASE j = i
    BY <1>1, <1>2, <1>4, <1>5, <1>9, <1>11, <2>2 DEF Full
  <2>3. CASE j \in (i + 1)..last /\ j \in i..last /\ i < j
    <3>1. urbs'[i].status \in {"short", "stall", "bus"} /\ i \in 1..(j - 1)
      BY <1>1, <1>2, <1>7, <2>3
    <3> QED
      BY <1>1, <1>9, <2>3, <3>1
  <2> QED
    BY <1>6, <2>1, <2>2, <2>3
<1>14. KeptInv'
  <2>1. ASSUME link = "watched" \/ reapAfter, NEW j \in 1..num, urbs'[j].st = "done"
        PROVE  \E k \in 1..Len(done') : done'[k] = j
    <3>1. CASE j \notin i..last
      <4>1. urbs[j].st = "done"
        BY <1>1, <2>1, <3>1
      <4>2. PICK k \in 1..Len(done) : done[k] = j
        BY <2>1, <4>1 DEF UrbFateInv, KeptInv
      <4>3. k \in 1..Len(done') /\ done'[k] = j
        BY <1>1, <1>3, <4>2
      <4> QED
        BY <4>3
    <3>2. CASE j \in i..last
      <4> DEFINE k == Len(done) + (j - i + 1)
      <4>1. k \in (Len(done) + 1)..Len(done') /\ k \in 1..Len(done') /\ i + (k - Len(done)) - 1 = j
        BY <1>1, <1>3, <3>2
      <4>2. done'[k] = i + (k - Len(done)) - 1
        <5> HIDE DEF k
        <5> QED
          BY <1>1, <4>1
      <4> QED
        BY <4>1, <4>2
    <3> QED
      BY <3>1, <3>2
  <2>2. broken' => kind = "bulk"
    BY DEF UrbFateInv, KeptInv
  <2> QED
    BY <1>2, <2>1, <2>2 DEF UrbFateInv, KeptInv
<1>15. ASSUME kind # "iso", NEW x \in 1..num, Laden(x), NEW y \in i..last
       PROVE  x < y
  <2>1. y \in 1..num /\ ~Returned(y) /\ urbs[y].st = "queued"
    BY <1>1, <1>9, <1>0
  <2>2. x # y
    <3>1. x = y => urbs[x].cells = <<>>
      BY <1>15, <2>1 DEF DataInv, SizeInv
    <3> QED
      BY <1>15, <3>1 DEF Laden
  <2>3. ~(y < x)
    BY <1>15, <2>1 DEF UrbFateInv, LadenInv
  <2> QED
    BY <1>0, <2>1, <2>2, <2>3
<1>16. \A k \in 1..Len(done') : \/ /\ k \in 1..Len(done) /\ done'[k] = done[k]
                                   /\ done[k] \in 1..num /\ done[k] \notin i..last
                                \/ /\ k \in (Len(done) + 1)..Len(done') /\ done'[k] \in i..last
                                   /\ done'[k] = i + (k - Len(done)) - 1
  <2> SUFFICES ASSUME NEW k \in 1..Len(done')
               PROVE  \/ /\ k \in 1..Len(done) /\ done'[k] = done[k]
                         /\ done[k] \in 1..num /\ done[k] \notin i..last
                      \/ /\ k \in (Len(done) + 1)..Len(done') /\ done'[k] \in i..last
                         /\ done'[k] = i + (k - Len(done)) - 1
    OBVIOUS
  <2>1. CASE k <= Len(done)
    <3>1. k \in 1..Len(done)
      BY <1>3, <2>1
    <3> QED
      BY <1>1, <1>3, <3>1
  <2>2. CASE ~(k <= Len(done))
    <3>1. k \in (Len(done) + 1)..Len(done')
      BY <1>1, <1>3, <2>2
    <3>2. done'[k] = i + (k - Len(done)) - 1
      BY <1>1, <3>1
    <3>3. i + (k - Len(done)) - 1 \in i..last
      BY <1>1, <1>3, <3>1
    <3> QED
      BY <3>1, <3>2, <3>3
  <2> QED
    BY <2>1, <2>2
<1>17. LadenInv'
  <2> SUFFICES ASSUME kind # "iso" PROVE LadenInv'
    BY <1>2 DEF LadenInv
  <2>1. ASSUME NEW x \in 1..num, NEW y \in 1..num, y < x, Laden(x)'
        PROVE  Returned(y)' /\ urbs'[y].status \notin {"stall", "gone"}
    <3>1. CASE x = i
      <4>1. n > 0
        BY <1>1, <2>1, <3>1 DEF Laden
      <4>2. Returned(y) /\ urbs[y].status \notin {"stall", "gone"}
        BY <1>12, <2>1, <3>1, <4>1
      <4> QED
        BY <1>8, <1>10, <4>2
    <3>2. CASE x \notin i..last
      <4>1. Laden(x)
        BY <1>8, <2>1, <3>2
      <4>2. Returned(y) /\ urbs[y].status \notin {"stall", "gone"}
        BY <2>1, <4>1 DEF UrbFateInv, LadenInv
      <4> QED
        BY <1>8, <1>10, <4>2
    <3> QED
      BY <1>6, <1>7, <2>1, <3>1, <3>2
  <2>2. ASSUME NEW k \in 1..Len(done'), NEW l \in 1..Len(done'), k < l, Laden(done[k])'
        PROVE  done'[k] < done'[l]
    <3>1. CASE k \in 1..Len(done) /\ done'[k] = done[k] /\ done[k] \in 1..num /\ done[k] \notin i..last
      <4>1. Len(urbs'[done[k]].cells) > 0
        BY <2>2, <3>1 DEF Laden
      <4>2. Laden(done[k])
        BY <1>1, <3>1, <4>1 DEF Laden
      <4>3. CASE l \in 1..Len(done) /\ done'[l] = done[l]
        BY <2>2, <3>1, <4>2, <4>3 DEF UrbFateInv, LadenInv
      <4>4. CASE done'[l] \in i..last
        BY <1>15, <3>1, <4>2, <4>4
      <4> QED
        BY <1>16, <4>3, <4>4
    <3>2. CASE k \in (Len(done) + 1)..Len(done') /\ done'[k] = i + (k - Len(done)) - 1
      <4>1. l \in (Len(done) + 1)..Len(done')
        BY <1>3, <2>2, <3>2
      <4>2. done'[l] = i + (l - Len(done)) - 1
        BY <1>1, <4>1
      <4> QED
        BY <1>1, <1>3, <2>2, <3>2, <4>1, <4>2
    <3> QED
      BY <1>16, <3>1, <3>2
  <2>3. ASSUME cur # 0, Laden(cur)', NEW k \in 1..Len(done') PROVE cur < done'[k]
    <3>1. cur \in 1..num /\ cur \notin i..last /\ cur' = cur
      BY <1>1, <1>2, <1>3, <2>3
    <3>2. Len(urbs'[cur].cells) > 0
      BY <2>3, <3>1 DEF Laden
    <3>3. Laden(cur)
      BY <1>1, <3>1, <3>2 DEF Laden
    <3>4. CASE k \in 1..Len(done) /\ done'[k] = done[k]
      BY <2>3, <3>3, <3>4 DEF UrbFateInv, LadenInv
    <3>5. CASE done'[k] \in i..last
      BY <1>15, <3>1, <3>3, <3>5
    <3> QED
      BY <1>16, <3>4, <3>5
  <2> QED
    BY <1>2, <2>1, <2>2, <2>3 DEF LadenInv
<1>18. AlignedInv'
  <2> SUFFICES ASSUME kind # "iso", NEW x \in 1..num, FullBelow(x)'
               PROVE  /\ ~Returned(x)' => sent' = Start(x)
                      /\ Laden(x)' => urbs'[x].cells[1] = Start(x) + 1
    BY <1>2, <1>5 DEF AlignedInv
  <2>0. sent' = sent + n
    BY <1>1
  <2>1. \A y \in 1..num : y < x => Full(y)'
    BY <1>2 DEF FullBelow
  <2>2. (\A y \in 1..num : y < x => y \notin i..last) => FullBelow(x)
    BY <1>8, <2>1 DEF FullBelow
  <2>3. ASSUME ~Returned(x)' PROVE sent' = Start(x)
    <3>1. x \notin i..last /\ ~Returned(x)
      BY <1>8, <1>9, <2>3
    <3>2. CASE x < i
      <4>1. FullBelow(x)
        BY <1>1, <2>2, <3>2
      <4>2. n = 0
        BY <1>12, <3>1, <3>2
      <4> QED
        BY <1>0, <2>0, <3>1, <4>1, <4>2 DEF UrbFateInv, AlignedInv
    <3>3. CASE ~(x < i)
      <4> DEFINE p == PerUrb(kind, mode, length)
      <4>1. p \in Nat \ {0} /\ \A y \in 1..num : y < x => Size(y) = p
        BY <1>0, PerUrbIs DEF Size
      <4> HIDE DEF p
      <4>2. i < x /\ last < x
        BY <1>0, <1>1, <3>1, <3>3
      <4>3. last = i
        <5> SUFFICES ASSUME last # i PROVE FALSE
          OBVIOUS
        <5>1. last \in (i + 1)..last /\ last \in 1..num
          BY <1>0, <1>1
        <5>2. Full(last)' /\ Len(urbs'[last].cells) = 0
          BY <1>7, <2>1, <4>2, <5>1
        <5> QED
          BY <1>5, <4>1, <4>2, <5>1, <5>2 DEF Full
      <4>4. n = Size(i)
        BY <1>1, <1>5, <2>1, <4>2 DEF Full
      <4>5. x = i + 1
        <5> SUFFICES ASSUME x # i + 1 PROVE FALSE
          OBVIOUS
        <5>1. i + 1 \in 1..num /\ i + 1 < x /\ i + 1 \notin i..last
          BY <1>0, <1>1, <4>2, <4>3
        <5>2. Full(i + 1)
          BY <1>8, <2>1, <5>1
        <5>3. Laden(i + 1)
          BY <4>1, <5>1, <5>2 DEF Full, Laden
        <5> QED
          BY <1>0, <1>1, <1>9, <1>11, <5>1, <5>3 DEF UrbFateInv, LadenInv
      <4>6. FullBelow(i)
        <5>1. \A y \in 1..num : y < i => y \notin i..last /\ y < x
          BY <1>0, <1>1, <4>2
        <5> QED
          BY <1>8, <2>1, <5>1 DEF FullBelow
      <4>7. sent = Start(i)
        BY <1>1, <1>9, <1>11, <4>6 DEF UrbFateInv, AlignedInv
      <4>8. Start(x) = Start(i) + Size(i)
        <5>1. Start(x) = ((i + 1) - 1) * p /\ Start(i) = (i - 1) * p /\ Size(i) = p
          BY <1>1, <4>1, <4>2, <4>5 DEF Start, p
        <5>2. i - 1 \in Nat /\ (i + 1) - 1 = (i - 1) + 1
          BY <1>1
        <5>3. p * ((i - 1) + 1) = p * (i - 1) + p /\ p * (i - 1) \in Nat
          BY <4>1, <5>2, Distribute
        <5>4. ((i - 1) + 1) * p = (i - 1) * p + p
          BY <4>1, <5>2, <5>3
        <5> QED
          BY <5>1, <5>2, <5>4
      <4> QED
        BY <2>0, <4>4, <4>7, <4>8
    <3> QED
      BY <3>2, <3>3
  <2>4. ASSUME Laden(x)' PROVE urbs'[x].cells[1] = Start(x) + 1
    <3>1. CASE x = i
      <4>1. FullBelow(i)
        <5>1. \A y \in 1..num : y < i => y \notin i..last
          BY <1>0, <1>1
        <5> QED
          BY <2>2, <3>1, <5>1
      <4>2. sent = Start(i)
        BY <1>1, <1>9, <1>11, <4>1 DEF UrbFateInv, AlignedInv
      <4>3. n > 0 /\ urbs'[i].cells = Cells(i, n)
        BY <1>00, <1>1, <2>4, <3>1 DEF Back, Laden
      <4>4. 1 \in 1..n
        BY <4>3
      <4>5. urbs'[i].cells[1] = sent + 1
        BY <4>3, <4>4 DEF Cells
      <4> QED
        BY <3>1, <4>2, <4>5
    <3>2. CASE x \notin i..last
      <4>1. Laden(x) /\ urbs'[x] = urbs[x]
        BY <1>1, <1>8, <2>4, <3>2
      <4>2. \A y \in 1..num : y < x => y \notin i..last
        BY <1>10, <4>1 DEF UrbFateInv, LadenInv
      <4>3. FullBelow(x)
        BY <2>2, <4>2
      <4> QED
        BY <4>1, <4>3 DEF UrbFateInv, AlignedInv
    <3> QED
      BY <1>6, <1>7, <2>4, <3>1, <3>2
  <2> QED
    BY <2>3, <2>4
<1> QED
  BY <1>13, <1>14, <1>17, <1>18 DEF UrbFateInv

LEMMA KernelFate ==
  ASSUME Ground, UrbInv, DataInv, UrbFateInv,
         \/ UrbDone \/ UrbShort \/ UrbFails \/ UrbOverflows \/ Shutdown
         \/ \E t \in Threads : DiscardUrb(t)
  PROVE  UrbFateInv'
<1>1. num \in Nat /\ sent \in Nat /\ JobInv /\ DoneInv /\ OrderInv /\ PlacesInv
  BY DEF Ground, Types, ControlInv, UrbInv
<1>2. CASE UrbDone \/ UrbShort \/ UrbFails \/ UrbOverflows \/ Shutdown
  <2>1. PICK i \in 1..num, last \in 1..num, status \in Statuses, n \in Nat :
          Returns(i, status, n, last)
    BY <1>1, <1>2, KernelReturns
  <2>2. broken' => broken \/ kind = "bulk"
    BY <1>2 DEF UrbDone, UrbShort, UrbFails, UrbOverflows, Shutdown, Finish, Ends
  <2> QED
    BY <2>1, <2>2, ReturnsFate
<1>3. ASSUME NEW t \in Threads, DiscardUrb(t) PROVE UrbFateInv'
  <2>1. /\ \/ UNCHANGED <<urbs, done, sent>>
           \/ \E n \in Nat : Returns(walk[t].k, "cancelled", n, walk[t].k)
        /\ UNCHANGED <<job, priv, alive, reapAfter, link, transferred, buf, cur, pc>>
    BY <1>1, <1>3, DiscardReturns
  <2>2. broken' = broken
    BY <1>3 DEF DiscardUrb
  <2>3. CASE UNCHANGED <<urbs, done, sent>>
    <3>1. cur' # 0 => link' = "watched" \/ reapAfter'
      BY <2>1 DEF UrbFateInv, KeptInv
    <3> QED
      BY <1>1, <2>1, <2>2, <2>3, <3>1, FateKeeps DEF job, priv
  <2>4. ASSUME NEW n \in Nat, Returns(walk[t].k, "cancelled", n, walk[t].k) PROVE UrbFateInv'
    BY <2>2, <2>4, ReturnsFate
  <2> QED
    BY <2>1, <2>3, <2>4
<1> QED
  BY <1>2, <1>3

LEMMA FateStep ==
  Ground /\ UrbInv /\ DataInv /\ UrbFateInv /\ [Next]_vars => UrbFateInv'
<1> SUFFICES ASSUME Ground, UrbInv, DataInv, UrbFateInv, [Next]_vars PROVE UrbFateInv'
  OBVIOUS
<1>1. CASE UNCHANGED vars
  <2>1. /\ UNCHANGED <<kind, mode, length, num, sent, cur, urbs, done, link, reapAfter, alive, broken>>
    BY <1>1 DEF vars, job, priv, kernel, data, threads
  <2>2. DoneInv /\ num \in Nat /\ (cur # 0 => link = "watched" \/ reapAfter)
    BY DEF UrbInv, Ground, Types, UrbFateInv, KeptInv
  <2> QED
    BY <2>1, <2>2, FateKeeps
<1>2. CASE \/ Quiet \/ SubmitRefused \/ SubmitStops \/ SubmitEndsEarly \/ HandleSteps
           \/ Hangup \/ ClearLost
  BY <1>2, QuietFate
<1>3. CASE List
  BY <1>3, ListFate
<1>4. CASE SubmitUrb
  BY <1>4, SubmitUrbFate
<1>5. CASE \/ UrbDone \/ UrbShort \/ UrbFails \/ UrbOverflows \/ Shutdown
           \/ \E t \in Threads : DiscardUrb(t)
  BY <1>5, KernelFate
<1>6. CASE Reap
  BY <1>6, ReapFate
<1> QED
  BY <1>1, <1>2, <1>3, <1>4, <1>5, <1>6
     DEF Next, App, Kernel, Event, Either, Quiet, HandleSteps

-----------------------------------------------------------------------------
(* Where the data goes, step by step. *)

LEMMA NormalKeeps ==
  ASSUME NormalInv, UNCHANGED <<kind, mode, length, num>>,
         has' => has, action' = "normal" => action = "normal",
         \A i \in 1..num : urbs'[i].st = "reaped" /\ i # cur' =>
           urbs[i].st = "reaped" /\ i # cur /\ urbs'[i].cells = urbs[i].cells
           /\ urbs'[i].status = urbs[i].status
  PROVE  NormalInv'
<1> SUFFICES ASSUME kind # "iso", has, action = "normal", NEW i \in 1..num,
                    urbs'[i].st = "reaped", i # cur'
             PROVE  Full(i)' \/ urbs'[i].status \in {"stall", "gone"}
  BY DEF NormalInv, Handled
<1>1. i \in Handled /\ urbs'[i].cells = urbs[i].cells /\ urbs'[i].status = urbs[i].status
  BY DEF Handled
<1>2. Size(i)' = Size(i)
  BY DEF Size, Start
<1> QED
  BY <1>1, <1>2 DEF NormalInv, Full

LEMMA NormalStep ==
  ASSUME Ground, UrbInv, DataInv, UrbFateInv, NormalInv, [Next]_vars
  PROVE  NormalInv'
<1> USE DEF job, priv, kernel, data, threads, flags
<1>1. /\ Types /\ PlacesInv /\ LockInv /\ PhaseInv /\ DoneInv /\ JobInv /\ OrderInv
      /\ num \in Nat /\ sent \in Nat
  BY DEF Ground, ControlInv, UrbInv, Types
<1>2. CASE \/ Quiet \/ SubmitRefused \/ SubmitStops \/ SubmitEndsEarly \/ Hangup \/ ClearLost
           \/ UNCHANGED vars
  <2>1. UNCHANGED <<kind, mode, length, num, cur, urbs>>
    BY <1>2 DEF Quiet, SubmitRefused, SubmitStops, SubmitEndsEarly, Submit, Unlist, Cancel, Why,
         Remove, Settle, Call, FindLost, Unplug, Walked, TimerFires, Expire, Mark, BeginCancel,
         Hangup, ClearLost, vars
  <2>2. /\ has' => has
        /\ action' = "normal" => action = "normal"
    <3>1. ASSUME NEW t \in Threads, Walked(t)
          PROVE  (has' => has) /\ (action' = "normal" => action = "normal")
      BY <3>1 DEF Walked
    <3>2. CASE SubmitRefused \/ ClearLost
      BY <3>2 DEF SubmitRefused, ClearLost
    <3>3. CASE SubmitStops \/ SubmitEndsEarly
      BY <3>3 DEF SubmitStops, SubmitEndsEarly
    <3>4. CASE \/ Submit \/ Unlist \/ Cancel \/ Why \/ Remove \/ Settle \/ Call \/ FindLost
               \/ Unplug \/ (\E t \in Threads : TimerFires(t) \/ Expire(t) \/ Mark(t))
               \/ Hangup \/ UNCHANGED vars
      <4>1. UNCHANGED <<has, action>>
        BY <3>4 DEF Submit, Unlist, Cancel, Why, Remove, Settle, Call, FindLost, Unplug,
             TimerFires, Expire, Mark, BeginCancel, Hangup, vars
      <4> QED
        BY <4>1
    <3> QED
      BY <1>2, <3>1, <3>2, <3>3, <3>4 DEF Quiet
  <2> QED
    BY <2>1, <2>2, NormalKeeps
<1>3. CASE List
  <2>1. /\ urbs' = [i \in 1..num' |-> [st |-> "none", status |-> "ok", cells |-> <<>>]]
    BY <1>3 DEF List
  <2>2. Handled' = {}
    BY <2>1 DEF Handled
  <2> QED
    BY <2>2 DEF NormalInv
<1>4. CASE SubmitUrb
  <2>1. /\ UNCHANGED <<kind, mode, length, num, has, action, cur>>
        /\ urbs' = [urbs EXCEPT ![Submitting].st = "queued"]
    BY <1>4 DEF SubmitUrb
  <2>2. \A i \in 1..num : urbs'[i].st = "reaped" => urbs'[i] = urbs[i]
    BY <1>1, <2>1 DEF DoneInv, Urbs
  <2> QED
    BY <2>1, <2>2, NormalKeeps
<1>5. ASSUME NEW i, NEW last, NEW status, NEW n \in Nat, Returns(i, status, n, last)
      PROVE  NormalInv'
  <2>1. /\ last \in i..num /\ i \in 1..num
        /\ \A j \in i..last : urbs'[j].st = "done"
        /\ \A j \in 1..num : j \notin i..last => urbs'[j] = urbs[j]
    BY <1>1, <1>5, ReturnsIs DEF Back
  <2>2. UNCHANGED <<kind, mode, length, num, has, action, cur>>
    BY <1>5 DEF Returns
  <2> QED
    BY <2>1, <2>2, NormalKeeps
<1>6. CASE UrbDone \/ UrbShort \/ UrbFails \/ UrbOverflows \/ Shutdown
  <2>1. PICK i \in 1..num, last \in 1..num, status \in Statuses, n \in Nat :
          Returns(i, status, n, last)
    BY <1>1, <1>6, KernelReturns
  <2> QED
    BY <1>5, <2>1
<1>7. ASSUME NEW t \in Threads, DiscardUrb(t) PROVE NormalInv'
  <2>1. /\ \/ UNCHANGED <<urbs, done, sent>>
           \/ \E n \in Nat : Returns(walk[t].k, "cancelled", n, walk[t].k)
        /\ UNCHANGED <<kind, mode, length, num, has, action, cur>>
    BY <1>1, <1>7, DiscardReturns
  <2>2. CASE UNCHANGED <<urbs, done, sent>>
    BY <2>1, <2>2, NormalKeeps
  <2> QED
    BY <1>5, <2>1, <2>2
<1>8. CASE Reap
  <2>1. /\ cur = 0 /\ UNCHANGED <<kind, mode, length, num, has, action>>
        /\ \A j \in 1..num : /\ urbs'[j].status = urbs[j].status
                             /\ urbs'[j].cells = urbs[j].cells
                             /\ j # cur' => urbs'[j].st = urbs[j].st
    BY <1>8, ReapMoves
  <2> QED
    BY <1>1, <2>1, NormalKeeps
<1>9. CASE HandleSteps
  <2>1. UNCHANGED <<urbs, kind, mode, length, num>> /\ cur' = 0 /\ pc["event"] = "handle"
    BY <1>1, <1>9, HandleMoves DEF HandleSteps
  <2>2. cur \in 1..num /\ (has' => has)
    BY <1>1, <2>1 DEF DoneInv, PhaseInv
  <2>3. CASE HandleControl
    BY <2>3 DEF HandleControl, Over, NormalInv
  <2>4. CASE HandleIso
    BY <2>1, <2>4 DEF HandleIso, NormalInv
  <2>5. CASE HandleAbnormal
    BY <2>5 DEF HandleAbnormal, NormalInv
  <2>6. CASE HandleBulk
    <3> SUFFICES ASSUME kind # "iso", has', action' = "normal"
                 PROVE  \A i \in Handled' : Full(i)' \/ urbs'[i].status \in {"stall", "gone"}
      BY <2>1 DEF NormalInv
    <3>1. Full(cur) \/ urbs[cur].status \in {"stall", "gone"}
      <4>1. \/ urbs[cur].status = "gone"
            \/ urbs[cur].status = "stall"
            \/ urbs[cur].status = "overflow"
            \/ urbs[cur].status = "bus"
            \/ urbs[cur].status \notin {"gone", "stall", "overflow", "bus"}
        OBVIOUS
      <4>2. urbs[cur].status # "overflow"
        BY <2>6 DEF HandleBulk, Over
      <4>3. urbs[cur].status # "bus"
        BY <2>6 DEF HandleBulk
      <4>4. ASSUME urbs[cur].status \notin {"gone", "stall", "overflow", "bus"} PROVE Full(cur)
        <5>1. ~All
          BY <2>6 DEF HandleBulk, Over
        <5>2. ~Short(urbs[cur])
          BY <2>6, <4>4, <5>1 DEF HandleBulk
        <5>3. Len(urbs[cur].cells) <= Size(cur) /\ Size(cur) \in Nat /\ Len(urbs[cur].cells) \in Nat
          <6>1. urbs[cur].cells \in Seq(Nat)
            BY <1>1, <2>2 DEF DoneInv, Urbs
          <6>2. Len(urbs[cur].cells) \in Nat
            BY <6>1
          <6> QED
            BY <1>1, <2>2, <6>2, SizeIs DEF DataInv, SizeInv
        <5> QED
          BY <5>2, <5>3 DEF Full, Short
      <4> QED
        BY <4>1, <4>2, <4>3, <4>4
    <3>2. \A i \in 1..num : Size(i)' = Size(i)
      BY <2>1 DEF Size, Start
    <3>3. \A i \in Handled' : i \in 1..num /\ (i = cur \/ i \in Handled)
      BY <2>1 DEF Handled
    <3>4. action = "normal" /\ has
      BY <2>2, <2>6 DEF HandleBulk
    <3> QED
      BY <2>1, <3>1, <3>2, <3>3, <3>4 DEF NormalInv, Full
  <2> QED
    BY <1>9, <2>3, <2>4, <2>5, <2>6 DEF HandleSteps
<1> QED
  BY <1>2, <1>3, <1>4, <1>6, <1>7, <1>8, <1>9
     DEF Next, App, Kernel, Event, Either, Quiet, HandleSteps

LEMMA BufKeeps ==
  ASSUME BufInv, DoneInv, num \in Nat,
         UNCHANGED <<kind, mode, length, num, transferred, buf, cur>>,
         \A i \in 1..num : urbs[i].st = "reaped" => urbs'[i].cells = urbs[i].cells
  PROVE  BufInv'
<1>1. cur # 0 => cur \in 1..num /\ urbs[cur].st = "reaped"
  BY DEF DoneInv
<1>2. Start(cur)' = Start(cur)
  BY DEF Start
<1> QED
  BY <1>1, <1>2 DEF BufInv

\* What is put in a buffer, and what it leaves alone.
LEMMA Placed ==
  ASSUME NEW b, NEW n \in Nat, DOMAIN b = 1..n, NEW at \in Nat, NEW cells \in Seq(Nat),
         at + Len(cells) <= n
  PROVE  /\ Len(cells) \in Nat /\ DOMAIN Place(b, at, cells) = 1..n
         /\ \A c \in 1..at : Place(b, at, cells)[c] = b[c]
         /\ \A c \in 1..Len(cells) : Place(b, at, cells)[at + c] = cells[c]
<1> DEFINE m == Len(cells)
<1>1. m \in Nat
  OBVIOUS
<1>2. Place(b, at, cells) =
        [c \in 1..n |-> IF c > at /\ c <= at + m THEN cells[c - at] ELSE b[c]]
  BY DEF Place
<1> HIDE DEF m
<1>3. \A c \in 1..at : c \in 1..n /\ ~(c > at)
  BY <1>1 DEF m
<1>4. \A c \in 1..m : at + c \in 1..n /\ at + c > at /\ at + c <= at + m /\ at + c - at = c
  BY <1>1 DEF m
<1>5. \A c \in 1..m : Place(b, at, cells)[at + c] = cells[at + c - at]
  BY <1>2, <1>4
<1>6. \A c \in 1..m : Place(b, at, cells)[at + c] = cells[c]
  BY <1>4, <1>5
<1> QED
  BY <1>1, <1>2, <1>3, <1>6 DEF m

LEMMA ReapBuf ==
  ASSUME Ground, UrbInv, DataInv, BufInv, Reap
  PROVE  BufInv'
<1> USE DEF job
<1>1. /\ cur = 0 /\ Len(done) \in Nat \ {0}
      /\ cur' = done[1] /\ cur' \in 1..num
      /\ \A j \in 1..num : urbs'[j].cells = urbs[j].cells
      /\ UNCHANGED <<kind, mode, length, num, transferred>>
  BY ReapMoves
<1>2. JobInv /\ DoneInv /\ num \in Nat /\ transferred \in Nat
  BY DEF UrbInv, Ground, Types, DataInv, ChainInv
<1>3. CASE kind = "iso"
  <2>1. buf' = buf
    BY <1>3 DEF Reap
  <2> QED
    BY <1>1, <1>3, <2>1 DEF BufInv
<1>4. CASE kind # "iso"
  <2>1. PICK i \in 1..num : i = cur'
    BY <1>1
  <2> DEFINE cells == urbs[i].cells
  <2>2. cells \in Seq(Nat) /\ Len(cells) <= Size(i)
    BY <1>2 DEF DoneInv, Urbs, DataInv, SizeInv
  <2>3. Start(i) \in Nat /\ Size(i) \in Nat /\ Start(i) + Size(i) <= length /\ length \in Nat
    BY <1>2, SizeIs, PerUrbIs
  <2>4. transferred <= Start(i) /\ \A c \in 1..Len(cells) : cells[c] = transferred + c
    <3>1. PICK pos \in [0..Len(done) -> 0..sent] : Adds(pos)
      BY <1>4 DEF DataInv, ChainInv
    <3>2. pos[0] = transferred + 0
      BY <1>1, <3>1 DEF Adds, Carried
    <3>3. 1 \in 1..Len(done) /\ 1 - 1 = 0 /\ done[1] = i
      BY <1>1, <2>1
    <3>4. Carries(done[1], pos[1 - 1])
      BY <3>1, <3>3 DEF Adds
    <3>5. Carries(i, transferred)
      BY <1>2, <3>2, <3>3, <3>4
    <3> QED
      BY <3>5 DEF Carries
  <2>5. buf' = Place(buf, Start(i), cells)
    <3>1. buf' = Place(buf, Start(cur'), urbs[cur'].cells)
      BY <1>4 DEF Reap
    <3> QED
      BY <2>1, <3>1
  <2>6. Start(i)' = Start(i) /\ urbs'[i].cells = cells
    BY <1>1 DEF Start
  <2> HIDE DEF cells
  <2>7. Len(cells) \in Nat
    BY <2>2
  <2>8. Start(i) + Len(cells) <= length
    BY <2>2, <2>3, <2>7
  <2>9. /\ DOMAIN buf' = 1..length
        /\ \A c \in 1..Start(i) : buf'[c] = buf[c]
        /\ \A c \in 1..Len(cells) : buf'[Start(i) + c] = cells[c]
    <3>1. DOMAIN buf = 1..length
      BY DEF BufInv
    <3> QED
      BY <2>2, <2>3, <2>5, <2>8, <3>1, Placed
  <2>10. \A c \in 1..transferred : buf'[c] = c
    <3>1. \A c \in 1..transferred : c \in 1..Start(i)
      BY <1>2, <2>3, <2>4
    <3> QED
      BY <1>4, <2>9, <3>1 DEF BufInv
  <2> QED
    BY <1>1, <2>1, <2>4, <2>6, <2>9, <2>10 DEF BufInv
<1> QED
  BY <1>3, <1>4

LEMMA HandleBuf ==
  ASSUME Ground, UrbInv, DataInv, UrbFateInv, FlowInv, HandleSteps
  PROVE  BufInv'
<1>1. /\ num \in Nat /\ JobInv /\ DoneInv /\ Types /\ PlacesInv /\ LockInv /\ PhaseInv
  BY DEF Ground, Types, UrbInv, ControlInv
<1>2. /\ UNCHANGED <<kind, mode, length, link, done, urbs, num>> /\ cur' = 0
      /\ pc["event"] = "handle" /\ has
  BY <1>1, HandleMoves DEF HandleSteps, job
<1>3. cur \in 1..num /\ urbs[cur].st = "reaped" /\ length \in Nat /\ transferred \in Nat
  BY <1>1, <1>2, PerUrbIs DEF DoneInv, DataInv, ChainInv
<1> DEFINE cells == urbs[cur].cells
<1>4. cells \in Seq(Nat) /\ Len(cells) <= Size(cur)
  BY <1>1, <1>3 DEF DoneInv, Urbs, DataInv, SizeInv
<1>5. /\ Start(cur) \in Nat /\ Size(cur) \in Nat /\ Start(cur) + Size(cur) <= length
  BY <1>1, <1>3, SizeIs
<1>6. Len(cells) \in Nat
  BY <1>4
<1> HIDE DEF cells
<1>7. DOMAIN buf = 1..length
  BY DEF FlowInv, BufInv
<1>8. CASE kind = "iso"
  <2>1. DOMAIN buf' = DOMAIN buf
    BY <1>8 DEF HandleSteps, HandleAbnormal, HandleBulk, HandleIso, HandleControl, Place
  <2> QED
    BY <1>2, <1>7, <1>8, <2>1 DEF BufInv
<1>9. CASE kind # "iso"
  <2>1. /\ \A c \in 1..transferred : buf[c] = c
        /\ transferred <= Start(cur)
        /\ \A c \in 1..Len(cells) : cells[c] = transferred + c /\ buf[Start(cur) + c] = transferred + c
    BY <1>3, <1>9 DEF FlowInv, BufInv, cells
  <2>2. transferred + Len(cells) <= length
    BY <1>3, <1>4, <1>5, <1>6, <2>1
  <2>3. \A c \in 1..(transferred + Len(cells)) :
          c \in 1..transferred \/ (c - transferred \in 1..Len(cells) /\ transferred + (c - transferred) = c)
    BY <1>3, <1>6
  <2> SUFFICES /\ DOMAIN buf' = 1..length /\ transferred' = transferred + Len(cells)
               /\ \A c \in 1..transferred : buf'[c] = buf[c]
               /\ \A c \in 1..Len(cells) : buf'[transferred + c] = transferred + c
    <3>1. ASSUME /\ DOMAIN buf' = 1..length /\ transferred' = transferred + Len(cells)
                 /\ \A c \in 1..transferred : buf'[c] = buf[c]
                 /\ \A c \in 1..Len(cells) : buf'[transferred + c] = transferred + c,
                 NEW c \in 1..transferred'
          PROVE  buf'[c] = c
      <4>1. CASE c \in 1..transferred
        BY <2>1, <3>1, <4>1
      <4>2. CASE c - transferred \in 1..Len(cells) /\ transferred + (c - transferred) = c
        <5>1. buf'[transferred + (c - transferred)] = transferred + (c - transferred)
          BY <3>1, <4>2
        <5> QED
          BY <4>2, <5>1
      <4> QED
        BY <2>3, <3>1, <4>1, <4>2
    <3> QED
      BY <1>2, <3>1 DEF BufInv
  <2>4. CASE HandleAbnormal
    <3>1. buf' = Place(buf, transferred, cells) /\ transferred' = transferred + Len(cells)
      BY <2>4 DEF HandleAbnormal, Surplus, cells
    <3>2. /\ DOMAIN Place(buf, transferred, cells) = 1..length
          /\ \A c \in 1..transferred : Place(buf, transferred, cells)[c] = buf[c]
          /\ \A c \in 1..Len(cells) : Place(buf, transferred, cells)[transferred + c] = cells[c]
      BY <1>3, <1>4, <1>7, <2>2, Placed
    <3> QED
      BY <2>1, <3>1, <3>2
  <2>5. ASSUME buf' = buf, transferred' = transferred + Len(cells),
               Len(cells) > 0 => transferred = Start(cur)
        PROVE  /\ DOMAIN buf' = 1..length /\ transferred' = transferred + Len(cells)
               /\ \A c \in 1..transferred : buf'[c] = buf[c]
               /\ \A c \in 1..Len(cells) : buf'[transferred + c] = transferred + c
    <3>1. \A c \in 1..Len(cells) : Len(cells) > 0
      BY <1>6
    <3> QED
      BY <1>7, <2>1, <2>5, <3>1
  <2>6. CASE HandleControl
    <3>1. buf' = buf /\ transferred' = transferred + Len(cells) /\ kind = "control"
      BY <2>6 DEF HandleControl, cells
    <3>2. cur = 1
      BY <1>1, <1>3, <3>1, OneForControl
    <3>3. Start(cur) = 0
      <4> DEFINE p == PerUrb(kind, mode, length)
      <4>1. p \in Nat /\ Start(cur) = (1 - 1) * p
        BY <1>1, <3>2, PerUrbIs DEF Start
      <4> HIDE DEF p
      <4> QED
        BY <4>1
    <3> QED
      BY <1>3, <2>1, <2>5, <3>1, <3>3
  <2>7. CASE HandleBulk
    <3>1. buf' = buf /\ transferred' = transferred + Len(cells) /\ action = "normal"
      BY <2>7 DEF HandleBulk, cells
    <3>2. ASSUME Len(cells) > 0 PROVE transferred = Start(cur)
      <4>1. Laden(cur)
        BY <3>2 DEF Laden, cells
      <4>2. ASSUME NEW j \in 1..num, j < cur PROVE Full(j)
        <5>1. Returned(j) /\ urbs[j].status \notin {"stall", "gone"}
          BY <1>3, <1>9, <4>1, <4>2 DEF UrbFateInv, LadenInv
        <5>2. urbs[j].st # "done"
          <6> SUFFICES ASSUME urbs[j].st = "done" PROVE FALSE
            OBVIOUS
          <6>1. PICK k \in 1..Len(done) : done[k] = j
            BY <1>3 DEF UrbFateInv, KeptInv
          <6>2. cur < done[k]
            BY <1>3, <1>9, <4>1 DEF UrbFateInv, LadenInv
          <6> QED
            BY <1>3, <4>2, <6>1, <6>2
        <5>3. j \in Handled
          BY <1>3, <4>2, <5>1, <5>2 DEF Returned, Handled
        <5> QED
          BY <1>2, <1>9, <3>1, <5>1, <5>3 DEF FlowInv, NormalInv
      <4>3. FullBelow(cur)
        BY <4>2 DEF FullBelow
      <4>4. cells[1] = Start(cur) + 1
        BY <1>3, <1>9, <4>1, <4>3 DEF UrbFateInv, AlignedInv, cells
      <4>5. 1 \in 1..Len(cells)
        BY <1>6, <3>2
      <4>6. cells[1] = transferred + 1
        BY <2>1, <4>5
      <4> QED
        BY <1>3, <1>5, <4>4, <4>6
    <3> QED
      BY <2>5, <3>1, <3>2
  <2>8. ~HandleIso
    BY <1>9 DEF HandleIso
  <2> QED
    BY <2>4, <2>6, <2>7, <2>8 DEF HandleSteps
<1> QED
  BY <1>8, <1>9

LEMMA BufStep ==
  ASSUME Ground, UrbInv, DataInv, UrbFateInv, FlowInv, [Next]_vars
  PROVE  BufInv'
<1> USE DEF job, priv, kernel, data, threads, flags
<1>1. /\ Types /\ PlacesInv /\ LockInv /\ PhaseInv /\ DoneInv /\ JobInv /\ OrderInv
      /\ num \in Nat /\ sent \in Nat /\ BufInv
  BY DEF Ground, ControlInv, UrbInv, Types, FlowInv
<1>2. CASE \/ Quiet \/ SubmitRefused \/ SubmitStops \/ SubmitEndsEarly \/ Hangup \/ ClearLost
           \/ UNCHANGED vars
  <2>1. UNCHANGED <<kind, mode, length, num, transferred, buf, cur, urbs>>
    BY <1>2 DEF Quiet, SubmitRefused, SubmitStops, SubmitEndsEarly, Submit, Unlist, Cancel, Why,
         Remove, Settle, Call, FindLost, Unplug, Walked, TimerFires, Expire, Mark, BeginCancel,
         Hangup, ClearLost, vars
  <2> QED
    BY <1>1, <2>1, BufKeeps
<1>3. CASE List
  <2>1. buf' = [c \in 1..length' |-> 0] /\ transferred' = 0 /\ cur' = cur
    BY <1>3 DEF List
  <2>2. cur = 0
    BY <1>3 DEF List, At, Ground, ControlInv, PhaseInv, Submission, UrbInv, DoneInv
  <2> QED
    BY <2>1, <2>2 DEF BufInv
<1>4. CASE SubmitUrb
  <2>1. /\ UNCHANGED <<kind, mode, length, num, transferred, buf, cur>>
        /\ urbs' = [urbs EXCEPT ![Submitting].st = "queued"]
    BY <1>4 DEF SubmitUrb
  <2>2. \A i \in 1..num : urbs'[i].cells = urbs[i].cells
    BY <1>1, <2>1 DEF DoneInv, Urbs
  <2> QED
    BY <1>1, <2>1, <2>2, BufKeeps
<1>5. ASSUME NEW i, NEW last, NEW status, NEW n \in Nat, Returns(i, status, n, last)
      PROVE  BufInv'
  <2>1. /\ last \in i..num /\ i \in 1..num
        /\ \A j \in i..last : urbs[j].st = "queued"
        /\ \A j \in 1..num : j \notin i..last => urbs'[j] = urbs[j]
    BY <1>1, <1>5, ReturnsIs DEF Back
  <2>2. UNCHANGED <<kind, mode, length, num, transferred, buf, cur>>
    BY <1>5 DEF Returns
  <2> QED
    BY <1>1, <2>1, <2>2, BufKeeps
<1>6. CASE UrbDone \/ UrbShort \/ UrbFails \/ UrbOverflows \/ Shutdown
  <2>1. PICK i \in 1..num, last \in 1..num, status \in Statuses, n \in Nat :
          Returns(i, status, n, last)
    BY <1>1, <1>6, KernelReturns
  <2> QED
    BY <1>5, <2>1
<1>7. ASSUME NEW t \in Threads, DiscardUrb(t) PROVE BufInv'
  <2>1. /\ \/ UNCHANGED <<urbs, done, sent>>
           \/ \E n \in Nat : Returns(walk[t].k, "cancelled", n, walk[t].k)
        /\ UNCHANGED <<kind, mode, length, num, transferred, buf, cur>>
    BY <1>1, <1>7, DiscardReturns
  <2>2. CASE UNCHANGED <<urbs, done, sent>>
    BY <1>1, <2>1, <2>2, BufKeeps
  <2> QED
    BY <1>5, <2>1, <2>2
<1>8. CASE Reap
  BY <1>1, <1>8, ReapBuf
<1>9. CASE HandleSteps
  BY <1>9, HandleBuf
<1> QED
  BY <1>2, <1>3, <1>4, <1>6, <1>7, <1>8, <1>9
     DEF Next, App, Kernel, Event, Either, Quiet, HandleSteps

LEMMA EndKeeps ==
  ASSUME EndInv, UNCHANGED <<kind, transferred>>,
         \/ sent' = sent
         \/ ~Ending /\ ~Reported,
         Ending' => Ending /\ (pc["event"] = "why" \/ (result' = result /\ pc'["event"] # "why")),
         Reported' => Reported /\ told' = told,
         alive' => alive, ~alive => reapAfter' = reapAfter
  PROVE  EndInv'
<1>1. ~alive => ~alive' /\ (~reapAfter => ~reapAfter')
  OBVIOUS
<1>2. ASSUME kind # "iso", Ending'
      PROVE  \/ transferred' = sent'
             \/ pc'["event"] # "why" /\ ~alive' /\ ~reapAfter' /\ result' = "no device"
  BY <1>1, <1>2 DEF EndInv
<1>3. ASSUME kind # "iso", Reported'
      PROVE  transferred' = sent' \/ (~alive' /\ ~reapAfter' /\ told' = "no device")
  BY <1>1, <1>3 DEF EndInv
<1> QED
  BY <1>2, <1>3 DEF EndInv

\* Nothing is left of what the kernel has handed back: all of it is counted,
\* or is being so.
LEMMA AllCounted ==
  ASSUME DataInv, UrbFateInv, kind # "iso", done = <<>>, link = "watched" \/ reapAfter
  PROVE  transferred + Carried = sent
<1>1. PICK pos \in [0..Len(done) -> 0..sent] : Adds(pos)
  BY DEF DataInv, ChainInv
<1>2. Len(done) = 0
  OBVIOUS
<1> QED
  BY <1>1, <1>2 DEF Adds

LEMMA HandleEnd ==
  ASSUME Ground, UrbInv, DataInv, UrbFateInv, EndInv, HandleSteps
  PROVE  EndInv'
<1>1. /\ num \in Nat /\ JobInv /\ DoneInv /\ Types /\ PlacesInv /\ LockInv /\ PhaseInv
      /\ OverflowInv
  BY DEF Ground, Types, UrbInv, ControlInv
<1>2. /\ UNCHANGED <<told, link, done, urbs, num>> /\ cur' = 0
      /\ pc["event"] = "handle" /\ has /\ told = "pending" /\ pc["app"] # "submit"
      /\ UNCHANGED <<kind>>
      /\ \/ ~has'
         \/ pc' = [pc EXCEPT !["event"] = "poll"]
         \/ pc' = [pc EXCEPT !["event"] = "discard"]
  BY <1>1, HandleMoves DEF HandleSteps, job
<1>3. cur \in 1..num /\ urbs[cur].st = "reaped" /\ (link = "watched" \/ reapAfter)
  BY <1>1, <1>2 DEF DoneInv, UrbFateInv, KeptInv
<1>4. sent' = sent
  BY DEF HandleSteps, HandleAbnormal, HandleBulk, HandleIso, HandleControl,
     HandledUnchanged, kernel
<1>5. kind # "iso" => transferred' = transferred + Carried
  <2>1. Carried = Len(urbs[cur].cells)
    BY <1>3 DEF Carried
  <2>2. CASE HandleAbnormal
    BY <2>1, <2>2 DEF HandleAbnormal
  <2>3. CASE HandleBulk
    BY <2>1, <2>3 DEF HandleBulk
  <2>4. CASE HandleControl
    BY <2>1, <2>4 DEF HandleControl
  <2> QED
    BY <2>2, <2>3, <2>4 DEF HandleSteps, HandleIso
<1>6. ~Reported'
  BY <1>2 DEF Reported, Results
<1>7. CASE kind = "iso"
  BY <1>2, <1>7 DEF EndInv
<1>8. CASE kind # "iso" /\ has'
  <2>1. pc'["event"] \in {"poll", "discard"}
    BY <1>1, <1>2, <1>8 DEF PlacesInv, Threads
  <2> QED
    BY <1>6, <2>1 DEF EndInv, Ending
<1>9. CASE kind # "iso" /\ ~has'
  <2>1. done = <<>>
    <3>1. CASE retired' = num /\ retired' = retired + 1
      BY <1>2, <3>1, OneMore
    <3>2. CASE urbs[cur].status = "overflow"
      BY <1>1, <1>3, <3>2 DEF OverflowInv
    <3>3. CASE HandleControl
      <4>1. num = 1
        <5>1. kind = "control" /\ num # 0
          <6>1. kind = "control"
            BY <3>3 DEF HandleControl
          <6> QED
            BY <1>1, <1>3, <6>1
        <5> QED
          BY <1>1, <5>1, OneForControl
      <4>2. Len(done) \in Nat /\ \A k \in 1..Len(done) : done[k] \in 1..num /\ urbs[done[k]].st = "done"
        BY <1>1 DEF DoneInv
      <4>3. Len(done) = 0
        <5> SUFFICES ASSUME Len(done) # 0 PROVE FALSE
          OBVIOUS
        <5>1. 1 \in 1..Len(done)
          BY <4>2
        <5> QED
          BY <1>3, <4>1, <4>2, <5>1
      <4> QED
        BY <1>1, <4>3, EmptySeq DEF DoneInv
    <3>4. CASE HandleAbnormal
      <4>1. All /\ retired' = retired + 1
        BY <1>2, <1>9, <3>4 DEF HandleAbnormal, Wait
      <4> QED
        BY <3>1, <4>1 DEF All
    <3>5. CASE HandleBulk
      <4>1. urbs[cur].status # "overflow" => All /\ retired' = retired + 1
        BY <1>2, <1>9, <3>5 DEF HandleBulk, Wait, DiscardRest
      <4> QED
        BY <1>2, <3>1, <3>2, <4>1 DEF All
    <3>6. ~HandleIso
      BY <1>9 DEF HandleIso
    <3> QED
      BY <3>3, <3>4, <3>5, <3>6 DEF HandleSteps
  <2>2. transferred + Carried = sent
    BY <1>3, <1>9, <2>1, AllCounted
  <2> QED
    BY <1>4, <1>5, <1>6, <1>9, <2>2 DEF EndInv
<1> QED
  BY <1>7, <1>8, <1>9

LEMMA EndStep ==
  ASSUME Ground, UrbInv, DataInv, UrbFateInv, EndInv, [Next]_vars
  PROVE  EndInv'
<1> USE DEF At, Go, job, priv, kernel, data, threads, flags, ghosts
<1>1. /\ Types /\ PlacesInv /\ LockInv /\ PhaseInv /\ DoneInv /\ JobInv /\ OrderInv
      /\ num \in Nat /\ sent \in Nat
      /\ pc \in [Threads -> AppPlaces \cup EventPlaces]
  BY DEF Ground, ControlInv, UrbInv, Types, PlacesInv
<1>2. Ending \/ Reported => ~has /\ Queued = {}
  BY <1>1 DEF PhaseInv, Ending, Reported, Results, Submission, DoneInv
<1>3. CASE UNCHANGED vars
  BY <1>3 DEF vars, EndInv, Ending, Reported
<1>4. CASE \/ Submit \/ Unlist \/ Cancel \/ SubmitRefused \/ SubmitStops \/ SubmitEndsEarly
           \/ SubmitUrb \/ \E t \in Threads : Walked(t) \/ TimerFires(t) \/ Expire(t) \/ Mark(t)
  <2>1. UNCHANGED <<kind, transferred, sent, alive, reapAfter, result>>
    BY <1>4 DEF Submit, Unlist, Cancel, SubmitRefused, SubmitStops, SubmitEndsEarly, SubmitUrb,
         Walked, TimerFires, Expire, Mark, BeginCancel
  <2>2. told' \in {told, "none", "pending"}
    BY <1>4 DEF Submit, Unlist, Cancel, SubmitRefused, SubmitStops, SubmitEndsEarly, SubmitUrb,
         Walked, TimerFires, Expire, Mark, BeginCancel, Accept
  <2>3. pc'["event"] = pc["event"] \/ pc'["event"] \in {"poll", "discard", "expire", "mark"}
    <3>1. CASE Submit \/ Unlist \/ SubmitRefused \/ SubmitStops \/ SubmitEndsEarly \/ SubmitUrb
      BY <1>1, <3>1 DEF Submit, Unlist, SubmitRefused, SubmitStops, SubmitEndsEarly,
         SubmitUrb, Threads
    <3>2. ASSUME NEW t \in Threads, Walked(t)
          PROVE  pc'["event"] = pc["event"] \/ pc'["event"] \in {"poll", "discard", "expire", "mark"}
      <4>1. t = "event" => walk[t].why \in {"rest", "timeout"}
        BY <1>1, <3>2 DEF Walked, PlacesInv
      <4> QED
        BY <1>1, <3>2, <4>1 DEF Walked, Threads
    <3>3. ASSUME NEW t \in Threads, TimerFires(t) \/ Mark(t)
          PROVE  pc'["event"] = pc["event"] \/ pc'["event"] \in {"poll", "discard", "expire", "mark"}
      BY <1>1, <3>3 DEF TimerFires, Mark, Rest, Threads
    <3>4. ASSUME NEW t \in Threads, Expire(t)
          PROVE  pc'["event"] = pc["event"] \/ pc'["event"] \in {"poll", "discard", "expire", "mark"}
      BY <1>1, <3>4 DEF Expire, BeginCancel, Threads
    <3>5. CASE Cancel
      BY <1>1, <3>5 DEF Cancel, BeginCancel, Threads
    <3> QED
      BY <1>4, <3>1, <3>2, <3>3, <3>4, <3>5
  <2>4. Reported' => Reported /\ told' = told
    BY <2>2 DEF Reported, Results
  <2>5. Ending' => Ending /\ pc'["event"] = pc["event"]
    BY <2>3 DEF Ending
  <2> QED
    BY <2>1, <2>4, <2>5, EndKeeps
<1>5. CASE List
  <2>1. pc'["app"] = "submit" /\ told' = told /\ pc'["event"] = pc["event"]
    BY <1>1, <1>5 DEF List, Threads
  <2>2. told = "none"
    BY <1>1, <1>5 DEF List, PhaseInv
  <2>3. ~Ending' /\ ~Reported'
    BY <1>1, <2>1, <2>2 DEF PhaseInv, Ending, Reported, Results
  <2> QED
    BY <2>3 DEF EndInv
<1>6. CASE Reap \/ Hangup \/ FindLost
  <2>1. UNCHANGED <<kind, transferred, sent, alive, reapAfter, told, result>>
    BY <1>6 DEF Reap, Hangup, FindLost
  <2>2. ~Ending'
    BY <1>1, <1>6 DEF Reap, Hangup, FindLost, Ending, Threads
  <2> QED
    BY <2>1, <2>2, EndKeeps DEF Reported
<1>7. CASE HandleSteps
  BY <1>7, HandleEnd
<1>8. CASE Why \/ Remove \/ Settle
  <2>1. UNCHANGED <<kind, transferred, sent, alive, reapAfter, told>> /\ Ending
    BY <1>8 DEF Why, Remove, Settle, Ending
  <2>2. pc'["event"] # "why" /\ (pc["event"] = "why" \/ result' = result)
    BY <1>1, <1>8 DEF Why, Remove, Settle, Threads
  <2> QED
    BY <2>1, <2>2, EndKeeps DEF Reported
<1>9. CASE Call
  <2>1. /\ UNCHANGED <<kind, transferred, sent, alive, reapAfter>> /\ pc["event"] = "call"
        /\ told' = result \/ result = "completed"
        /\ pc'["event"] = "poll"
    BY <1>1, <1>9 DEF Call, Threads
  <2> QED
    BY <2>1 DEF EndInv, Ending
<1>10. CASE ClearLost
  <2>1. /\ UNCHANGED <<kind, transferred, sent, alive, reapAfter, told>> /\ result' = "no device"
        /\ pc["event"] = "clear" /\ pc'["event"] = "finish"
    BY <1>1, <1>10 DEF ClearLost, Threads
  <2>2. link = "dropped" /\ done = <<>> /\ told = "pending" /\ cur = 0 /\ ~alive
    BY <1>1, <2>1 DEF PhaseInv, DoneInv
  <2>3. kind # "iso" /\ reapAfter => transferred = sent
    <3> SUFFICES ASSUME kind # "iso", reapAfter PROVE transferred = sent
      OBVIOUS
    <3>1. transferred + Carried = sent /\ transferred \in Nat
      BY <2>2, AllCounted DEF DataInv, ChainInv
    <3> QED
      BY <2>2, <3>1 DEF Carried
  <2> QED
    BY <2>1, <2>2, <2>3 DEF EndInv, Ending, Reported, Results
<1>11. CASE \/ UrbDone \/ UrbShort \/ UrbFails \/ UrbOverflows \/ Shutdown \/ Unplug
            \/ \E t \in Threads : DiscardUrb(t)
  <2>1. /\ UNCHANGED <<kind, transferred, told, result, pc>>
        /\ alive' => alive
        /\ ~alive => reapAfter' = reapAfter
    <3>1. CASE UrbDone \/ UrbShort \/ UrbFails \/ UrbOverflows
      BY <3>1 DEF UrbDone, UrbShort, UrbFails, UrbOverflows, Finish
    <3>2. CASE Shutdown
      BY <3>2 DEF Shutdown
    <3>4. ASSUME NEW t \in Threads, DiscardUrb(t)
          PROVE  /\ UNCHANGED <<kind, transferred, told, result, pc>>
                 /\ alive' => alive
                 /\ ~alive => reapAfter' = reapAfter
      <4>1. UNCHANGED <<kind, transferred, told, result, pc, alive, reapAfter>>
        BY <3>4 DEF DiscardUrb
      <4> QED
        BY <4>1
    <3>3. CASE Unplug
      BY <3>3 DEF Unplug
    <3> QED
      BY <1>11, <3>1, <3>2, <3>3, <3>4
  <2>2. sent' = sent \/ (~Ending /\ ~Reported)
    <3>1. CASE Queued # {}
      BY <1>2, <3>1
    <3>2. CASE Queued = {}
      <4>1. CASE UrbDone \/ UrbShort \/ UrbFails \/ UrbOverflows \/ Shutdown
        BY <3>2, <4>1 DEF UrbDone, UrbShort, UrbFails, UrbOverflows, Shutdown
      <4>2. CASE Unplug
        BY <4>2 DEF Unplug
      <4>3. ASSUME NEW t \in Threads, DiscardUrb(t) PROVE sent' = sent
        BY <1>1, <3>2, <4>3, DiscardReturns DEF Returns
      <4> QED
        BY <1>11, <4>1, <4>2, <4>3
    <3> QED
      BY <3>1, <3>2
  <2>3. Ending' => Ending /\ pc'["event"] = pc["event"]
    BY <2>1 DEF Ending
  <2> QED
    BY <2>1, <2>2, <2>3, EndKeeps DEF Reported
<1> QED
  BY <1>3, <1>4, <1>5, <1>6, <1>7, <1>8, <1>9, <1>10, <1>11
     DEF Next, App, Kernel, Event, Either, HandleSteps

-----------------------------------------------------------------------------
(* How a transfer ends, step by step. *)

Base == Ground /\ PlainInv /\ UrbInv /\ DataInv /\ UrbFateInv

LEMMA BaseIs ==
  ASSUME Base
  PROVE  /\ Types /\ PlacesInv /\ LockInv /\ PhaseInv /\ DoneInv /\ JobInv /\ OrderInv
         /\ OverflowInv /\ CountInv
         /\ num \in Nat /\ sent \in Nat
         /\ pc \in [Threads -> AppPlaces \cup EventPlaces]
         /\ walk \in [Threads -> Walks] /\ urbs \in [1..num -> Urbs]
         /\ Ground /\ PlainInv /\ UrbInv /\ DataInv /\ UrbFateInv
BY DEF Base, Ground, ControlInv, UrbInv, Types, PlacesInv, DoneInv

\* One step of discard_urbs.
LEMMA DiscardWalks ==
  ASSUME PlacesInv, NEW t \in Threads, DiscardUrb(t)
  PROVE  /\ pc[t] = "discard" /\ walk[t].k >= walk[t].lo
         /\ walk'[t].k = walk[t].k - 1 /\ walk'[t].why = walk[t].why
         /\ walk'[t].lo = walk[t].lo /\ walk'[t].hi = walk[t].hi
         /\ alive /\ urbs[walk[t].k].st = "queued" => walk'[t].ret = walk[t].ret
         /\ alive /\ urbs[walk[t].k].st # "queued" =>
              walk'[t].ret = IF walk[t].k = walk[t].hi THEN "not found" ELSE walk[t].ret
         /\ ~alive => walk'[t].ret = "no device"
         /\ \A u \in Threads : u # t => walk'[u] = walk[u]
         /\ UNCHANGED <<kind, mode, length, timed, has, num, retired, action, reapStatus, offset,
                        alive, cur, pc, result, told, cancelled, cancelling, timedout, buf>>
<1> USE DEF job, priv, flags, data, ghosts
<1>1. walk \in [Threads -> Walks] /\ walk[t] \in Walks
  BY DEF PlacesInv
<1>2. pc[t] = "discard" /\ walk[t].k >= walk[t].lo
  BY DEF DiscardUrb, Walking, At
<1>3. /\ UNCHANGED <<kind, mode, length, timed, has, num, retired, action, reapStatus, offset,
                     alive, cur, pc, result, told, cancelled, cancelling, timedout, buf>>
  BY DEF DiscardUrb
<1>4. CASE alive /\ urbs[walk[t].k].st = "queued"
  <2>1. walk' = [walk EXCEPT ![t].k = walk[t].k - 1]
    BY <1>4 DEF DiscardUrb, Discarded
  <2> QED
    BY <1>1, <1>2, <1>3, <1>4, <2>1 DEF Walks
<1>5. CASE alive /\ urbs[walk[t].k].st # "queued"
  <2>1. walk' = [walk EXCEPT ![t].k = walk[t].k - 1,
                   ![t].ret = IF walk[t].k = walk[t].hi THEN "not found" ELSE walk[t].ret]
    BY <1>5 DEF DiscardUrb, Discarded
  <2> QED
    BY <1>1, <1>2, <1>3, <1>5, <2>1 DEF Walks
<1>6. CASE ~alive
  <2>1. walk' = [walk EXCEPT ![t].k = walk[t].k - 1, ![t].ret = "no device"]
    BY <1>6 DEF DiscardUrb, Discarded
  <2> QED
    BY <1>1, <1>2, <1>3, <1>6, <2>1 DEF Walks
<1> QED
  BY <1>4, <1>5, <1>6

\* The beginning of a cancellation.
LEMMA CancelBegins ==
  ASSUME Types, PlacesInv, NEW t \in Threads, NEW why \in {"cancel", "timeout"}, NEW next,
         BeginCancel(t, why, next)
  PROVE  /\ UNCHANGED <<kind, mode, length, timed, has, num, retired, action, reapStatus, offset,
                        alive, cur, urbs, done, sent, buf, link, reapAfter, broken, transferred,
                        result, told, cancelled, timedout, flying, inflight, flock>>
         /\ xlock = "free"
         /\ walk' \in [Threads -> Walks] /\ \A u \in Threads : u # t => walk'[u] = walk[u]
         /\ \/ /\ pc' = [pc EXCEPT ![t] = next] /\ walk'[t].ret = "not found"
               /\ cancelling => cancelling'
               /\ cancelling' => cancelling \/ inflight
            \/ /\ pc' = [pc EXCEPT ![t] = "discard"] /\ ~cancelling /\ ~cancelling' /\ has /\ inflight
               /\ walk'[t] = [k |-> num, lo |-> 1, hi |-> num, ret |-> "ok", why |-> why]
<1>1. /\ UNCHANGED <<kind, mode, length, timed, has, num, retired, action, reapStatus, offset,
                     alive, cur, urbs, done, sent, buf, link, reapAfter, broken, transferred,
                     result, told, cancelled, timedout, flying, inflight, flock>>
      /\ xlock = "free"
  BY DEF BeginCancel, job, priv, kernel, data, ghosts
<1>2. walk' \in [Threads -> Walks] /\ \A u \in Threads : u # t => walk'[u] = walk[u]
  BY BeginMoves
<1> DEFINE w == [k |-> num, lo |-> 1, hi |-> num, ret |-> "ok", why |-> why]
<1>3. CASE inflight /\ ~cancelling /\ has
  <2>1. walk' = [walk EXCEPT ![t] = w] /\ pc' = [pc EXCEPT ![t] = "discard"] /\ cancelling' = cancelling
    BY <1>3 DEF BeginCancel, Go
  <2>2. walk'[t] = w
    BY <2>1 DEF PlacesInv
  <2> QED
    BY <1>1, <1>2, <1>3, <2>1, <2>2
<1>4. CASE ~(inflight /\ ~cancelling /\ has)
  <2>1. /\ pc' = [pc EXCEPT ![t] = next] /\ walk' = [walk EXCEPT ![t].ret = "not found"]
        /\ cancelling' = (cancelling \/ inflight)
    BY <1>4 DEF BeginCancel, Go
  <2>2. walk'[t].ret = "not found"
    BY <2>1 DEF PlacesInv, Walks
  <2> QED
    BY <1>1, <1>2, <2>1, <2>2
<1> QED
  BY <1>3, <1>4

\* The end of discard_urbs.
LEMMA WalkedMoves ==
  ASSUME PlacesInv, NEW t \in Threads, Walked(t)
  PROVE  /\ pc[t] = "discard" /\ ~(walk[t].k >= walk[t].lo)
         /\ UNCHANGED <<kind, mode, length, timed, has, num, retired, reapStatus, offset, alive, cur,
                        urbs, done, sent, buf, result, timedout, walk>>
         /\ \/ /\ walk[t].why = "submit" /\ pc' = [pc EXCEPT ![t] = "idle"]
               /\ UNCHANGED <<action, cancelling, cancelled>> /\ told' = "pending"
            \/ /\ walk[t].why = "rest" /\ pc' = [pc EXCEPT ![t] = "poll"]
               /\ UNCHANGED <<action, cancelling, cancelled, told>>
            \/ /\ walk[t].why \in {"cancel", "timeout"} /\ cancelling' /\ told' = told
               /\ pc' = [pc EXCEPT ![t] = IF walk[t].why = "timeout" THEN "mark" ELSE "idle"]
               /\ IF walk[t].ret = "ok" /\ ~(kind = "bulk" /\ action = "error")
                  THEN action' = "cancelled" ELSE action' = action
               /\ cancelled => cancelled'
               /\ cancelled' => cancelled \/ (walk[t].why = "cancel" /\ walk[t].ret = "ok")
               /\ walk[t].why = "cancel" /\ walk[t].ret = "ok" => cancelled'
<1> USE DEF job, data, ghosts
<1>1. pc[t] = "discard" /\ ~(walk[t].k >= walk[t].lo)
  BY DEF Walked, Walking, At
<1>2. UNCHANGED <<kind, mode, length, timed, has, num, retired, reapStatus, offset, alive, cur,
                  urbs, done, sent, buf, result, timedout, walk>>
  BY DEF Walked, kernel
<1>3. CASE walk[t].why = "submit"
  BY <1>1, <1>2, <1>3 DEF Walked, Accept, Go
<1>4. CASE walk[t].why = "rest"
  BY <1>1, <1>2, <1>4 DEF Walked, Go
<1>5. CASE walk[t].why \in {"cancel", "timeout"}
  <2>1. /\ action' = IF walk[t].ret = "ok" /\ ~(kind = "bulk" /\ action = "error")
                     THEN "cancelled" ELSE action
        /\ cancelling' = TRUE /\ told' = told
        /\ cancelled' = (cancelled \/ (walk[t].why = "cancel" /\ walk[t].ret = "ok"))
        /\ pc' = [pc EXCEPT ![t] = IF walk[t].why = "timeout" THEN "mark" ELSE "idle"]
    BY <1>5 DEF Walked, Go
  <2>2. /\ cancelled => cancelled'
        /\ cancelled' => cancelled \/ (walk[t].why = "cancel" /\ walk[t].ret = "ok")
        /\ walk[t].why = "cancel" /\ walk[t].ret = "ok" => cancelled'
    BY <2>1
  <2>3. IF walk[t].ret = "ok" /\ ~(kind = "bulk" /\ action = "error")
        THEN action' = "cancelled" ELSE action' = action
    BY <2>1
  <2> QED
    BY <1>1, <1>2, <1>5, <2>1, <2>2, <2>3
<1> QED
  BY <1>3, <1>4, <1>5 DEF Walked

LEMMA KindKeeps ==
  ASSUME KindMode, UNCHANGED <<kind, num, reapStatus>>, has' => has,
         action' = action \/ (action' = "cancelled" /\ pc'["app"] # "submit"),
         pc'["app"] = "submit" => pc["app"] = "submit",
         pc["app"] = "submit" => pc'["app"] = "submit" \/ ~has',
         \A i \in 1..num : urbs'[i].st = "none" => urbs[i].st = "none"
  PROVE  KindMode'
<1>1. kind' = kind /\ num' = num /\ reapStatus' = reapStatus
  OBVIOUS
<1>2. reapStatus' \notin {"cancelled", "timed out"}
  BY DEF KindMode
<1>3. pc'["app"] = "submit" => action' = "normal" /\ reapStatus' = "completed"
  BY DEF KindMode
<1>4. has' /\ action' = "normal" /\ pc'["app"] # "submit" => \A i \in 1..num : urbs'[i].st # "none"
  BY DEF KindMode
<1>5. /\ has' /\ kind = "iso" =>
           action' \in {"normal", "submit_failed", "cancelled"} /\ reapStatus' = "completed"
      /\ has' /\ kind = "control" =>
           action' \in {"normal", "cancelled"} /\ reapStatus' = "completed"
  BY DEF KindMode
<1> QED
  BY <1>1, <1>2, <1>3, <1>4, <1>5 DEF KindMode

LEMMA KindStep ==
  ASSUME Base, KindMode, [Next]_vars
  PROVE  KindMode'
<1> USE DEF At, Go
<1>1. /\ Types /\ PlacesInv /\ LockInv /\ PhaseInv /\ DoneInv /\ JobInv /\ OrderInv
      /\ num \in Nat /\ sent \in Nat /\ pc \in [Threads -> AppPlaces \cup EventPlaces]
      /\ urbs \in [1..num -> Urbs] /\ Ground /\ UrbInv /\ UrbFateInv
  BY BaseIs
<1>2. CASE UNCHANGED vars
  <2>1. UNCHANGED <<kind, num, reapStatus, has, action, pc, urbs>>
    BY <1>2 DEF vars, job, priv, kernel, threads
  <2> QED
    BY <2>1, KindKeeps
<1>3. CASE Submit \/ Unlist \/ Why \/ Remove \/ Settle \/ Call \/ Unplug \/ Hangup \/ FindLost
  <2>1. UNCHANGED <<kind, num, reapStatus, has, action, urbs>>
    BY <1>3 DEF Submit, Unlist, Why, Remove, Settle, Call, Unplug, Hangup, FindLost,
       job, priv, kernel
  <2>2. /\ pc'["app"] = "submit" => pc["app"] = "submit"
        /\ pc["app"] = "submit" => pc'["app"] = "submit"
    BY <1>1, <1>3 DEF Submit, Unlist, Why, Remove, Settle, Call, Unplug, Hangup,
       FindLost, threads, Threads
  <2> QED
    BY <2>1, <2>2, KindKeeps
<1>4. CASE ClearLost
  <2>1. UNCHANGED <<kind, num, reapStatus, action, urbs>> /\ ~has' /\ pc'["app"] = pc["app"]
    BY <1>1, <1>4 DEF ClearLost, job, kernel, Threads
  <2> QED
    BY <2>1, KindKeeps
<1>5. ASSUME NEW t \in Threads, TimerFires(t) \/ Mark(t) PROVE KindMode'
  <2>1. UNCHANGED <<kind, num, reapStatus, has, action, urbs>>
    BY <1>5 DEF TimerFires, Mark, job, priv, kernel
  <2>2. /\ pc'["app"] = "submit" => pc["app"] = "submit"
        /\ pc["app"] = "submit" => pc'["app"] = "submit"
    BY <1>1, <1>5 DEF TimerFires, Mark, Rest, Threads
  <2> QED
    BY <2>1, <2>2, KindKeeps
<1>6. ASSUME NEW t \in Threads, NEW why \in {"cancel", "timeout"}, NEW next \in {"idle", "mark"},
             pc[t] \in {"idle", "expire"}, BeginCancel(t, why, next)
      PROVE  KindMode'
  <2>1. UNCHANGED <<kind, num, reapStatus, has, action, urbs>>
    BY <1>1, <1>6, CancelBegins
  <2>2. pc' = [pc EXCEPT ![t] = next] \/ pc' = [pc EXCEPT ![t] = "discard"]
    <3>1. Types /\ PlacesInv /\ BeginCancel(t, why, next)
      BY <1>1, <1>6
    <3> QED
      BY <3>1, CancelBegins, Zenon
  <2>3. /\ pc'["app"] = "submit" => pc["app"] = "submit"
        /\ pc["app"] = "submit" => pc'["app"] = "submit"
    BY <1>1, <1>6, <2>2 DEF Threads
  <2> QED
    BY <2>1, <2>3, KindKeeps
<1>7. CASE Cancel \/ \E t \in Threads : Expire(t)
  BY <1>6, <1>7 DEF Cancel, Expire, Threads
<1>8. ASSUME NEW t \in Threads, Walked(t) PROVE KindMode'
  <2>1. /\ UNCHANGED <<kind, num, reapStatus, has, urbs>> /\ action' \in {action, "cancelled"}
        /\ pc[t] = "discard"
    BY <1>1, <1>8, WalkedMoves
  <2>2. \E p \in {"idle", "poll", "mark"} : pc' = [pc EXCEPT ![t] = p]
    BY <1>1, <1>8, WalkedMoves
  <2>3. pc["app"] # "submit" /\ pc'["app"] # "submit"
    <3>1. xlock = t
      BY <1>1, <2>1 DEF LockInv, HoldsTransfer
    <3>2. pc["app"] # "submit"
      BY <1>1, <2>1, <3>1 DEF LockInv, HoldsTransfer, Threads
    <3> QED
      BY <1>1, <2>2, <3>2 DEF Threads
  <2> QED
    BY <2>1, <2>3, KindKeeps
<1>9. CASE List
  <2>1. /\ reapStatus' = "completed" /\ action' = "normal" /\ pc'["app"] = "submit"
    BY <1>1, <1>9 DEF List, Threads
  <2> QED
    BY <2>1 DEF KindMode
<1>10. CASE SubmitUrb
  <2>1. /\ UNCHANGED <<kind, num, reapStatus, has, action>> /\ pc["app"] = "submit"
        /\ urbs' = [urbs EXCEPT ![Submitting].st = "queued"]
        /\ Submitting = num \/ pc' = pc
    BY <1>10 DEF SubmitUrb, job, priv
  <2>2. /\ Submitting \in 1..num
        /\ \A i \in 1..num : urbs[i].st = "none" => i >= Submitting
    BY <1>1, <2>1 DEF OrderInv, WalkInv
  <2>3. urbs'[Submitting].st = "queued" /\ \A i \in 1..num : i # Submitting => urbs'[i] = urbs[i]
    BY <1>1, <2>1, <2>2 DEF Urbs
  <2>4. CASE pc' = pc
    BY <2>1, <2>3, <2>4, KindKeeps
  <2>5. CASE Submitting = num
    <3>1. \A i \in 1..num : urbs'[i].st # "none"
      <4> SUFFICES ASSUME NEW i \in 1..num PROVE urbs'[i].st # "none"
        OBVIOUS
      <4>1. CASE i = num
        BY <2>3, <2>5, <4>1
      <4>2. CASE i # num
        <5>1. ~(i >= Submitting)
          BY <1>1, <2>5, <4>2
        <5> QED
          BY <2>2, <2>3, <2>5, <4>2, <5>1
      <4> QED
        BY <4>1, <4>2
    <3> QED
      BY <2>1, <3>1 DEF KindMode
  <2> QED
    BY <2>1, <2>4, <2>5
<1>11. CASE SubmitRefused
  <2>1. UNCHANGED <<kind, num, reapStatus, action, urbs>> /\ ~has' /\ pc'["app"] = "unlist"
    BY <1>1, <1>11 DEF SubmitRefused, job, kernel, Threads
  <2> QED
    BY <2>1, KindKeeps
<1>12. CASE SubmitStops
  <2>1. /\ UNCHANGED <<kind, num, reapStatus, has, urbs>> /\ action' = "submit_failed"
        /\ pc'["app"] = "discard" /\ pc["app"] = "submit" /\ Submitting > 1
    BY <1>1, <1>12 DEF SubmitStops, job, kernel, Threads
  <2>2. kind # "control"
    <3> SUFFICES ASSUME kind = "control" PROVE FALSE
      OBVIOUS
    <3>1. Submitting \in 1..num
      BY <1>1, <2>1 DEF OrderInv, WalkInv
    <3>2. num = 1
      BY <1>1, <3>1, OneForControl
    <3> QED
      BY <2>1, <3>1, <3>2
  <2> QED
    BY <2>1, <2>2 DEF KindMode
<1>13. CASE SubmitEndsEarly
  <2>1. /\ UNCHANGED <<kind, num, reapStatus, has, urbs>> /\ action' = "early"
        /\ pc'["app"] = "idle" /\ pc["app"] = "submit" /\ broken
    BY <1>1, <1>13 DEF SubmitEndsEarly, job, kernel, Threads
  <2>2. kind = "bulk"
    BY <1>1, <2>1 DEF UrbFateInv, KeptInv
  <2> QED
    BY <2>1, <2>2 DEF KindMode
<1>14. ASSUME NEW i, NEW last, NEW status, NEW n \in Nat, Returns(i, status, n, last)
       PROVE  KindMode'
  <2>1. /\ \A j \in i..last : urbs'[j].st = "done"
        /\ \A j \in 1..num : j \notin i..last => urbs'[j] = urbs[j]
    BY <1>1, <1>14, ReturnsIs DEF Back
  <2>2. UNCHANGED <<kind, num, has, action, reapStatus, pc>>
    BY <1>14 DEF Returns, job, priv
  <2> QED
    BY <2>1, <2>2, KindKeeps
<1>15. CASE UrbDone \/ UrbShort \/ UrbFails \/ UrbOverflows \/ Shutdown
  <2>1. PICK i \in 1..num, last \in 1..num, status \in Statuses, n \in Nat :
          Returns(i, status, n, last)
    BY <1>1, <1>15, KernelReturns
  <2> QED
    BY <1>14, <2>1
<1>16. ASSUME NEW t \in Threads, DiscardUrb(t) PROVE KindMode'
  <2>1. /\ \/ UNCHANGED <<urbs, done, sent>>
           \/ \E n \in Nat : Returns(walk[t].k, "cancelled", n, walk[t].k)
        /\ UNCHANGED <<kind, num, has, action, reapStatus, pc>>
    BY <1>1, <1>16, DiscardReturns DEF job, priv
  <2>2. CASE UNCHANGED <<urbs, done, sent>>
    BY <2>1, <2>2, KindKeeps
  <2> QED
    BY <1>14, <2>1, <2>2
<1>17. CASE Reap
  <2>1. /\ UNCHANGED <<kind, num, has, action, reapStatus>> /\ pc'["app"] = pc["app"]
        /\ urbs'[cur'].st = "reaped"
        /\ \A j \in 1..num : j # cur' => urbs'[j].st = urbs[j].st
    BY <1>1, <1>17, ReapMoves DEF job
  <2> QED
    BY <2>1, KindKeeps
<1>18. CASE HandleSteps
  <2>1. /\ UNCHANGED <<urbs, kind, num>> /\ cur' = 0 /\ pc["event"] = "handle" /\ has
        /\ pc["app"] # "submit"
        /\ \E p \in {"why", "finish", "poll", "discard"} : pc' = [pc EXCEPT !["event"] = p]
    BY <1>1, <1>18, HandleMoves DEF HandleSteps, job
  <2>2. pc'["app"] = pc["app"]
    BY <1>1, <2>1 DEF Threads
  <2>3. CASE HandleControl
    <3>1. ~has' /\ reapStatus' = reapStatus
      BY <2>3 DEF HandleControl, Over
    <3> QED
      BY <2>1, <2>2, <3>1 DEF KindMode
  <2>4. CASE HandleIso
    <3>1. kind = "iso" /\ UNCHANGED <<action, reapStatus>>
      BY <2>4 DEF HandleIso
    <3> QED
      BY <2>1, <2>2, <3>1 DEF KindMode
  <2>5. CASE HandleAbnormal
    <3>1. /\ kind \in {"bulk", "interrupt"} /\ action # "normal" /\ action' = action
          /\ reapStatus' \in {"error", reapStatus}
      BY <2>5 DEF HandleAbnormal
    <3> QED
      BY <2>1, <2>2, <3>1 DEF KindMode
  <2>6. CASE HandleBulk
    <3>1. kind \in {"bulk", "interrupt"} /\ action = "normal"
      BY <2>6 DEF HandleBulk
    <3>2. reapStatus' \in {"no device", "stall", "overflow", "error", "completed", reapStatus}
      BY <2>6 DEF HandleBulk
    <3> QED
      BY <2>1, <2>2, <3>1, <3>2 DEF KindMode
  <2> QED
    BY <1>18, <2>3, <2>4, <2>5, <2>6 DEF HandleSteps
<1> QED
  BY <1>2, <1>3, <1>4, <1>5, <1>7, <1>8, <1>9, <1>10, <1>11, <1>12, <1>13, <1>15, <1>16,
     <1>17, <1>18
     DEF Next, App, Kernel, Event, Either, HandleSteps

\* Only one thread submits or discards at a time, and none while the lock is
\* free.
LEMMA OneWalks ==
  ASSUME LockInv
  PROVE  /\ \A t, u \in Threads : pc[t] \in {"submit", "discard"} /\ t # u =>
              pc[u] \notin {"submit", "discard"}
         /\ xlock = "free" => \A t \in Threads : pc[t] \notin {"submit", "discard"}
BY DEF LockInv, HoldsTransfer, Threads

LEMMA WalkKeeps ==
  ASSUME WalkMode, UNCHANGED <<num, action, reapStatus>>,
         \A t \in Threads : pc'[t] = "discard" => pc[t] = "discard" /\ walk'[t] = walk[t]
  PROVE  WalkMode'
BY DEF WalkMode

LEMMA WalkStep ==
  ASSUME Base, ModeInv, [Next]_vars
  PROVE  WalkMode'
<1> USE DEF At, Go
<1>1. /\ Types /\ PlacesInv /\ LockInv /\ PhaseInv /\ DoneInv /\ JobInv /\ OrderInv
      /\ num \in Nat /\ sent \in Nat /\ pc \in [Threads -> AppPlaces \cup EventPlaces]
      /\ urbs \in [1..num -> Urbs] /\ Ground /\ UrbInv /\ UrbFateInv
      /\ WalkMode /\ ErrorMode /\ walk \in [Threads -> Walks]
  BY BaseIs DEF ModeInv
<1>2. CASE UNCHANGED vars
  <2>1. UNCHANGED <<num, reapStatus, action, pc, walk>>
    BY <1>2 DEF vars, priv, threads
  <2> QED
    BY <1>1, <2>1, WalkKeeps
<1>3. CASE Submit \/ Unlist \/ Why \/ Remove \/ Settle \/ Call \/ Unplug \/ Hangup \/ FindLost \/ ClearLost
  <2>1. UNCHANGED <<num, reapStatus, action, walk>>
    BY <1>3 DEF Submit, Unlist, Why, Remove, Settle, Call, Unplug, Hangup, FindLost,
       ClearLost, priv, threads
  <2>2. \A t \in Threads : pc'[t] = "discard" => pc[t] = "discard"
    BY <1>1, <1>3 DEF Submit, Unlist, Why, Remove, Settle, Call, Unplug, Hangup,
       FindLost, ClearLost,
         threads, Threads
  <2> QED
    BY <1>1, <2>1, <2>2, WalkKeeps
<1>4. ASSUME NEW t \in Threads, TimerFires(t) \/ Mark(t) PROVE WalkMode'
  <2>1. UNCHANGED <<num, reapStatus, action, walk>>
    BY <1>4 DEF TimerFires, Mark, priv
  <2>2. \A u \in Threads : pc'[u] = "discard" => pc[u] = "discard"
    BY <1>1, <1>4 DEF TimerFires, Mark, Rest, Threads
  <2> QED
    BY <1>1, <2>1, <2>2, WalkKeeps
<1>5. ASSUME NEW t \in Threads, NEW why \in {"cancel", "timeout"}, NEW next \in {"idle", "mark"},
             BeginCancel(t, why, next)
      PROVE  WalkMode'
  <2>0. Types /\ PlacesInv /\ BeginCancel(t, why, next)
    BY <1>1, <1>5
  <2>1. /\ UNCHANGED <<num, reapStatus, action>> /\ xlock = "free"
        /\ \A u \in Threads : u # t => walk'[u] = walk[u]
        /\ \/ pc' = [pc EXCEPT ![t] = next]
           \/ /\ pc' = [pc EXCEPT ![t] = "discard"]
              /\ walk'[t] = [k |-> num, lo |-> 1, hi |-> num, ret |-> "ok", why |-> why]
    BY <2>0, CancelBegins, Zenon
  <2>2. \A u \in Threads : pc[u] # "discard"
    BY <1>1, <2>1, OneWalks
  <2>3. CASE pc' = [pc EXCEPT ![t] = next]
    <3>1. \A u \in Threads : pc'[u] # "discard"
      BY <1>1, <2>2, <2>3
    <3> QED
      BY <3>1 DEF WalkMode
  <2>4. CASE /\ pc' = [pc EXCEPT ![t] = "discard"]
             /\ walk'[t] = [k |-> num, lo |-> 1, hi |-> num, ret |-> "ok", why |-> why]
    <3>1. \A u \in Threads : pc'[u] = "discard" => u = t
      BY <1>1, <2>2, <2>4
    <3>2. /\ walk'[t].lo = 1 /\ walk'[t].hi = num /\ walk'[t].k = num /\ walk'[t].ret = "ok"
          /\ walk'[t].why \in {"cancel", "timeout"}
      BY <2>4
    <3> QED
      BY <2>1, <3>1, <3>2 DEF WalkMode
  <2> QED
    BY <2>1, <2>3, <2>4
<1>6. CASE Cancel \/ \E t \in Threads : Expire(t)
  BY <1>5, <1>6 DEF Cancel, Expire, Threads
<1>7. ASSUME NEW t \in Threads, Walked(t) PROVE WalkMode'
  <2>1. pc[t] = "discard" /\ walk' = walk
    BY <1>1, <1>7, WalkedMoves
  <2>2. \E p \in {"idle", "poll", "mark"} : pc' = [pc EXCEPT ![t] = p]
    BY <1>1, <1>7, WalkedMoves
  <2>3. \A u \in Threads : pc'[u] # "discard"
    BY <1>1, <2>1, <2>2, OneWalks
  <2> QED
    BY <2>3 DEF WalkMode
<1>8. CASE List \/ SubmitUrb \/ SubmitRefused \/ SubmitEndsEarly
  <2>1. \A u \in Threads : pc[u] # "discard"
    <3>1. CASE List
      BY <1>1, <3>1, OneWalks DEF List
    <3>2. CASE SubmitUrb \/ SubmitRefused \/ SubmitEndsEarly
      <4>1. pc["app"] = "submit"
        BY <3>2 DEF SubmitUrb, SubmitRefused, SubmitEndsEarly
      <4> QED
        BY <1>1, <4>1, OneWalks DEF Threads
    <3> QED
      BY <1>8, <3>1, <3>2
  <2>2. pc' = pc \/ \E p \in {"submit", "idle", "unlist"} : pc' = [pc EXCEPT !["app"] = p]
    BY <1>8 DEF List, SubmitUrb, SubmitRefused, SubmitEndsEarly
  <2>3. \A u \in Threads : pc'[u] # "discard"
    BY <1>1, <2>1, <2>2
  <2> QED
    BY <2>3 DEF WalkMode
<1>9. CASE SubmitStops
  <2>1. /\ pc["app"] = "submit" /\ action' = "submit_failed"
        /\ pc' = [pc EXCEPT !["app"] = "discard"]
        /\ walk' = [walk EXCEPT !["app"] =
             [k |-> Submitting - 1, lo |-> 1, hi |-> Submitting - 1, ret |-> "ok", why |-> "submit"]]
    BY <1>9 DEF SubmitStops
  <2>2. walk'["app"].why = "submit"
    BY <1>1, <2>1 DEF Threads
  <2>3. \A u \in Threads : pc'[u] = "discard" => u = "app"
    BY <1>1, <2>1, OneWalks DEF Threads
  <2> QED
    BY <2>1, <2>2, <2>3 DEF WalkMode
<1>10. CASE UrbDone \/ UrbShort \/ UrbFails \/ UrbOverflows \/ Shutdown
  <2>1. UNCHANGED <<num, action, reapStatus, pc, walk>>
    BY <1>10 DEF UrbDone, UrbShort, UrbFails, UrbOverflows, Shutdown, Finish, priv, threads
  <2> QED
    BY <1>1, <2>1, WalkKeeps
<1>11. ASSUME NEW t \in Threads, DiscardUrb(t) PROVE WalkMode'
  <2>1. /\ pc[t] = "discard" /\ walk'[t].k = walk[t].k - 1 /\ walk'[t].why = walk[t].why
        /\ walk'[t].lo = walk[t].lo /\ walk'[t].hi = walk[t].hi
        /\ alive /\ urbs[walk[t].k].st = "queued" => walk'[t].ret = walk[t].ret
        /\ alive /\ urbs[walk[t].k].st # "queued" =>
             walk'[t].ret = IF walk[t].k = walk[t].hi THEN "not found" ELSE walk[t].ret
        /\ ~alive => walk'[t].ret = "no device"
        /\ UNCHANGED <<num, action, reapStatus, pc>>
    BY <1>1, <1>11, DiscardWalks
  <2>2. \A u \in Threads : pc'[u] = "discard" => u = t
    BY <1>1, <2>1, OneWalks
  <2>3. walk[t].k \in 1..num
    BY <1>1, <1>11, DiscardReturns
  <2>4. walk'[t].k # num
    <3> DEFINE k == walk[t].k
    <3>1. num \in Nat /\ walk'[t].k = k - 1 /\ k \in 1..num
      BY <1>1, <2>1, <2>3
    <3> HIDE DEF k
    <3> QED
      BY <3>1
  <2>5. ASSUME walk[t].why \in {"cancel", "timeout"}, action = "error" PROVE walk'[t].ret # "ok"
    <3>1. walk[t].k = num \/ walk[t].ret # "ok"
      BY <1>1, <2>1, <2>5 DEF WalkMode
    <3>2. CASE walk[t].k # num
      BY <2>1, <3>1, <3>2
    <3>3. CASE walk[t].k = num /\ alive
      <4>1. urbs[num].st # "queued"
        <5> SUFFICES ASSUME urbs[num].st = "queued" PROVE FALSE
          OBVIOUS
        <5>1. has
          BY <1>1, <2>1 DEF PhaseInv, Threads
        <5>2. pc["event"] = "discard" /\ walk["event"].why = "rest"
          BY <1>1, <2>5, <3>3, <5>1 DEF ErrorMode, Walking
        <5>3. t = "event"
          BY <1>1, <2>1, <5>2, OneWalks DEF Threads
        <5> QED
          BY <2>5, <5>2, <5>3
      <4>2. walk[t].hi = num
        BY <1>1, <2>1, <2>5 DEF WalkMode
      <4> QED
        BY <2>1, <3>3, <4>1, <4>2
    <3>4. CASE ~alive
      BY <2>1, <3>4
    <3> QED
      BY <3>2, <3>3, <3>4
  <2> QED
    BY <1>1, <2>1, <2>2, <2>4, <2>5 DEF WalkMode
<1>12. CASE Reap
  <2>1. /\ UNCHANGED <<num, action, reapStatus, walk>> /\ pc'["app"] = pc["app"] /\ pc'["event"] = "handle"
    BY <1>1, <1>12, ReapMoves
  <2> QED
    BY <1>1, <2>1, WalkKeeps DEF Threads
<1>13. CASE HandleSteps
  <2>1. /\ UNCHANGED <<kind, num>> /\ pc["event"] = "handle" /\ xlock = "free"
        /\ \/ \E p \in {"why", "finish", "poll"} : pc' = [pc EXCEPT !["event"] = p]
           \/ /\ pc' = [pc EXCEPT !["event"] = "discard"] /\ xlock' = "event"
              /\ walk' = [walk EXCEPT !["event"] =
                     [k |-> num, lo |-> cur + 1, hi |-> num, ret |-> "ok", why |-> "rest"]]
    BY <1>1, <1>13, HandleMoves DEF HandleSteps, job
  <2>2. \A u \in Threads : pc[u] # "discard"
    BY <1>1, <2>1, OneWalks
  <2>3. CASE \E p \in {"why", "finish", "poll"} : pc' = [pc EXCEPT !["event"] = p]
    <3>1. \A u \in Threads : pc'[u] # "discard"
      BY <1>1, <2>2, <2>3
    <3> QED
      BY <3>1 DEF WalkMode
  <2>4. CASE /\ pc' = [pc EXCEPT !["event"] = "discard"] /\ xlock' = "event"
             /\ walk' = [walk EXCEPT !["event"] =
                     [k |-> num, lo |-> cur + 1, hi |-> num, ret |-> "ok", why |-> "rest"]]
    <3>1. \A u \in Threads : pc'[u] = "discard" => u = "event"
      BY <1>1, <2>2, <2>4
    <3>2. walk'["event"].why = "rest"
      BY <1>1, <2>4 DEF Threads
    <3>3. action' # "normal" \/ reapStatus' # "completed"
      <4>1. CASE HandleBulk
        <5>1. pc'["event"] = "discard"
          BY <1>1, <2>4 DEF Threads
        <5> DEFINE u == urbs[cur]
                   fault == CASE u.status = "gone" -> "no device"
                              [] u.status = "stall" -> "stall"
                              [] u.status = "overflow" -> "overflow"
                              [] u.status = "bus" -> "error"
                              [] OTHER -> "completed"
        <5>2. /\ action' = IF fault = "error" THEN "error"
                           ELSE IF fault = "completed" /\ ~All /\ Short(u) THEN "early" ELSE action
              /\ reapStatus' = IF fault = "no device" \/ reapStatus = "completed" THEN fault ELSE reapStatus
              /\ IF All \/ fault = "overflow" THEN Over(reapStatus')
                 ELSE IF fault # "completed" \/ Short(u) THEN DiscardRest ELSE Wait
          BY <4>1 DEF HandleBulk
        <5>3. ~All /\ (fault # "completed" \/ Short(u))
          <6>1. /\ Over(reapStatus') => xlock' = xlock
                /\ Wait => xlock' = xlock
            BY DEF Over, Wait
          <6> HIDE DEF u, fault
          <6> QED
            BY <2>1, <2>4, <5>2, <6>1
        <5> HIDE DEF u, fault
        <5> QED
          BY <5>2, <5>3
      <4>2. ~HandleIso /\ ~HandleControl /\ ~HandleAbnormal
        <5>1. pc'["event"] = "discard"
          BY <1>1, <2>4 DEF Threads
        <5>2. xlock' # xlock
          BY <2>1, <2>4
        <5> QED
          BY <5>2 DEF HandleIso, HandleControl, HandleAbnormal, Over, Wait
      <4> QED
        BY <1>13, <4>1, <4>2 DEF HandleSteps
    <3> QED
      BY <3>1, <3>2, <3>3 DEF WalkMode
  <2> QED
    BY <2>1, <2>3, <2>4
<1> QED
  BY <1>2, <1>3, <1>4, <1>6, <1>7, <1>8, <1>9, <1>10, <1>11, <1>12, <1>13
     DEF Next, App, Kernel, Event, Either, HandleSteps

LEMMA ErrorKeeps ==
  ASSUME ErrorMode, num' = num,
         action' = "error" => action = "error", has' => has, alive' => alive,
         urbs'[num].st = "queued" => urbs[num].st = "queued",
         pc["event"] = "discard" => pc'["event"] = "discard" /\ walk'["event"] = walk["event"]
  PROVE  ErrorMode'
BY DEF ErrorMode, Walking, At

LEMMA ErrorStep ==
  ASSUME Base, ModeInv, [Next]_vars
  PROVE  ErrorMode'
<1> USE DEF At, Go
<1>1. /\ Types /\ PlacesInv /\ LockInv /\ PhaseInv /\ DoneInv /\ JobInv /\ OrderInv
      /\ num \in Nat /\ sent \in Nat /\ pc \in [Threads -> AppPlaces \cup EventPlaces]
      /\ urbs \in [1..num -> Urbs] /\ Ground /\ UrbInv /\ UrbFateInv
      /\ ErrorMode /\ KindMode /\ walk \in [Threads -> Walks]
  BY BaseIs DEF ModeInv
<1>2. CASE UNCHANGED vars
  <2>1. UNCHANGED <<num, has, alive, urbs, action, pc, walk>>
    BY <1>2 DEF vars, priv, kernel, threads
  <2> QED
    BY <1>1, <2>1, ErrorKeeps
<1>3. CASE Submit \/ Unlist \/ Why \/ Remove \/ Settle \/ Call \/ Hangup \/ FindLost
  <2>1. UNCHANGED <<num, has, alive, urbs, action, walk>>
    BY <1>3 DEF Submit, Unlist, Why, Remove, Settle, Call, Hangup, FindLost, priv,
       threads, kernel
  <2>2. pc["event"] = "discard" => pc'["event"] = "discard"
    BY <1>1, <1>3 DEF Submit, Unlist, Why, Remove, Settle, Call, Hangup, FindLost,
         threads, Threads
  <2> QED
    BY <1>1, <2>1, <2>2, ErrorKeeps
<1>4. CASE Unplug
  <2>1. ~alive'
    BY <1>4 DEF Unplug
  <2> QED
    BY <2>1 DEF ErrorMode
<1>5. CASE ClearLost \/ SubmitRefused
  <2>1. ~has'
    BY <1>5 DEF ClearLost, SubmitRefused
  <2> QED
    BY <2>1 DEF ErrorMode
<1>6. ASSUME NEW t \in Threads, TimerFires(t) \/ Mark(t) PROVE ErrorMode'
  <2>1. UNCHANGED <<num, has, alive, urbs, action, walk>>
    BY <1>6 DEF TimerFires, Mark, priv, kernel
  <2>2. pc["event"] = "discard" => pc'["event"] = "discard"
    BY <1>1, <1>6 DEF TimerFires, Mark, Rest, Threads
  <2> QED
    BY <1>1, <2>1, <2>2, ErrorKeeps
<1>7. ASSUME NEW t \in Threads, NEW why \in {"cancel", "timeout"}, NEW next \in {"idle", "mark"},
             BeginCancel(t, why, next)
      PROVE  ErrorMode'
  <2>0. Types /\ PlacesInv /\ BeginCancel(t, why, next)
    BY <1>1, <1>7
  <2>1. UNCHANGED <<num, has, alive, urbs, action>> /\ xlock = "free"
    BY <2>0, CancelBegins, Zenon
  <2>2. pc["event"] # "discard"
    BY <1>1, <2>1, OneWalks DEF Threads
  <2> QED
    BY <1>1, <2>1, <2>2, ErrorKeeps
<1>8. CASE Cancel \/ \E t \in Threads : Expire(t)
  BY <1>7, <1>8 DEF Cancel, Expire, Threads
<1>9. ASSUME NEW t \in Threads, Walked(t) PROVE ErrorMode'
  <2>1. /\ pc[t] = "discard" /\ ~(walk[t].k >= walk[t].lo)
        /\ UNCHANGED <<num, has, alive, urbs, walk>>
        /\ action' \in {action, "cancelled"}
    BY <1>1, <1>9, WalkedMoves
  <2>2. \E p \in {"idle", "poll", "mark"} : pc' = [pc EXCEPT ![t] = p]
    BY <1>1, <1>9, WalkedMoves
  <2>3. CASE pc["event"] # "discard"
    BY <1>1, <2>1, <2>3, ErrorKeeps
  <2>4. CASE pc["event"] = "discard"
    <3>1. t = "event"
      BY <1>1, <2>1, <2>4, OneWalks DEF Threads
    <3>2. ~Walking("event")
      BY <2>1, <3>1 DEF Walking
    <3> QED
      BY <1>1, <2>1, <3>2 DEF ErrorMode
  <2> QED
    BY <2>3, <2>4
<1>10. CASE List
  <2>1. action' = "normal"
    BY <1>10 DEF List
  <2> QED
    BY <2>1 DEF ErrorMode
<1>11. CASE SubmitUrb
  <2>1. action' = "normal"
    BY <1>1, <1>11 DEF SubmitUrb, priv, KindMode
  <2> QED
    BY <2>1 DEF ErrorMode
<1>12. CASE SubmitStops \/ SubmitEndsEarly
  <2>1. action' # "error"
    BY <1>12 DEF SubmitStops, SubmitEndsEarly
  <2> QED
    BY <2>1 DEF ErrorMode
<1>13. CASE UrbDone \/ UrbShort \/ UrbFails \/ UrbOverflows \/ Shutdown
  <2>1. PICK i \in 1..num, last \in 1..num, status \in Statuses, n \in Nat :
          Returns(i, status, n, last)
    BY <1>1, <1>13, KernelReturns
  <2>2. /\ \A j \in i..last : urbs'[j].st = "done"
        /\ \A j \in 1..num : j \notin i..last => urbs'[j] = urbs[j]
    <3>1. Back(i, status, n, last)
      BY <1>1, <2>1, ReturnsIs
    <3> QED
      BY <3>1 DEF Back
  <2>3. num \in 1..num
    BY <1>1, <2>1
  <2>4. UNCHANGED <<num, action, has, alive, pc>>
    BY <2>1 DEF Returns, priv
  <2>5. walk' = walk
    BY <1>13 DEF UrbDone, UrbShort, UrbFails, UrbOverflows, Shutdown, Finish, threads
  <2>6. urbs'[num].st = "queued" => urbs[num].st = "queued"
    BY <2>2, <2>3
  <2> QED
    BY <1>1, <2>4, <2>5, <2>6, ErrorKeeps
<1>14. ASSUME NEW t \in Threads, DiscardUrb(t) PROVE ErrorMode'
  <2>1. /\ pc[t] = "discard" /\ UNCHANGED <<num, action, has, alive, pc>>
        /\ \A u \in Threads : u # t => walk'[u] = walk[u]
    BY <1>1, <1>14, DiscardWalks
  <2>2. /\ walk[t].k \in 1..num
        /\ \/ UNCHANGED <<urbs, done, sent>> /\ (alive => urbs[walk[t].k].st # "queued")
           \/ \E n \in Nat : Returns(walk[t].k, "cancelled", n, walk[t].k)
    BY <1>1, <1>14, DiscardReturns
  <2>3. ASSUME NEW n \in Nat, Returns(walk[t].k, "cancelled", n, walk[t].k)
        PROVE  /\ urbs'[walk[t].k].st = "done"
               /\ \A j \in 1..num : j # walk[t].k => urbs'[j] = urbs[j]
    <3>0. Back(walk[t].k, "cancelled", n, walk[t].k)
      BY <1>1, <2>3, ReturnsIs
    <3> DEFINE k == walk[t].k
    <3>1. k \in 1..num /\ num \in Nat
      BY <1>1, <2>2
    <3>2. /\ \A j \in k..k : urbs'[j].st = "done"
          /\ \A j \in 1..num : j \notin k..k => urbs'[j] = urbs[j]
      BY <3>0 DEF Back
    <3> HIDE DEF k
    <3>3. k \in k..k /\ \A j \in 1..num : j # k => j \notin k..k
      BY <3>1
    <3>4. urbs'[k].st = "done" /\ \A j \in 1..num : j # k => urbs'[j] = urbs[j]
      BY <3>2, <3>3
    <3> QED
      BY <3>4 DEF k
  <2>4. urbs'[num].st = "queued" => urbs[num].st = "queued"
    <3>1. num \in 1..num
      BY <1>1, <2>2
    <3> QED
      BY <2>2, <2>3, <3>1
  <2>5. CASE t = "app"
    BY <1>1, <2>1, <2>4, <2>5, ErrorKeeps, OneWalks DEF Threads
  <2>6. CASE t = "event"
    <3> SUFFICES ASSUME action = "error", has, alive, urbs'[num].st = "queued" PROVE FALSE
      BY <2>1 DEF ErrorMode
    <3>1. walk["event"].k = num
      BY <1>1, <2>4 DEF ErrorMode
    <3>2. urbs'[num].st # "queued"
      BY <2>2, <2>3, <2>4, <2>6, <3>1
    <3> QED
      BY <3>2
  <2> QED
    BY <2>5, <2>6 DEF Threads
<1>15. CASE Reap
  <2>1. /\ UNCHANGED <<num, has, action, alive>> /\ pc["event"] = "poll"
        /\ urbs'[cur'].st = "reaped"
        /\ \A j \in 1..num : j # cur' => urbs'[j].st = urbs[j].st
        /\ cur' \in 1..num
    BY <1>1, <1>15, ReapMoves
  <2>2. num \in 1..num
    BY <1>1, <2>1
  <2> QED
    BY <1>1, <2>1, <2>2, ErrorKeeps
<1>16. CASE HandleSteps
  <2>1. /\ UNCHANGED <<urbs, kind, num>> /\ pc["event"] = "handle" /\ xlock = "free" /\ has
    BY <1>1, <1>16, HandleMoves DEF HandleSteps, job
  <2>2. alive' = alive
    BY <1>16 DEF HandleSteps, HandleAbnormal, HandleBulk, HandleIso, HandleControl,
       HandledUnchanged, kernel
  <2>3. CASE HandleAbnormal \/ HandleIso \/ HandleControl
    <3>1. action' = action
      BY <2>3 DEF HandleAbnormal, HandleIso, HandleControl
    <3> QED
      BY <1>1, <2>1, <2>2, <3>1, ErrorKeeps
  <2>4. CASE HandleBulk
    <3> SUFFICES ASSUME action' = "error", has', urbs[num].st = "queued"
                 PROVE  Walking("event")' /\ walk'["event"].why = "rest" /\ walk'["event"].k = num
      BY <2>1 DEF ErrorMode
    <3> DEFINE u == urbs[cur]
               fault == CASE u.status = "gone" -> "no device"
                          [] u.status = "stall" -> "stall"
                          [] u.status = "overflow" -> "overflow"
                          [] u.status = "bus" -> "error"
                          [] OTHER -> "completed"
    <3>1. /\ action' = IF fault = "error" THEN "error"
                       ELSE IF fault = "completed" /\ ~All /\ Short(u) THEN "early" ELSE action
          /\ IF All \/ fault = "overflow" THEN Over(reapStatus')
             ELSE IF fault # "completed" \/ Short(u) THEN DiscardRest ELSE Wait
          /\ action = "normal"
      BY <2>4 DEF HandleBulk
    <3> HIDE DEF u, fault
    <3>2. DiscardRest
      <4>1. fault = "error"
        BY <3>1
      <4>2. ~Over(reapStatus')
        BY DEF Over
      <4> QED
        BY <3>1, <4>1, <4>2
    <3>3. /\ pc' = [pc EXCEPT !["event"] = "discard"]
          /\ walk' = [walk EXCEPT !["event"] =
               [k |-> num, lo |-> cur + 1, hi |-> num, ret |-> "ok", why |-> "rest"]]
      BY <3>2 DEF DiscardRest
    <3>4. /\ pc'["event"] = "discard" /\ walk'["event"].k = num /\ walk'["event"].lo = cur + 1
          /\ walk'["event"].why = "rest"
      BY <1>1, <3>3 DEF Threads
    <3>5. cur \in 1..num /\ urbs[cur].st = "reaped"
      BY <1>1, <2>1 DEF DoneInv
    <3>6. num >= cur + 1
      BY <1>1, <3>5
    <3> QED
      BY <3>4, <3>6 DEF Walking
  <2> QED
    BY <1>16, <2>3, <2>4 DEF HandleSteps
<1> QED
  BY <1>2, <1>3, <1>4, <1>5, <1>6, <1>8, <1>9, <1>10, <1>11, <1>12, <1>13, <1>14, <1>15, <1>16
     DEF Next, App, Kernel, Event, Either, HandleSteps

-----------------------------------------------------------------------------
(* Steps that leave the URBs alone, and whatever was decided about them. *)

Aside ==
  \/ Submit \/ Unlist \/ Why \/ Remove \/ Settle \/ Call \/ Unplug \/ Hangup \/ FindLost
  \/ ClearLost \/ Cancel \/ \E t \in Threads : TimerFires(t) \/ Mark(t) \/ Expire(t)

\* No thread joins in discarding, but with a walk that has yet to begin.
SameWalks ==
  \A t \in Threads :
    /\ pc[t] = "discard" => pc'[t] = "discard" /\ walk'[t] = walk[t]
    /\ pc'[t] = "discard" /\ pc[t] # "discard" =>
         walk'[t].k = num /\ walk'[t].ret = "ok" /\ walk'[t].why \in {"cancel", "timeout"}

LEMMA BeginsAside ==
  ASSUME Base, NEW t \in Threads, NEW why \in {"cancel", "timeout"}, NEW next \in {"idle", "mark"},
         pc[t] # "discard", BeginCancel(t, why, next)
  PROVE  SameWalks
<1>1. Types /\ PlacesInv /\ BeginCancel(t, why, next) /\ pc \in [Threads -> AppPlaces \cup EventPlaces]
  BY BaseIs
<1>2. /\ \A u \in Threads : u # t => walk'[u] = walk[u]
      /\ \/ pc' = [pc EXCEPT ![t] = next]
         \/ /\ pc' = [pc EXCEPT ![t] = "discard"]
            /\ walk'[t] = [k |-> num, lo |-> 1, hi |-> num, ret |-> "ok", why |-> why]
  BY <1>1, CancelBegins, Zenon
<1>3. CASE pc' = [pc EXCEPT ![t] = next]
  <2>1. pc'[t] # "discard" /\ \A u \in Threads : u # t => pc'[u] = pc[u]
    BY <1>1, <1>3
  <2> QED
    BY <1>2, <2>1 DEF SameWalks
<1>4. CASE /\ pc' = [pc EXCEPT ![t] = "discard"]
           /\ walk'[t] = [k |-> num, lo |-> 1, hi |-> num, ret |-> "ok", why |-> why]
  <2>1. /\ \A u \in Threads : u # t => pc'[u] = pc[u]
        /\ walk'[t].k = num /\ walk'[t].ret = "ok" /\ walk'[t].why \in {"cancel", "timeout"}
    BY <1>1, <1>4
  <2> QED
    BY <1>2, <2>1 DEF SameWalks
<1> QED
  BY <1>2, <1>3, <1>4

LEMMA AsideMoves ==
  ASSUME Base, Aside \/ UNCHANGED vars
  PROVE  /\ UNCHANGED <<kind, mode, length, num, retired, action, reapStatus, offset, urbs, sent,
                        buf, transferred, cur>>
         /\ has' => has
         /\ alive' => alive
         /\ done' = done \/ ~alive'
         /\ SameWalks
<1> USE DEF At, Go
<1>1. /\ Types /\ PlacesInv /\ DoneInv
      /\ pc \in [Threads -> AppPlaces \cup EventPlaces]
  BY BaseIs
<1>2. UNCHANGED <<kind, mode, length, num, retired, action, reapStatus, offset, urbs, sent,
                  buf, transferred, cur>>
  BY DEF Aside, vars, Submit, Unlist, Why, Remove, Settle, Call, Unplug, Hangup,
     FindLost, ClearLost,
         Cancel, Expire, BeginCancel, TimerFires, Mark, job, priv, kernel, data, threads
<1>3. (has' => has) /\ (alive' => alive)
  <2>1. CASE ClearLost
    BY <2>1 DEF ClearLost, kernel
  <2>2. CASE Unplug
    BY <2>2 DEF Unplug, priv
  <2>3. CASE ~ClearLost /\ ~Unplug
    <3>1. UNCHANGED <<has, alive>>
      BY <2>3 DEF Aside, vars, Submit, Unlist, Why, Remove, Settle, Call, Hangup, FindLost,
         Cancel, Expire, BeginCancel, TimerFires, Mark, priv, kernel
    <3> QED
      BY <3>1
  <2> QED
    BY <2>1, <2>2, <2>3
<1>4. done' = done \/ ~alive'
  <2>1. CASE Hangup
    BY <2>1 DEF Hangup
  <2>2. CASE ~Hangup
    BY <2>2 DEF Aside, vars, Submit, Unlist, Why, Remove, Settle, Call, Unplug,
       FindLost, ClearLost,
         Cancel, Expire, BeginCancel, TimerFires, Mark, kernel
  <2> QED
    BY <2>1, <2>2
<1>5. SameWalks
  <2>1. CASE Submit \/ Unlist \/ Why \/ Remove \/ Settle \/ Call \/ Unplug \/ Hangup \/ FindLost
             \/ ClearLost \/ UNCHANGED vars
    <3>1. walk' = walk
      BY <2>1 DEF Submit, Unlist, Why, Remove, Settle, Call, Unplug, Hangup,
         FindLost, ClearLost,
           vars, threads
    <3>2. \A t \in Threads : /\ pc[t] = "discard" => pc'[t] = "discard"
                             /\ pc'[t] = "discard" => pc[t] = "discard"
      BY <1>1, <2>1 DEF Submit, Unlist, Why, Remove, Settle, Call, Unplug, Hangup,
         FindLost, ClearLost,
           vars, threads, Threads
    <3> QED
      BY <3>1, <3>2 DEF SameWalks
  <2>2. ASSUME NEW t \in Threads, TimerFires(t) \/ Mark(t) PROVE SameWalks
    <3>1. walk' = walk
      BY <2>2 DEF TimerFires, Mark
    <3>2. \A u \in Threads : /\ pc[u] = "discard" => pc'[u] = "discard"
                             /\ pc'[u] = "discard" => pc[u] = "discard"
      BY <1>1, <2>2 DEF TimerFires, Mark, Rest, Threads
    <3> QED
      BY <3>1, <3>2 DEF SameWalks
  <2>3. ASSUME NEW t \in Threads, Expire(t) PROVE SameWalks
    BY <2>3, BeginsAside DEF Expire
  <2>4. CASE Cancel
    BY <2>4, BeginsAside DEF Cancel, Threads
  <2> QED
    BY <2>1, <2>2, <2>3, <2>4 DEF Aside
<1> QED
  BY <1>2, <1>3, <1>4, <1>5

\* The same of a submission that ends before its last URB, and of a walk that
\* is over.
LEMMA UrbsStay ==
  ASSUME \/ Aside \/ UNCHANGED vars \/ SubmitRefused \/ SubmitStops \/ SubmitEndsEarly
         \/ \E t \in Threads : Walked(t)
  PROVE  UNCHANGED <<kind, mode, length, num, reapStatus, offset, urbs, sent, buf, transferred, cur>>
BY DEF Aside, vars, Submit, Unlist, Why, Remove, Settle, Call, Unplug, Hangup, FindLost,
   ClearLost,
       Cancel, Expire, BeginCancel, TimerFires, Mark, SubmitRefused, SubmitStops, SubmitEndsEarly,
       Walked, job, priv, kernel, data, threads

\* Every step is one of these.
LEMMA StepIs ==
  ASSUME [Next]_vars
  PROVE  \/ Aside \/ UNCHANGED vars \/ List \/ SubmitUrb \/ SubmitRefused \/ SubmitStops
         \/ SubmitEndsEarly \/ \E t \in Threads : Walked(t)
         \/ UrbDone \/ UrbShort \/ UrbFails \/ UrbOverflows \/ Shutdown
         \/ \E t \in Threads : DiscardUrb(t)
         \/ Reap \/ HandleSteps
BY Zenon DEF Next, App, Kernel, Event, Either, Aside, HandleSteps

\* A step of the kernel, or an ioctl that discards.
LEMMA ReturnStep ==
  ASSUME Base,
         \/ UrbDone \/ UrbShort \/ UrbFails \/ UrbOverflows \/ Shutdown
         \/ \E t \in Threads : DiscardUrb(t)
  PROVE  /\ UNCHANGED <<job, priv, alive, link, transferred, buf, cur, pc, result, told, flags, ghosts>>
         /\ \/ UNCHANGED <<urbs, done, sent>>
            \/ \E i \in 1..num, last \in 1..num, status \in Statuses, n \in Nat :
                 Returns(i, status, n, last)
<1>1. /\ PlacesInv /\ DoneInv /\ JobInv /\ OrderInv /\ num \in Nat
  BY BaseIs
<1>2. CASE UrbDone \/ UrbShort \/ UrbFails \/ UrbOverflows \/ Shutdown
  <2>1. UNCHANGED <<job, priv, alive, link, transferred, buf, cur, pc, result, told, flags, ghosts>>
    BY <1>2 DEF UrbDone, UrbShort, UrbFails, UrbOverflows, Shutdown, Finish, threads,
       data, ghosts
  <2> QED
    BY <1>1, <1>2, <2>1, KernelReturns
<1>3. ASSUME NEW t \in Threads, DiscardUrb(t)
      PROVE  /\ UNCHANGED <<job, priv, alive, link, transferred, buf, cur, pc, result, told, flags, ghosts>>
             /\ \/ UNCHANGED <<urbs, done, sent>>
                \/ \E i \in 1..num, last \in 1..num, status \in Statuses, n \in Nat :
                     Returns(i, status, n, last)
  <2>1. UNCHANGED <<job, priv, alive, link, transferred, buf, cur, pc, result, told, flags, ghosts>>
    BY <1>3 DEF DiscardUrb, data, ghosts
  <2>2. /\ walk[t].k \in 1..num
        /\ \/ UNCHANGED <<urbs, done, sent>>
           \/ \E n \in Nat : Returns(walk[t].k, "cancelled", n, walk[t].k)
    BY <1>1, <1>3, DiscardReturns
  <2> QED
    BY <2>1, <2>2 DEF Statuses
<1> QED
  BY <1>2, <1>3

\* What has come back stays as it is; what comes back was with the kernel.
LEMMA ReturnsLeave ==
  ASSUME Base, NEW i, NEW last, NEW status, NEW n \in Nat, Returns(i, status, n, last)
  PROVE  \A j \in 1..num :
           /\ urbs[j].st # "queued" => urbs'[j] = urbs[j]
           /\ urbs'[j].st = "none" => urbs[j].st = "none"
<1>1. JobInv /\ DoneInv /\ num \in Nat /\ sent \in Nat
  BY BaseIs
<1>2. Back(i, status, n, last)
  BY <1>1, ReturnsIs
<1>3. /\ \A j \in i..last : urbs'[j].st = "done" /\ urbs[j].st = "queued"
      /\ \A j \in 1..num : j \notin i..last => urbs'[j] = urbs[j]
  BY <1>2 DEF Back
<1> QED
  BY <1>3

-----------------------------------------------------------------------------
LEMMA PacketsKeep ==
  ASSUME PacketsInv, UNCHANGED <<kind, mode, length, num>>,
         \A i \in 1..num : urbs'[i].cells = urbs[i].cells
  PROVE  PacketsInv'
BY DEF PacketsInv, Start

LEMMA PacketsStep ==
  ASSUME Base, PacketsInv, [Next]_vars
  PROVE  PacketsInv'
<1>1. /\ Types /\ PlacesInv /\ LockInv /\ PhaseInv /\ DoneInv /\ JobInv /\ OrderInv
      /\ num \in Nat /\ sent \in Nat /\ urbs \in [1..num -> Urbs] /\ Ground /\ UrbInv
      /\ DataInv
  BY BaseIs
<1>2. CASE \/ Aside \/ UNCHANGED vars \/ SubmitRefused \/ SubmitStops \/ SubmitEndsEarly
           \/ \E t \in Threads : Walked(t)
  BY <1>2, UrbsStay, PacketsKeep
<1>3. CASE List
  <2>1. urbs' = [i \in 1..num' |-> [st |-> "none", status |-> "ok", cells |-> <<>>]]
    BY <1>3 DEF List
  <2>2. Len(<<>>) = 0
    OBVIOUS
  <2>3. \A i \in 1..num' : Len(urbs'[i].cells) = 0
    BY <2>1, <2>2
  <2> QED
    BY <2>3 DEF PacketsInv
<1>4. CASE SubmitUrb
  <2>1. /\ UNCHANGED <<kind, mode, length, num>> /\ pc["app"] = "submit"
        /\ urbs' = [urbs EXCEPT ![Submitting].st = "queued"]
    BY <1>4 DEF SubmitUrb, job, priv, At
  <2>2. \A i \in 1..num : urbs'[i].cells = urbs[i].cells
    BY <1>1, <2>1 DEF Urbs
  <2> QED
    BY <2>1, <2>2, PacketsKeep
<1>5. ASSUME NEW i \in 1..num, NEW last \in 1..num, NEW status \in Statuses, NEW n \in Nat,
             Returns(i, status, n, last)
      PROVE  PacketsInv'
  <2>1. Back(i, status, n, last)
    BY <1>1, <1>5, ReturnsIs
  <2>2. /\ \A j \in 1..num : j \notin i..last => urbs'[j] = urbs[j]
        /\ urbs'[i].cells = Cells(i, n) /\ Len(urbs'[i].cells) = n
        /\ \A j \in (i + 1)..last : urbs'[j].cells = urbs[j].cells
    BY <2>1 DEF Back
  <2>3. \A j \in 1..num : j = i \/ urbs'[j].cells = urbs[j].cells
    <3> SUFFICES ASSUME NEW j \in 1..num, j # i PROVE urbs'[j].cells = urbs[j].cells
      OBVIOUS
    <3>1. j \notin i..last \/ j \in (i + 1)..last
      OBVIOUS
    <3> QED
      BY <2>2, <3>1
  <2>4. UNCHANGED <<kind, mode, length, num>>
    BY <1>5 DEF Returns, job, priv
  <2>5. \A j \in 1..num : Start(j)' = Start(j)
    BY <2>4 DEF Start
  <2>6. kind = "iso" => \A c \in 1..n : urbs'[i].cells[c] = Start(i) + c
    BY <2>2 DEF Cells
  <2> SUFFICES ASSUME kind = "iso", NEW j \in 1..num, NEW c \in 1..Len(urbs'[j].cells)
               PROVE  urbs'[j].cells[c] = Start(j) + c
    BY <2>4, <2>5 DEF PacketsInv
  <2>7. CASE j = i
    BY <2>2, <2>6, <2>7
  <2>8. CASE j # i
    BY <2>3, <2>8 DEF PacketsInv
  <2> QED
    BY <2>7, <2>8
<1>6. CASE \/ UrbDone \/ UrbShort \/ UrbFails \/ UrbOverflows \/ Shutdown
           \/ \E t \in Threads : DiscardUrb(t)
  <2>1. /\ UNCHANGED <<kind, mode, length, num>>
        /\ \/ UNCHANGED <<urbs, done, sent>>
           \/ \E i \in 1..num, last \in 1..num, status \in Statuses, n \in Nat :
                Returns(i, status, n, last)
    BY <1>6, ReturnStep DEF job, priv
  <2> QED
    BY <1>5, <2>1, PacketsKeep
<1>7. CASE Reap
  BY <1>1, <1>7, ReapMoves, PacketsKeep DEF job
<1>8. CASE HandleSteps
  <2>1. UNCHANGED <<urbs, job, num>>
    BY <1>1, <1>8, HandleMoves DEF HandleSteps
  <2> QED
    BY <2>1, PacketsKeep DEF job
<1> QED
  BY <1>2, <1>3, <1>4, <1>6, <1>7, <1>8, StepIs

-----------------------------------------------------------------------------
LEMMA TurnKeeps ==
  ASSUME TurnInv, Serving,
         UNCHANGED <<kind, mode, length, num, offset, buf, cur, done>>,
         \A i \in 1..num : /\ urbs'[i].status = urbs[i].status
                           /\ Returned(i)' => Returned(i)
                           /\ Returned(i) => Returned(i)'
                           /\ urbs'[i].st = "reaped" => urbs[i].st = "reaped"
                           /\ urbs[i].st = "reaped" => urbs'[i].st = "reaped",
         \A t \in Threads : pc'[t] = "discard" /\ walk'[t].k # num => Queued' = {}
  PROVE  TurnInv'
<1>1. PICK n \in 0..num : Reached(n)
  BY DEF TurnInv
<1>2. Reached(n)'
  BY <1>1 DEF Reached
<1>3. \A i \in Handled' : i \in Handled /\ urbs'[i].status = urbs[i].status
  BY DEF Handled
<1> QED
  BY <1>1, <1>2, <1>3 DEF TurnInv

\* While a transfer is served, whoever discards has just begun.
LEMMA ServedAlone ==
  ASSUME Base, xlock = "free" \/ pc["app"] = "submit"
  PROVE  (\A t \in Threads : pc[t] # "discard") /\ Untouched
<1>1. LockInv
  BY BaseIs
<1>2. \A t \in Threads : pc[t] # "discard"
  BY <1>1, OneWalks DEF Threads
<1> QED
  BY <1>2 DEF Untouched

LEMMA AsideTurn ==
  ASSUME Base, TurnInv, Aside \/ UNCHANGED vars
  PROVE  TurnInv'
<1>1. /\ UNCHANGED <<kind, mode, length, num, retired, action, reapStatus, offset, urbs, sent,
                     buf, transferred, cur>>
      /\ has' => has
      /\ alive' => alive
      /\ done' = done \/ ~alive'
      /\ SameWalks
  BY AsideMoves
<1> SUFFICES ASSUME Serving' PROVE TurnInv'
  BY DEF TurnInv
<1>2. Untouched
  BY <1>1 DEF SameWalks, Untouched, Serving
<1>3. Serving /\ done' = done
  BY <1>1, <1>2 DEF Serving
<1>4. \A t \in Threads : pc'[t] = "discard" /\ walk'[t].k # num => pc[t] = "discard" /\ walk[t].k # num
  BY <1>1 DEF SameWalks
<1>5. \A t \in Threads : pc'[t] = "discard" /\ walk'[t].k # num => Queued' = {}
  BY <1>1, <1>3, <1>4 DEF TurnInv, Queued
<1> QED
  BY <1>1, <1>3, <1>5, TurnKeeps DEF Returned

LEMMA ListTurn ==
  ASSUME Base, List
  PROVE  TurnInv'
<1> USE DEF At, Go
<1>1. /\ PlacesInv /\ PhaseInv /\ DoneInv /\ LockInv
      /\ pc \in [Threads -> AppPlaces \cup EventPlaces]
  BY BaseIs
<1>2. /\ urbs' = [i \in 1..num' |-> [st |-> "none", status |-> "ok", cells |-> <<>>]]
      /\ UNCHANGED <<done, cur>> /\ offset' = 0 /\ xlock = "free" /\ pc["app"] = "list"
      /\ pc' = [pc EXCEPT !["app"] = "submit"] /\ num' = UrbCount(kind', mode', length')
      /\ length' \in Nat
  BY UsbTransferAssumption DEF List
<1>3. num' \in Nat
  BY <1>2, CountIs
<1>4. ~has /\ done = <<>>
  BY <1>1, <1>2 DEF PhaseInv, Submission, DoneInv
<1>5. cur = 0
  BY <1>1, <1>4 DEF DoneInv, PhaseInv
<1>6. \A i \in 1..num' : urbs'[i].st = "none" /\ urbs'[i].status = "ok"
  BY <1>2
<1>7. \A t \in Threads : pc'[t] # "discard"
  BY <1>1, <1>2, OneWalks
<1>8. Handled' = {}
  BY <1>6 DEF Handled
<1>9. Reached(0)'
  <2>1. Len(done') = 0 /\ cur' = 0
    BY <1>2, <1>4, <1>5
  <2>2. \A i \in 1..num' : ~(i <= 0)
    BY <1>3
  <2>3. \A i \in 1..num' : ~Returned(i)'
    BY <1>6 DEF Returned
  <2> QED
    BY <2>1, <2>2, <2>3 DEF Reached
<1>10. 0 \in 0..num' /\ \A c \in 1..offset' : FALSE
  BY <1>2, <1>3
<1> QED
  BY <1>6, <1>7, <1>8, <1>9, <1>10 DEF TurnInv

LEMMA SubmitTurn ==
  ASSUME Base, TurnInv, SubmitUrb
  PROVE  TurnInv'
<1> USE DEF At, Go
<1>1. /\ PlacesInv /\ PhaseInv /\ DoneInv /\ LockInv /\ Ground /\ UrbInv /\ num \in Nat
      /\ pc \in [Threads -> AppPlaces \cup EventPlaces] /\ urbs \in [1..num -> Urbs]
  BY BaseIs
<1>2. /\ pc["app"] = "submit" /\ urbs' = [urbs EXCEPT ![Submitting].st = "queued"]
      /\ UNCHANGED <<kind, mode, length, num, has, action, reapStatus, offset, done, alive, buf, cur>>
      /\ pc' = pc \/ pc' = [pc EXCEPT !["app"] = "idle"]
  BY DEF SubmitUrb, job, priv, data
<1>3. Submitting \in 1..num /\ urbs[Submitting].st = "none"
  BY <1>1, <1>2, SubmittingIs
<1>4. \A t \in Threads : pc'[t] # "discard"
  BY <1>1, <1>2, ServedAlone
<1>5. \A i \in 1..num : /\ urbs'[i].status = urbs[i].status
                        /\ urbs'[i].st \in {"done", "reaped"} => urbs'[i].st = urbs[i].st
                        /\ urbs[i].st \in {"done", "reaped"} => urbs'[i].st = urbs[i].st
  BY <1>1, <1>2, <1>3 DEF Urbs
<1>6. Serving' => Serving
  BY <1>1, <1>2, ServedAlone DEF Serving
<1> QED
  <2>1. CASE ~Serving'
    BY <2>1 DEF TurnInv
  <2>2. CASE Serving'
    BY <1>2, <1>4, <1>5, <1>6, <2>2, TurnKeeps DEF Returned
  <2> QED
    BY <2>1, <2>2

\* The kernel returns the first URB it has, and what it takes with it.
LEMMA ReturnsTurn ==
  ASSUME Base, TurnInv, NEW i \in 1..num, NEW last \in 1..num, NEW status \in Statuses,
         NEW m \in Nat, Returns(i, status, m, last), walk' = walk,
         alive => \A j \in Queued : i <= j, status # "cancelled"
  PROVE  TurnInv'
<1>1. /\ DoneInv /\ RowInv /\ JobInv /\ num \in Nat /\ sent \in Nat
      /\ urbs \in [1..num -> Urbs] /\ Len(done) \in Nat
  BY BaseIs DEF OrderInv, DoneInv
<1>2. /\ UNCHANGED <<kind, mode, length, num, has, action, reapStatus, offset, alive, buf, cur, pc>>
      /\ i \in Queued
  BY DEF Returns, job, priv
<1>3. Back(i, status, m, last)
  BY <1>1, ReturnsIs
<1>4. /\ last \in i..num
      /\ \A j \in i..last : urbs'[j].st = "done" /\ urbs[j].st = "queued"
      /\ \A j \in 1..num : j \notin i..last => urbs'[j] = urbs[j]
      /\ urbs'[i].status = status
      /\ \A j \in (i + 1)..last : urbs'[j].status = "unlinked"
      /\ Queued' \subseteq Queued /\ Len(done') = Len(done) + (last - i + 1)
      /\ \A k \in 1..Len(done) : done'[k] = done[k]
      /\ \A k \in (Len(done) + 1)..Len(done') : done'[k] = i + (k - Len(done)) - 1
  BY <1>3 DEF Back
<1> SUFFICES ASSUME Serving' PROVE TurnInv'
  BY DEF TurnInv
<1>5. Serving
  BY <1>2 DEF Serving, Untouched
<1>6. PICK n \in 0..num : Reached(n)
  BY <1>5 DEF TurnInv
<1>7. /\ cur \in {0, n}
      /\ \A j \in 1..num : j <= n => urbs[j].st = "reaped"
      /\ \A j \in 1..num : j <= n + Len(done) => Returned(j)
      /\ \A j \in 1..num : Returned(j) => j <= n + Len(done)
      /\ \A k \in 1..Len(done) : done[k] = n + k
  BY <1>6 DEF Reached
<1>8. i = n + Len(done) + 1
  <2>1. urbs[i].st = "queued"
    BY <1>2 DEF Queued
  <2>2. ~Returned(i)
    BY <2>1 DEF Returned
  <2>3. i > n + Len(done)
    BY <1>1, <1>7, <2>2
  <2> SUFFICES ASSUME i # n + Len(done) + 1 PROVE FALSE
    OBVIOUS
  <2> DEFINE j == n + Len(done) + 1
  <2>4. j \in 1..num /\ j < i /\ ~(j <= n + Len(done))
    BY <1>1, <2>3
  <2> HIDE DEF j
  <2>5. ~Returned(j)
    BY <1>7, <2>4
  <2>6. urbs[j].st # "queued"
    <3>1. ~(i <= j)
      BY <2>4
    <3>2. j \notin Queued
      BY <1>5, <3>1 DEF Serving
    <3>3. DOMAIN urbs = 1..num
      BY <1>1
    <3> QED
      BY <2>4, <3>2, <3>3 DEF Queued
  <2>7. urbs[j].st = "none"
    BY <1>1, <2>4, <2>5, <2>6 DEF Returned, Urbs
  <2> QED
    BY <1>1, <2>1, <2>4, <2>7 DEF RowInv
<1>9. n + Len(done') = last
  BY <1>1, <1>4, <1>8
<1>10. \A j \in 1..num : j <= n => j \notin i..last
  BY <1>1, <1>8
<1>11. Reached(n)'
  <2>1. cur' \in {0, n}
    BY <1>2, <1>7
  <2>2. \A j \in 1..num : j <= n => urbs'[j].st = "reaped"
    BY <1>4, <1>7, <1>10
  <2>3. \A j \in 1..num : j <= last => Returned(j)'
    <3> SUFFICES ASSUME NEW j \in 1..num, j <= last PROVE Returned(j)'
      OBVIOUS
    <3>1. CASE j \in i..last
      BY <1>4, <3>1 DEF Returned
    <3>2. CASE j \notin i..last
      <4>1. j <= n + Len(done)
        BY <1>1, <1>8, <3>2
      <4> QED
        BY <1>4, <1>7, <3>2, <4>1 DEF Returned
    <3> QED
      BY <3>1, <3>2
  <2>4. \A j \in 1..num : Returned(j)' => j <= last
    <3> SUFFICES ASSUME NEW j \in 1..num, Returned(j)' PROVE j <= last
      OBVIOUS
    <3>1. CASE j \in i..last
      BY <3>1
    <3>2. CASE j \notin i..last
      <4>1. Returned(j)
        BY <1>4, <3>2 DEF Returned
      <4>2. j <= n + Len(done)
        BY <1>7, <4>1
      <4> QED
        BY <1>1, <1>4, <1>8, <4>2
    <3> QED
      BY <3>1, <3>2
  <2>5. \A k \in 1..Len(done') : done'[k] = n + k
    <3> SUFFICES ASSUME NEW k \in 1..Len(done') PROVE done'[k] = n + k
      OBVIOUS
    <3>1. CASE k \in 1..Len(done)
      BY <1>4, <1>7, <3>1
    <3>2. CASE k \notin 1..Len(done)
      <4>1. k \in (Len(done) + 1)..Len(done')
        BY <1>1, <3>2
      <4>2. done'[k] = i + (k - Len(done)) - 1
        BY <1>4, <4>1
      <4> QED
        BY <1>1, <1>8, <4>1, <4>2
    <3> QED
      BY <3>1, <3>2
  <2> QED
    BY <1>2, <1>9, <2>1, <2>2, <2>3, <2>4, <2>5 DEF Reached
<1>12. \A j \in 1..num : urbs'[j].status # "cancelled"
  <2> SUFFICES ASSUME NEW j \in 1..num PROVE urbs'[j].status # "cancelled"
    OBVIOUS
  <2>1. j = i \/ j \notin i..last \/ j \in (i + 1)..last
    OBVIOUS
  <2> QED
    BY <1>4, <1>5, <2>1 DEF TurnInv
<1>13. \A j \in Handled' : j \in Handled /\ urbs'[j] = urbs[j]
  <2> SUFFICES ASSUME NEW j \in 1..num, urbs'[j].st = "reaped", j # cur
               PROVE  j \in Handled /\ urbs'[j] = urbs[j]
    BY <1>2 DEF Handled
  <2>1. j \notin i..last
    BY <1>4
  <2> QED
    BY <1>4, <2>1 DEF Handled
<1>14. \A t \in Threads : pc'[t] = "discard" => walk'[t].k = num
  BY <1>2, <1>5 DEF TurnInv
<1> QED
  <2>1. \E p \in 0..num : Reached(p)'
    BY <1>11
  <2>2. kind # "iso" => \A j \in Handled' : urbs'[j].status = "ok"
    BY <1>5, <1>13 DEF TurnInv
  <2>3. kind = "iso" => \A c \in 1..offset : buf[c] = c
    BY <1>5 DEF TurnInv
  <2> QED
    BY <1>2, <1>12, <1>14, <2>1, <2>2, <2>3 DEF TurnInv

LEMMA KernelTurn ==
  ASSUME Base, TurnInv, UrbDone \/ UrbShort \/ UrbFails \/ UrbOverflows \/ Shutdown
  PROVE  TurnInv'
<1>1. JobInv /\ DoneInv /\ OrderInv /\ num \in Nat
  BY BaseIs
<1>2. PICK i \in 1..num, last \in 1..num, status \in Statuses, n \in Nat :
        /\ Returns(i, status, n, last) /\ (alive => \A j \in Queued : i <= j)
        /\ status # "cancelled"
  BY <1>1, KernelReturns
<1>3. walk' = walk
  BY DEF UrbDone, UrbShort, UrbFails, UrbOverflows, Shutdown, Finish, threads
<1> QED
  BY <1>2, <1>3, ReturnsTurn

\* A walk does not go past the last URB and leave the transfer served, unless
\* there was nothing to discard.
LEMMA DiscardTurn ==
  ASSUME Base, ModeInv, TurnInv, NEW t \in Threads, DiscardUrb(t)
  PROVE  TurnInv'
<1>1. /\ PlacesInv /\ LockInv /\ PhaseInv /\ DoneInv /\ JobInv /\ OrderInv /\ num \in Nat
      /\ urbs \in [1..num -> Urbs] /\ Len(done) \in Nat /\ KindMode /\ WalkMode
  BY BaseIs DEF DoneInv, ModeInv
<1>2. /\ pc[t] = "discard" /\ walk'[t].k = walk[t].k - 1 /\ walk'[t].why = walk[t].why
      /\ walk'[t].hi = walk[t].hi
      /\ alive /\ urbs[walk[t].k].st = "queued" => walk'[t].ret = walk[t].ret
      /\ alive /\ urbs[walk[t].k].st # "queued" =>
           walk'[t].ret = IF walk[t].k = walk[t].hi THEN "not found" ELSE walk[t].ret
      /\ UNCHANGED <<kind, mode, length, has, num, action, reapStatus, offset, alive, cur, pc, buf>>
  BY <1>1, DiscardWalks
<1>3. /\ walk[t].k \in 1..num
      /\ \/ UNCHANGED <<urbs, done, sent>>
         \/ \E n \in Nat : Returns(walk[t].k, "cancelled", n, walk[t].k)
  BY <1>1, DiscardReturns
<1>4. \A u \in Threads : pc[u] = "discard" => u = t
  BY <1>1, <1>2, OneWalks
<1> SUFFICES ASSUME Serving' PROVE TurnInv'
  BY DEF TurnInv
<1>5. has /\ alive /\ action = "normal" /\ reapStatus = "completed"
  BY <1>2 DEF Serving
<1>6. walk'[t].ret # "ok"
  <2>1. walk'[t].k # num
    <3> DEFINE k == walk[t].k
    <3>1. k \in 1..num /\ walk'[t].k = k - 1 /\ num \in Nat
      BY <1>1, <1>2, <1>3
    <3> HIDE DEF k
    <3> QED
      BY <3>1
  <2>2. walk'[t].k = num \/ walk'[t].ret # "ok"
    BY <1>2 DEF Serving, Untouched
  <2> QED
    BY <2>1, <2>2
<1>7. walk[t].why \in {"cancel", "timeout"}
  <2>1. walk[t].why # "submit" /\ walk[t].why # "rest"
    BY <1>1, <1>2, <1>5 DEF WalkMode
  <2>2. t = "app" \/ t = "event"
    BY DEF Threads
  <2> QED
    BY <1>1, <1>2, <2>1, <2>2 DEF PlacesInv
<1>8. walk[t].hi = num /\ (walk[t].k = num => walk[t].ret = "ok")
  BY <1>1, <1>2, <1>7 DEF WalkMode
<1>9. Serving
  <2>1. walk[t].k = num \/ walk[t].ret # "ok"
    BY <1>2, <1>5, <1>6, <1>8
  <2>2. Untouched
    BY <1>4, <2>1 DEF Untouched
  <2> QED
    BY <1>5, <2>2 DEF Serving
<1>10. Queued = {}
  <2>1. CASE walk[t].k # num
    BY <1>2, <1>9, <2>1 DEF TurnInv
  <2>2. CASE walk[t].k = num
    <3>1. urbs[num].st # "queued"
      BY <1>2, <1>5, <1>6, <1>8, <2>2
    <3>2. num \in 1..num
      BY <1>3, <2>2
    <3>3. pc["app"] # "submit"
      BY <1>1, <1>2, OneWalks DEF Threads
    <3>4. urbs[num].st # "none"
      BY <1>1, <1>5, <3>2, <3>3 DEF KindMode
    <3>5. Returned(num)
      BY <1>1, <3>1, <3>2, <3>4 DEF Urbs, Returned
    <3>6. PICK n \in 0..num : Reached(n)
      BY <1>9 DEF TurnInv
    <3>7. num <= n + Len(done) /\ \A i \in 1..num : i <= n + Len(done) => Returned(i)
      BY <3>2, <3>5, <3>6 DEF Reached
    <3>8. \A i \in 1..num : Returned(i)
      BY <1>1, <3>7
    <3>9. DOMAIN urbs = 1..num
      BY <1>1
    <3> QED
      BY <3>8, <3>9 DEF Queued, Returned
  <2> QED
    BY <2>1, <2>2
<1>11. UNCHANGED <<urbs, done, sent>>
  BY <1>3, <1>10 DEF Returns
<1>12. Queued' = {}
  BY <1>10, <1>11 DEF Queued
<1> QED
  BY <1>2, <1>9, <1>11, <1>12, TurnKeeps DEF Returned

LEMMA WalkedTurn ==
  ASSUME Base, ModeInv, TurnInv, NEW t \in Threads, Walked(t)
  PROVE  TurnInv'
<1>1. /\ PlacesInv /\ LockInv /\ WalkMode /\ pc \in [Threads -> AppPlaces \cup EventPlaces]
  BY BaseIs DEF ModeInv
<1>2. /\ pc[t] = "discard"
      /\ UNCHANGED <<kind, mode, length, has, num, reapStatus, offset, alive, cur,
                     urbs, done, buf, walk>>
  BY <1>1, WalkedMoves
<1>3. /\ walk[t].why \in {"submit", "rest"} => action' = action
      /\ walk[t].why \in {"submit", "rest", "cancel", "timeout"}
      /\ walk[t].ret = "ok" /\ walk[t].why \in {"cancel", "timeout"} /\ action # "error" =>
           action' = "cancelled"
      /\ action' \in {action, "cancelled"}
  BY <1>1, WalkedMoves
<1>4. \E p \in {"idle", "poll", "mark"} : pc' = [pc EXCEPT ![t] = p]
  BY <1>1, WalkedMoves
<1>5. \A u \in Threads : pc[u] = "discard" => u = t
  BY <1>1, <1>2, OneWalks
<1>6. \A u \in Threads : pc'[u] # "discard"
  BY <1>1, <1>4, <1>5
<1> SUFFICES ASSUME Serving' PROVE TurnInv'
  BY DEF TurnInv
<1>7. has /\ alive /\ action = "normal" /\ action' = "normal" /\ reapStatus = "completed"
  BY <1>2, <1>3 DEF Serving
<1>8. walk[t].ret # "ok"
  <2>1. walk[t].why # "submit" /\ walk[t].why # "rest"
    BY <1>1, <1>2, <1>7 DEF WalkMode
  <2> QED
    BY <1>3, <1>7, <2>1
<1>9. Serving
  BY <1>5, <1>7, <1>8 DEF Serving, Untouched
<1> QED
  BY <1>2, <1>6, <1>9, TurnKeeps DEF Returned

LEMMA ReapTurn ==
  ASSUME Base, TurnInv, Reap
  PROVE  TurnInv'
<1>1. /\ PlacesInv /\ LockInv /\ DoneInv /\ Ground /\ UrbInv /\ num \in Nat
      /\ urbs \in [1..num -> Urbs] /\ pc \in [Threads -> AppPlaces \cup EventPlaces]
  BY BaseIs
<1>2. /\ has /\ cur = 0 /\ pc["event"] = "poll" /\ done # <<>> /\ Len(done) \in Nat \ {0}
      /\ cur' = done[1] /\ cur' \in 1..num /\ urbs[cur'].st = "done"
      /\ Len(done') = Len(done) - 1
      /\ \A k \in 1..Len(done') : k + 1 \in 1..Len(done) /\ done'[k] = done[k + 1]
      /\ urbs'[cur'].st = "reaped"
      /\ \A j \in 1..num : /\ urbs'[j].status = urbs[j].status
                           /\ j # cur' => urbs'[j].st = urbs[j].st
      /\ Queued' = Queued
      /\ pc'["event"] = "handle" /\ pc'["app"] = pc["app"]
      /\ UNCHANGED <<job, num, has, action, reapStatus, offset, alive, walk>>
  BY <1>1, ReapMoves
<1>3. \A t \in Threads : /\ pc'[t] = "discard" => pc[t] = "discard"
                         /\ pc[t] = "discard" => pc'[t] = "discard"
  BY <1>2 DEF Threads
<1>4. kind = "iso" => buf' = buf
  BY DEF Reap
<1> SUFFICES ASSUME Serving' PROVE TurnInv'
  BY DEF TurnInv
<1>5. Serving
  BY <1>2, <1>3 DEF Serving, Untouched
<1>6. PICK n \in 0..num : Reached(n)
  BY <1>5 DEF TurnInv
<1>7. /\ \A j \in 1..num : j <= n => urbs[j].st = "reaped"
      /\ \A j \in 1..num : j <= n + Len(done) => Returned(j)
      /\ \A j \in 1..num : Returned(j) => j <= n + Len(done)
      /\ \A k \in 1..Len(done) : done[k] = n + k
  BY <1>6 DEF Reached
<1>8. cur' = n + 1 /\ n + 1 \in 0..num
  <2>1. done[1] = n + 1
    BY <1>2, <1>7
  <2> QED
    BY <1>2, <2>1
<1>9. \A j \in 1..num : /\ Returned(j)' => Returned(j)
                        /\ Returned(j) => Returned(j)'
  <2> SUFFICES ASSUME NEW j \in 1..num
               PROVE  (Returned(j)' => Returned(j)) /\ (Returned(j) => Returned(j)')
    OBVIOUS
  <2>1. CASE j = cur'
    BY <1>2, <2>1 DEF Returned
  <2>2. CASE j # cur'
    BY <1>2, <2>2 DEF Returned
  <2> QED
    BY <2>1, <2>2
<1>10. n + 1 + Len(done') = n + Len(done)
  BY <1>2
<1> DEFINE p == n + 1
<1>11. Reached(p)'
  <2>1. \A j \in 1..num : j <= p => urbs'[j].st = "reaped"
    <3> SUFFICES ASSUME NEW j \in 1..num, j <= p PROVE urbs'[j].st = "reaped"
      OBVIOUS
    <3>1. CASE j = p
      BY <1>2, <1>8, <3>1
    <3>2. CASE j # p
      BY <1>2, <1>7, <1>8, <3>2
    <3> QED
      BY <3>1, <3>2
  <2>2. p + Len(done') = n + Len(done) /\ cur' = p
    BY <1>8, <1>10
  <2>3. \A k \in 1..Len(done') : done'[k] = p + k
    <3> SUFFICES ASSUME NEW k \in 1..Len(done') PROVE done'[k] = p + k
      OBVIOUS
    <3>1. k + 1 \in 1..Len(done) /\ done'[k] = done[k + 1]
      BY <1>2
    <3> QED
      BY <1>7, <3>1
  <2>4. /\ \A j \in 1..num : j <= p + Len(done') => Returned(j)'
        /\ \A j \in 1..num : Returned(j)' => j <= p + Len(done')
    BY <1>7, <1>9, <2>2
  <2>5. num' = num
    BY <1>2
  <2> HIDE DEF p
  <2> QED
    BY <2>1, <2>2, <2>3, <2>4, <2>5 DEF Reached
<1>12. \A j \in Handled' : j \in Handled /\ urbs'[j].status = urbs[j].status
  BY <1>2 DEF Handled
<1>13. p \in 0..num'
  BY <1>2, <1>8
<1> HIDE DEF p
<1>14. \E q \in 0..num' : Reached(q)'
  BY <1>11, <1>13
<1>15. /\ \A i \in 1..num' : urbs'[i].status # "cancelled"
       /\ kind' # "iso" => \A i \in Handled' : urbs'[i].status = "ok"
       /\ kind' = "iso" => \A c \in 1..offset' : buf'[c] = c
       /\ \A t \in Threads : pc'[t] = "discard" /\ walk'[t].k # num' => Queued' = {}
  BY <1>2, <1>3, <1>4, <1>5, <1>12 DEF TurnInv, job
<1> QED
  BY <1>14, <1>15 DEF TurnInv

\* The URB being handled comes after those handled before it.
LEMMA TurnOf ==
  ASSUME Base, TurnInv, Serving, pc["event"] = "handle"
  PROVE  /\ Reached(cur) /\ cur \in 1..num /\ urbs[cur].st = "reaped"
         /\ Handled = 1..(cur - 1)
<1>1. DoneInv /\ num \in Nat
  BY BaseIs
<1>2. cur \in 1..num /\ urbs[cur].st = "reaped"
  BY <1>1 DEF DoneInv
<1>3. PICK n \in 0..num : Reached(n)
  BY DEF TurnInv
<1>4. n = cur
  BY <1>2, <1>3 DEF Reached
<1>5. Reached(cur)
  BY <1>3, <1>4
<1>6. \A i \in 1..num : i <= cur => urbs[i].st = "reaped"
  BY <1>5 DEF Reached
<1>7. \A i \in 1..num : urbs[i].st = "reaped" => i <= cur
  <2> SUFFICES ASSUME NEW i \in 1..num, urbs[i].st = "reaped", i > cur PROVE FALSE
    BY <1>2
  <2>1. \A k \in 1..Len(done) : done[k] = cur + k
    BY <1>5 DEF Reached
  <2>2. i <= cur + Len(done)
    BY <1>5 DEF Reached, Returned
  <2>3. i - cur \in 1..Len(done) /\ Len(done) \in Nat
    BY <1>1, <1>2, <2>2 DEF DoneInv
  <2>4. done[i - cur] = i
    BY <1>2, <2>1, <2>3
  <2>5. urbs[i].st = "done"
    BY <1>1, <2>3, <2>4 DEF DoneInv
  <2> QED
    BY <2>5
<1>8. Handled = 1..(cur - 1)
  BY <1>1, <1>2, <1>6, <1>7 DEF Handled
<1> QED
  BY <1>2, <1>5, <1>8

\* One that did not fail was filled, or has ended the transfer short.
LEMMA TurnGood ==
  ASSUME Base, TurnInv, Serving, pc["event"] = "handle", kind # "iso",
         urbs[cur].status \notin {"gone", "stall", "overflow", "bus"}
  PROVE  /\ urbs[cur].status \in {"ok", "short"}
         /\ urbs[cur].status = "ok" => Len(urbs[cur].cells) = Size(cur)
         /\ urbs[cur].status = "short" => Len(urbs[cur].cells) < Size(cur)
         /\ \A i \in 1..num : i < cur => Returned(i) /\ urbs[i].status = "ok"
<1>1. /\ DoneInv /\ num \in Nat /\ urbs \in [1..num -> Urbs] /\ FateInv /\ SizeInv /\ JobInv
  BY BaseIs DEF UrbFateInv, DataInv
<1>2. cur \in 1..num /\ urbs[cur].st = "reaped" /\ Handled = 1..(cur - 1)
  BY TurnOf
<1>3. \A i \in 1..num : i < cur => Returned(i) /\ urbs[i].status = "ok"
  <2> SUFFICES ASSUME NEW i \in 1..num, i < cur PROVE Returned(i) /\ urbs[i].status = "ok"
    OBVIOUS
  <2>1. i \in Handled
    BY <1>1, <1>2
  <2> QED
    BY <2>1 DEF TurnInv, Handled, Returned
<1>4. urbs[cur].status # "unlinked"
  <2> SUFFICES ASSUME urbs[cur].status = "unlinked" PROVE FALSE
    OBVIOUS
  <2>1. PICK j \in 1..(cur - 1) : urbs[j].status \in {"short", "stall", "bus"}
    BY <1>1, <1>2 DEF FateInv
  <2>2. j \in 1..num /\ j < cur
    BY <1>1, <1>2
  <2> QED
    BY <1>3, <2>1, <2>2
<1>5. urbs[cur].status # "cancelled"
  BY <1>2 DEF TurnInv
<1>6. urbs[cur].status \in Statuses
  BY <1>1, <1>2 DEF Urbs
<1>7. urbs[cur].status \in {"ok", "short"}
  BY <1>4, <1>5, <1>6 DEF Statuses
<1>8. Returned(cur)
  BY <1>2 DEF Returned
<1>9. urbs[cur].status = "ok" => Len(urbs[cur].cells) = Size(cur)
  BY <1>1, <1>2, <1>8 DEF FateInv, Full
<1>10. urbs[cur].status = "short" => Len(urbs[cur].cells) < Size(cur)
  <2>1. /\ urbs[cur].status = "short" => Len(urbs[cur].cells) # Size(cur)
        /\ Len(urbs[cur].cells) <= Size(cur)
    BY <1>1, <1>2 DEF FateInv, Full, SizeInv
  <2>2. Len(urbs[cur].cells) \in Nat /\ Size(cur) \in Nat
    BY <1>1, <1>2, SizeIs DEF Urbs
  <2> QED
    BY <2>1, <2>2
<1> QED
  BY <1>3, <1>7, <1>9, <1>10

\* What handle_bulk_completion makes of a URB while the transfer is served.
Faults ==
  LET u == urbs[cur]
  IN  CASE u.status = "gone" -> "no device"
        [] u.status = "stall" -> "stall"
        [] u.status = "overflow" -> "overflow"
        [] u.status = "bus" -> "error"
        [] OTHER -> "completed"
LEMMA BulkIs ==
  ASSUME HandleBulk
  PROVE  /\ pc["event"] = "handle" /\ xlock = "free" /\ kind \in {"bulk", "interrupt"}
         /\ action = "normal" /\ retired' = retired + 1
         /\ action' = IF Faults = "error" THEN "error"
                      ELSE IF Faults = "completed" /\ ~All /\ Short(urbs[cur]) THEN "early"
                      ELSE action
         /\ reapStatus' = IF Faults = "no device" \/ reapStatus = "completed"
                          THEN Faults ELSE reapStatus
         /\ IF All \/ Faults = "overflow" THEN Over(reapStatus')
            ELSE IF Faults # "completed" \/ Short(urbs[cur]) THEN DiscardRest
            ELSE Wait
         /\ UNCHANGED <<offset, buf, HandledUnchanged>>
BY DEF HandleBulk, Faults, Handling, At

LEMMA FaultIs ==
  /\ Faults \in {"no device", "stall", "overflow", "error", "completed"}
  /\ Faults = "completed" => urbs[cur].status \notin {"gone", "stall", "overflow", "bus"}
BY DEF Faults

\* A packet's result goes to its slot.
LEMMA IsoTurn ==
  ASSUME Base, BufInv, PacketsInv, TurnInv, Serving, HandleIso
  PROVE  /\ \A c \in 1..offset' : buf'[c] = c
         /\ offset' = Start(cur) + Size(cur)
<1>1. /\ DoneInv /\ num \in Nat /\ urbs \in [1..num -> Urbs] /\ JobInv /\ SizeInv /\ SlotInv
      /\ DOMAIN buf = 1..length
  BY BaseIs DEF DataInv, BufInv
<1>2. /\ kind = "iso" /\ pc["event"] = "handle" /\ buf' = Place(buf, offset, urbs[cur].cells)
      /\ offset' = offset + Len(urbs[cur].cells)
  BY DEF HandleIso, Handling, At
<1>3. cur \in 1..num /\ urbs[cur].st = "reaped" /\ Handled = 1..(cur - 1)
  BY <1>2, TurnOf
<1>4. /\ Start(cur) \in Nat /\ Size(cur) \in Nat /\ Start(cur) + Size(cur) <= length
      /\ length \in Nat
  BY <1>1, <1>3, SizeIs, PerUrbIs
<1>5. urbs[cur].cells \in Seq(Nat) /\ Len(urbs[cur].cells) = Size(cur)
  BY <1>1, <1>2, <1>3 DEF Urbs, SizeInv
<1>6. offset = Start(cur)
  <2>1. num \notin Handled /\ Handled \ {num} = 1..(cur - 1)
    BY <1>1, <1>3
  <2>2. Cardinality(1..(cur - 1)) = cur - 1
    <3> DEFINE m == cur - 1
    <3>1. m \in Nat
      BY <1>1, <1>3
    <3> HIDE DEF m
    <3>2. Cardinality(1..m) = m
      <4>1. Cardinality(1..m) = IF 1 > m THEN 0 ELSE m - 1 + 1
        BY <3>1, FS_Interval
      <4> QED
        BY <3>1, <4>1
    <3> QED
      BY <3>2 DEF m
  <2>3. Slots = Chunk * (cur - 1) + 0
    BY <2>1, <2>2 DEF Slots
  <2>4. PerUrb(kind, mode, length) = Chunk
    BY <1>2 DEF PerUrb
  <2>5. Chunk * (cur - 1) = (cur - 1) * Chunk /\ Chunk * (cur - 1) \in Nat
    <3>1. cur - 1 \in Nat /\ Chunk \in Nat
      BY <1>1, <1>3, UsbTransferAssumption
    <3> QED
      BY <3>1
  <2>6. offset = Slots
    BY <1>1, <1>2 DEF SlotInv
  <2> QED
    BY <2>3, <2>4, <2>5, <2>6 DEF Start
<1>7. \A c \in 1..Len(urbs[cur].cells) : urbs[cur].cells[c] = Start(cur) + c
  BY <1>2, <1>3 DEF PacketsInv
<1>8. \A c \in 1..offset : buf[c] = c
  BY <1>2 DEF TurnInv
<1> DEFINE at == Start(cur)
           cells == urbs[cur].cells
<1>9. /\ at \in Nat /\ cells \in Seq(Nat) /\ at + Len(cells) <= length /\ Len(cells) \in Nat
      /\ buf' = Place(buf, at, cells) /\ offset' = at + Len(cells)
      /\ \A c \in 1..Len(cells) : cells[c] = at + c
      /\ \A c \in 1..at : buf[c] = c
  BY <1>2, <1>4, <1>5, <1>6, <1>7, <1>8
<1> HIDE DEF at, cells
<1>10. /\ \A c \in 1..at : buf'[c] = buf[c]
       /\ \A c \in 1..Len(cells) : buf'[at + c] = cells[c]
  BY <1>1, <1>4, <1>9, Placed
<1>11. \A c \in 1..offset' : buf'[c] = c
  <2> SUFFICES ASSUME NEW c \in 1..(at + Len(cells)) PROVE buf'[c] = c
    BY <1>9
  <2>1. CASE c \in 1..at
    BY <1>9, <1>10, <2>1
  <2>2. CASE c \notin 1..at
    <3>1. c - at \in 1..Len(cells) /\ c = at + (c - at)
      BY <1>9, <2>2
    <3>2. buf'[at + (c - at)] = at + (c - at)
      BY <1>9, <1>10, <3>1
    <3> QED
      BY <3>1, <3>2
  <2> QED
    BY <2>1, <2>2
<1>12. offset' = Start(cur) + Size(cur)
  BY <1>2, <1>5, <1>6
<1> QED
  BY <1>11, <1>12

LEMMA HandleTurn ==
  ASSUME Base, BufInv, PacketsInv, TurnInv, HandleSteps
  PROVE  TurnInv'
<1>1. /\ Types /\ PlacesInv /\ LockInv /\ PhaseInv /\ DoneInv /\ JobInv /\ num \in Nat
      /\ urbs \in [1..num -> Urbs] /\ pc \in [Threads -> AppPlaces \cup EventPlaces]
  BY BaseIs
<1>2. /\ UNCHANGED <<kind, mode, length, num, urbs, done>> /\ pc["event"] = "handle" /\ xlock = "free"
      /\ has /\ cur' = 0
  BY <1>1, HandleMoves DEF HandleSteps, job
<1>3. alive' = alive
  BY DEF HandleSteps, HandleAbnormal, HandleBulk, HandleIso, HandleControl,
     HandledUnchanged, kernel
<1>4. (\A t \in Threads : pc[t] # "discard") /\ Untouched
  BY <1>2, ServedAlone
<1> SUFFICES ASSUME Serving' PROVE TurnInv'
  BY DEF TurnInv
<1>5. has' /\ alive /\ action' = "normal" /\ reapStatus' = "completed"
  BY <1>3 DEF Serving
<1>6. ASSUME Serving, Wait,
             kind # "iso" => urbs[cur].status = "ok",
             kind = "iso" => \A c \in 1..offset' : buf'[c] = c
      PROVE  TurnInv'
  <2>1. Reached(cur) /\ cur \in 1..num /\ urbs[cur].st = "reaped"
    BY <1>2, <1>6, TurnOf
  <2>2. PICK n \in 0..num : n = cur /\ Reached(n)
    BY <1>1, <2>1
  <2>3. Reached(n)'
    BY <1>2, <2>2 DEF Reached, Returned
  <2>4. \A i \in Handled' : i \in Handled \/ i = cur
    BY <1>2 DEF Handled
  <2>5. kind # "iso" => \A i \in Handled' : urbs[i].status = "ok"
    BY <1>6, <2>4 DEF TurnInv
  <2>6. \A t \in Threads : pc'[t] # "discard"
    BY <1>1, <1>4, <1>6 DEF Wait, Go, Threads
  <2>7. \A i \in 1..num : urbs[i].status # "cancelled"
    BY <1>6 DEF TurnInv
  <2> QED
    BY <1>2, <1>6, <2>2, <2>3, <2>5, <2>6, <2>7 DEF TurnInv
<1>7. CASE HandleAbnormal
  BY <1>5, <1>7 DEF HandleAbnormal
<1>8. CASE HandleControl
  BY <1>5, <1>8 DEF HandleControl, Over
<1>9. CASE HandleIso
  <2>1. UNCHANGED <<action, reapStatus>> /\ kind = "iso"
    BY <1>9 DEF HandleIso
  <2>2. Serving
    BY <1>2, <1>4, <1>5, <2>1 DEF Serving
  <2>3. Wait
    BY <1>5, <1>9 DEF HandleIso, Over
  <2> QED
    BY <1>6, <1>9, <2>1, <2>2, <2>3, IsoTurn
<1>10. CASE HandleBulk
  <2>1. /\ action = "normal" /\ kind # "iso"
        /\ action' = IF Faults = "error" THEN "error"
                     ELSE IF Faults = "completed" /\ ~All /\ Short(urbs[cur]) THEN "early"
                     ELSE action
        /\ reapStatus' = IF Faults = "no device" \/ reapStatus = "completed"
                         THEN Faults ELSE reapStatus
        /\ IF All \/ Faults = "overflow" THEN Over(reapStatus')
           ELSE IF Faults # "completed" \/ Short(urbs[cur]) THEN DiscardRest
           ELSE Wait
    BY <1>10, BulkIs
  <2>2. Faults = "completed" /\ reapStatus = "completed"
    BY <1>5, <2>1, FaultIs
  <2>3. Serving
    BY <1>2, <1>4, <1>5, <2>1, <2>2 DEF Serving
  <2>4. ~Over(reapStatus')
    BY <1>5 DEF Over
  <2>5. ~All /\ ~Short(urbs[cur]) /\ Wait
    BY <1>5, <2>1, <2>2, <2>4
  <2>6. urbs[cur].status = "ok"
    <3>1. /\ urbs[cur].status \in {"ok", "short"}
          /\ urbs[cur].status = "short" => Len(urbs[cur].cells) < Size(cur)
      BY <1>2, <2>1, <2>2, <2>3, FaultIs, TurnGood
    <3> QED
      BY <2>5, <3>1 DEF Short
  <2> QED
    BY <1>6, <2>1, <2>3, <2>5, <2>6
<1> QED
  BY <1>7, <1>8, <1>9, <1>10 DEF HandleSteps

LEMMA TurnStep ==
  ASSUME Base, ModeInv, BufInv, PacketsInv, TurnInv, [Next]_vars
  PROVE  TurnInv'
<1>1. CASE Aside \/ UNCHANGED vars
  BY <1>1, AsideTurn
<1>2. CASE List
  BY <1>2, ListTurn
<1>3. CASE SubmitUrb
  BY <1>3, SubmitTurn
<1>4. CASE SubmitRefused \/ SubmitStops \/ SubmitEndsEarly
  <2>1. ~has' \/ action' # "normal"
    BY <1>4 DEF SubmitRefused, SubmitStops, SubmitEndsEarly
  <2> QED
    BY <2>1 DEF TurnInv, Serving
<1>5. CASE \E t \in Threads : Walked(t)
  BY <1>5, WalkedTurn
<1>6. CASE UrbDone \/ UrbShort \/ UrbFails \/ UrbOverflows \/ Shutdown
  BY <1>6, KernelTurn
<1>7. CASE \E t \in Threads : DiscardUrb(t)
  BY <1>7, DiscardTurn
<1>8. CASE Reap
  BY <1>8, ReapTurn
<1>9. CASE HandleSteps
  BY <1>9, HandleTurn
<1> QED
  BY <1>1, <1>2, <1>3, <1>4, <1>5, <1>6, <1>7, <1>8, <1>9, StepIs

-----------------------------------------------------------------------------
(* A transfer that ended early ended in a short URB. *)

LEMMA EarlyKeeps ==
  ASSUME EarlyInv, DoneInv, FateInv, num' = num,
         has' /\ action' = "early" /\ reapStatus' = "completed" /\ alive' =>
           has /\ action = "early" /\ reapStatus = "completed" /\ alive,
         \A i \in 1..num : /\ Returned(i) => Returned(i)' /\ urbs'[i].status = urbs[i].status
                           /\ urbs[i].st = "none" => urbs'[i].st = "none"
  PROVE  EarlyInv'
<1> SUFFICES ASSUME has', action' = "early", reapStatus' = "completed", alive', ~Stopped'
             PROVE  \E j \in 1..num :
                      /\ urbs'[j].status = "short"
                      /\ \A i \in 1..num : i < j => Returned(i)' /\ urbs'[i].status \in {"ok", "short"}
  BY DEF EarlyInv
<1>1. ~Stopped
  BY DEF Stopped
<1>2. PICK j \in 1..num :
        /\ urbs[j].status = "short"
        /\ \A i \in 1..num : i < j => Returned(i) /\ urbs[i].status \in {"ok", "short"}
  BY <1>1 DEF EarlyInv
<1>3. Returned(j)
  BY <1>2 DEF FateInv
<1> QED
  BY <1>2, <1>3

LEMMA EarlyStep ==
  ASSUME Base, ModeInv, TurnInv, EarlyInv, [Next]_vars
  PROVE  EarlyInv'
<1> USE DEF At
<1>1. /\ Types /\ PlacesInv /\ LockInv /\ PhaseInv /\ DoneInv /\ JobInv /\ OrderInv /\ num \in Nat
      /\ urbs \in [1..num -> Urbs] /\ FateInv /\ KindMode /\ Ground /\ UrbInv
  BY BaseIs DEF UrbFateInv, ModeInv
<1>2. CASE Aside \/ UNCHANGED vars
  <2>1. UNCHANGED <<num, action, reapStatus, urbs>> /\ (has' => has) /\ (alive' => alive)
    BY <1>2, AsideMoves
  <2> QED
    BY <1>1, <2>1, EarlyKeeps DEF Returned
<1>3. CASE List \/ SubmitUrb
  <2>1. action' = "normal"
    BY <1>1, <1>3 DEF List, SubmitUrb, priv, KindMode
  <2> QED
    BY <2>1 DEF EarlyInv
<1>4. CASE SubmitRefused \/ SubmitStops
  <2>1. ~has' \/ action' = "submit_failed"
    BY <1>4 DEF SubmitRefused, SubmitStops
  <2> QED
    BY <2>1 DEF EarlyInv
<1>5. CASE SubmitEndsEarly
  <2>1. pc["app"] = "submit" /\ UNCHANGED <<urbs, num>>
    BY <1>5 DEF SubmitEndsEarly, kernel
  <2>2. Submitting \in 1..num /\ urbs[Submitting].st = "none"
    BY <1>1, <2>1, SubmittingIs
  <2>3. Stopped'
    BY <2>1, <2>2 DEF Stopped
  <2> QED
    BY <2>3 DEF EarlyInv
<1>6. ASSUME NEW t \in Threads, Walked(t) PROVE EarlyInv'
  <2>1. UNCHANGED <<num, has, reapStatus, alive, urbs>> /\ action' \in {action, "cancelled"}
    BY <1>1, <1>6, WalkedMoves
  <2> QED
    BY <1>1, <2>1, EarlyKeeps DEF Returned
<1>7. CASE \/ UrbDone \/ UrbShort \/ UrbFails \/ UrbOverflows \/ Shutdown
           \/ \E t \in Threads : DiscardUrb(t)
  <2>1. /\ UNCHANGED <<num, has, action, reapStatus, alive>>
        /\ \/ UNCHANGED <<urbs, done, sent>>
           \/ \E i \in 1..num, last \in 1..num, status \in Statuses, n \in Nat :
                Returns(i, status, n, last)
    BY <1>7, ReturnStep DEF priv
  <2>2. \A j \in 1..num : urbs[j].st # "queued" => urbs'[j] = urbs[j]
    BY <2>1, ReturnsLeave
  <2>3. \A j \in 1..num : /\ Returned(j) => Returned(j)' /\ urbs'[j].status = urbs[j].status
                          /\ urbs[j].st = "none" => urbs'[j].st = "none"
    BY <2>2 DEF Returned
  <2> QED
    BY <1>1, <2>1, <2>3, EarlyKeeps
<1>8. CASE Reap
  <2>1. /\ UNCHANGED <<num, has, action, reapStatus, alive>>
        /\ cur' \in 1..num /\ urbs[cur'].st = "done" /\ urbs'[cur'].st = "reaped"
        /\ \A j \in 1..num : /\ urbs'[j].status = urbs[j].status
                             /\ j # cur' => urbs'[j].st = urbs[j].st
    BY <1>1, <1>8, ReapMoves
  <2>2. \A j \in 1..num : /\ Returned(j) => Returned(j)' /\ urbs'[j].status = urbs[j].status
                          /\ urbs[j].st = "none" => urbs'[j].st = "none"
    <3> SUFFICES ASSUME NEW j \in 1..num
                 PROVE  /\ Returned(j) => Returned(j)' /\ urbs'[j].status = urbs[j].status
                        /\ urbs[j].st = "none" => urbs'[j].st = "none"
      OBVIOUS
    <3>1. CASE j = cur'
      BY <2>1, <3>1 DEF Returned
    <3>2. CASE j # cur'
      BY <2>1, <3>2 DEF Returned
    <3> QED
      BY <3>1, <3>2
  <2> QED
    BY <1>1, <2>1, <2>2, EarlyKeeps
<1>9. CASE HandleSteps
  <2>1. UNCHANGED <<num, urbs>> /\ pc["event"] = "handle" /\ xlock = "free" /\ has
    BY <1>1, <1>9, HandleMoves DEF HandleSteps
  <2>2. alive' = alive
    BY <1>9 DEF HandleSteps, HandleAbnormal, HandleBulk, HandleIso, HandleControl,
       HandledUnchanged, kernel
  <2>3. CASE HandleAbnormal \/ HandleIso \/ HandleControl
    <3>1. action' = action /\ (reapStatus' = reapStatus \/ reapStatus' = "error")
      BY <2>3 DEF HandleAbnormal, HandleIso, HandleControl
    <3> QED
      BY <1>1, <2>1, <2>2, <3>1, EarlyKeeps DEF Returned
  <2>4. CASE HandleBulk
    <3> SUFFICES ASSUME has', action' = "early", reapStatus' = "completed", alive'
                 PROVE  \E j \in 1..num :
                          /\ urbs'[j].status = "short"
                          /\ \A i \in 1..num : i < j => Returned(i)' /\ urbs'[i].status \in {"ok", "short"}
      BY <2>1 DEF EarlyInv
    <3>1. /\ action = "normal" /\ kind # "iso"
          /\ action' = IF Faults = "error" THEN "error"
                       ELSE IF Faults = "completed" /\ ~All /\ Short(urbs[cur]) THEN "early"
                       ELSE action
          /\ reapStatus' = IF Faults = "no device" \/ reapStatus = "completed"
                           THEN Faults ELSE reapStatus
      BY <2>4, BulkIs
    <3>2. Faults = "completed" /\ Short(urbs[cur]) /\ reapStatus = "completed"
      BY <3>1
    <3>3. Serving
      BY <2>1, <2>2, <3>1, <3>2, ServedAlone DEF Serving
    <3>4. /\ urbs[cur].status \in {"ok", "short"}
          /\ urbs[cur].status = "ok" => Len(urbs[cur].cells) = Size(cur)
          /\ \A i \in 1..num : i < cur => Returned(i) /\ urbs[i].status = "ok"
      BY <2>1, <3>1, <3>2, <3>3, FaultIs, TurnGood
    <3>5. cur \in 1..num
      BY <2>1, <3>3, TurnOf
    <3>6. urbs[cur].status = "short"
      <4>1. Size(cur) \in Nat
        BY <1>1, <3>5, SizeIs
      <4> QED
        BY <3>2, <3>4, <4>1 DEF Short
    <3>7. \A i \in 1..num : Returned(i) => Returned(i)'
      BY <2>1 DEF Returned
    <3> QED
      BY <2>1, <3>4, <3>5, <3>6, <3>7
  <2> QED
    BY <1>9, <2>3, <2>4 DEF HandleSteps
<1> QED
  BY <1>2, <1>3, <1>4, <1>5, <1>6, <1>7, <1>8, <1>9, StepIs

-----------------------------------------------------------------------------
(* What a transfer that completed is. *)

LEMMA WholeStays ==
  ASSUME UNCHANGED <<kind, length, num, urbs, buf>>
  PROVE  Whole => Whole'
BY DEF Whole, Stopped

LEMMA CompleteKeeps ==
  ASSUME CompleteInv, Whole => Whole', alive' => alive,
         Ending' => Ending /\ (result' = result \/ result' # "completed"),
         told' = told \/ told' # "completed"
  PROVE  CompleteInv'
BY DEF CompleteInv

\* When all URBs are retired, the last one is being handled.
LEMMA LastTurn ==
  ASSUME Base, KindMode, TurnInv, Serving, pc["event"] = "handle", xlock = "free",
         retired + 1 = num
  PROVE  cur = num /\ Handled = 1..(num - 1)
<1>1. /\ Ground /\ UrbInv /\ LockInv /\ num \in Nat /\ urbs \in [1..num -> Urbs]
  BY BaseIs
<1>2. pc["app"] # "submit"
  BY <1>1, OneWalks DEF Threads
<1>3. Queued = {} /\ done = <<>>
  BY <1>1, <1>2, OneMore
<1>4. Reached(cur) /\ cur \in 1..num /\ Handled = 1..(cur - 1)
  BY TurnOf
<1>5. num \in 1..num /\ Len(done) = 0
  BY <1>1, <1>3, <1>4
<1>6. urbs[num].st # "none" /\ urbs[num].st # "queued"
  <2>1. urbs[num].st # "none"
    BY <1>2, <1>5 DEF KindMode, Serving
  <2>2. num \notin Queued /\ DOMAIN urbs = 1..num
    BY <1>1, <1>3
  <2> QED
    BY <1>5, <2>1, <2>2 DEF Queued
<1>7. Returned(num)
  BY <1>1, <1>5, <1>6 DEF Urbs, Returned
<1>8. num <= cur + Len(done)
  BY <1>4, <1>5, <1>7 DEF Reached
<1> QED
  BY <1>4, <1>5, <1>8

LEMMA HandleComplete ==
  ASSUME Base, ModeInv, BufInv, PacketsInv, TurnInv, EarlyInv, CompleteInv, HandleSteps
  PROVE  CompleteInv'
<1> USE DEF At
<1>1. /\ Types /\ PlacesInv /\ LockInv /\ PhaseInv /\ DoneInv /\ JobInv /\ num \in Nat
      /\ pc \in [Threads -> AppPlaces \cup EventPlaces] /\ KindMode
  BY BaseIs DEF ModeInv
<1>2. /\ UNCHANGED <<kind, mode, length, num, urbs, told>> /\ pc["event"] = "handle"
      /\ xlock = "free" /\ has /\ told = "pending"
  BY <1>1, HandleMoves DEF HandleSteps, job
<1>3. alive' = alive
  BY DEF HandleSteps, HandleAbnormal, HandleBulk, HandleIso, HandleControl,
     HandledUnchanged, kernel
<1>4. Untouched
  BY <1>2, ServedAlone
<1>5. cur \in 1..num /\ urbs[cur].st = "reaped"
  BY <1>1, <1>2 DEF DoneInv
<1> SUFFICES ASSUME alive, Ending', result' = "completed" PROVE Whole'
  BY <1>2, <1>3 DEF CompleteInv
<1>6. ~Wait /\ ~DiscardRest
  BY <1>1 DEF Wait, DiscardRest, Go, Ending, Threads
<1>7. ASSUME kind # "iso",
             Stopped \/ \A i \in 1..num : \/ urbs[i].status \in {"ok", "short"}
                                          \/ \E j \in 1..(i - 1) : urbs[j].status = "short"
      PROVE  Whole'
  <2>1. Whole
    BY <1>7 DEF Whole
  <2> QED
    BY <1>2, <1>7, <2>1 DEF Whole, Stopped
<1>8. CASE HandleControl
  <2>1. kind = "control" /\ urbs[cur].status \in {"ok", "short"}
    <3>1. /\ kind = "control"
          /\ result' = IF action = "cancelled" THEN "cancelled"
                       ELSE CASE urbs[cur].status \in {"ok", "short"} -> "completed"
                              [] urbs[cur].status = "gone" -> "no device"
                              [] urbs[cur].status = "bus" -> "error"
                              [] OTHER -> urbs[cur].status
      BY <1>8 DEF HandleControl, Over
    <3>2. urbs[cur].status # "completed"
      BY <1>1, <1>5 DEF DoneInv, Urbs, Statuses
    <3> QED
      BY <3>1, <3>2
  <2>2. num = 1 /\ cur = 1
    <3>1. num # 0
      BY <1>1, <1>5
    <3>2. num = 1
      BY <1>1, <2>1, <3>1, OneForControl
    <3> QED
      BY <1>5, <3>2
  <2>3. \A i \in 1..num : i = cur
    BY <2>2
  <2> QED
    BY <1>7, <2>1, <2>3
<1>9. CASE HandleAbnormal
  <2>1. /\ kind # "iso" /\ action # "normal"
        /\ reapStatus' = IF All /\ action # "early" /\ reapStatus = "completed"
                         THEN "error" ELSE reapStatus
        /\ All /\ Over(IF action = "cancelled" THEN "cancelled" ELSE reapStatus')
    BY <1>6, <1>9 DEF HandleAbnormal
  <2>2. result' = IF action = "cancelled" THEN "cancelled" ELSE reapStatus'
    BY <2>1 DEF Over
  <2>3. action = "early" /\ reapStatus = "completed"
    BY <2>1, <2>2
  <2>4. Stopped \/ \E j \in 1..num :
          /\ urbs[j].status = "short"
          /\ \A i \in 1..num : i < j => Returned(i) /\ urbs[i].status \in {"ok", "short"}
    BY <1>2, <2>3 DEF EarlyInv
  <2>5. ASSUME NEW j \in 1..num, urbs[j].status = "short",
               \A i \in 1..num : i < j => Returned(i) /\ urbs[i].status \in {"ok", "short"},
               NEW i \in 1..num
        PROVE  \/ urbs[i].status \in {"ok", "short"}
               \/ \E k \in 1..(i - 1) : urbs[k].status = "short"
    <3>1. i < j \/ i = j \/ j \in 1..(i - 1)
      BY <1>1
    <3> QED
      BY <2>5, <3>1
  <2> QED
    BY <1>7, <2>1, <2>4, <2>5
<1>10. CASE HandleBulk
  <2>1. /\ kind # "iso" /\ action = "normal" /\ retired' = retired + 1
        /\ reapStatus' = IF Faults = "no device" \/ reapStatus = "completed"
                         THEN Faults ELSE reapStatus
        /\ IF All \/ Faults = "overflow" THEN Over(reapStatus')
           ELSE IF Faults # "completed" \/ Short(urbs[cur]) THEN DiscardRest
           ELSE Wait
    BY <1>10, BulkIs
  <2>2. (All \/ Faults = "overflow") /\ Over(reapStatus')
    BY <1>6, <2>1
  <2>3. reapStatus' = "completed"
    BY <2>2 DEF Over
  <2>4. Faults = "completed" /\ reapStatus = "completed"
    BY <2>1, <2>3
  <2>5. retired + 1 = num
    BY <1>2, <2>1, <2>2, <2>4 DEF All
  <2>6. Serving
    BY <1>2, <1>4, <2>1, <2>4 DEF Serving
  <2>7. cur = num
    BY <1>1, <1>2, <2>5, <2>6, LastTurn
  <2>8. /\ urbs[cur].status \in {"ok", "short"}
        /\ \A i \in 1..num : i < cur => urbs[i].status = "ok"
    BY <1>2, <2>1, <2>4, <2>6, FaultIs, TurnGood
  <2>9. \A i \in 1..num : i = cur \/ i < cur
    BY <1>1, <2>7
  <2> QED
    BY <1>7, <2>1, <2>8, <2>9
<1>11. CASE HandleIso
  <2>1. /\ kind = "iso" /\ retired' = retired + 1
        /\ IF ~All THEN Wait
           ELSE Over(IF action = "cancelled" THEN "cancelled"
                     ELSE IF action = "submit_failed" THEN "error"
                     ELSE CASE urbs[cur].status \in {"ok", "cancelled"} -> "completed"
                            [] urbs[cur].status = "gone" -> "no device"
                            [] OTHER -> "error")
    BY <1>11 DEF HandleIso
  <2>2. /\ All
        /\ result' = IF action = "cancelled" THEN "cancelled"
                     ELSE IF action = "submit_failed" THEN "error"
                     ELSE CASE urbs[cur].status \in {"ok", "cancelled"} -> "completed"
                            [] urbs[cur].status = "gone" -> "no device"
                            [] OTHER -> "error"
    BY <1>6, <2>1 DEF Over
  <2>3. action # "cancelled" /\ action # "submit_failed"
    BY <2>2
  <2>4. action = "normal" /\ reapStatus = "completed"
    BY <1>1, <1>2, <2>1, <2>3 DEF KindMode
  <2>5. Serving
    BY <1>2, <1>4, <2>4 DEF Serving
  <2>6. retired + 1 = num
    BY <1>2, <2>1, <2>2 DEF All
  <2>7. cur = num
    BY <1>1, <1>2, <2>5, <2>6, LastTurn
  <2>8. (\A c \in 1..offset' : buf'[c] = c) /\ offset' = Start(cur) + Size(cur)
    BY <1>11, <2>5, IsoTurn
  <2>9. Start(cur) + Size(cur) = length
    BY <1>1, <1>5, <2>7, SizeIs
  <2> QED
    BY <1>2, <2>1, <2>8, <2>9 DEF Whole
<1> QED
  BY <1>8, <1>9, <1>10, <1>11 DEF HandleSteps

LEMMA CompleteStep ==
  ASSUME Base, ModeInv, BufInv, PacketsInv, TurnInv, EarlyInv, CompleteInv, [Next]_vars
  PROVE  CompleteInv'
<1> USE DEF At, Go
<1>1. /\ Types /\ PlacesInv /\ LockInv /\ PhaseInv /\ DoneInv /\ JobInv /\ num \in Nat
      /\ pc \in [Threads -> AppPlaces \cup EventPlaces]
  BY BaseIs
<1>2. Ending \/ told = "completed" => ~has /\ Queued = {} /\ done = <<>>
  BY <1>1 DEF PhaseInv, Ending, Submission, DoneInv
<1>3. CASE UNCHANGED vars
  <2>1. UNCHANGED <<kind, length, num, urbs, buf, alive, pc, result, told>>
    BY <1>3 DEF vars, job, priv, kernel, data, threads, ghosts
  <2> QED
    BY <2>1, WholeStays, CompleteKeeps DEF Ending
<1>4. CASE Submit \/ Unlist \/ Remove \/ Settle \/ Unplug \/ Hangup \/ FindLost
  <2>1. UNCHANGED <<kind, length, num, urbs, buf, result>>
    BY <1>4 DEF Submit, Unlist, Remove, Settle, Unplug, Hangup, FindLost, job, priv,
       kernel, data, threads
  <2>2. (alive' => alive) /\ (told' = told \/ told' # "completed")
    BY <1>4 DEF Submit, Unlist, Remove, Settle, Unplug, Hangup, FindLost, kernel,
       ghosts, threads
  <2>3. Ending' => Ending
    BY <1>1, <1>4 DEF Submit, Unlist, Remove, Settle, Unplug, Hangup, FindLost,
       threads, Ending, Threads
  <2> QED
    BY <2>1, <2>2, <2>3, WholeStays, CompleteKeeps
<1>5. CASE Why
  <2>1. UNCHANGED <<kind, length, num, urbs, buf, alive, told>> /\ pc["event"] = "why"
        /\ result' # "completed"
    BY <1>5 DEF Why, job, priv, kernel, data, ghosts
  <2> QED
    BY <2>1, WholeStays, CompleteKeeps DEF Ending
<1>6. CASE Call
  <2>1. /\ UNCHANGED <<kind, length, num, urbs, buf, alive>> /\ pc["event"] = "call"
        /\ told' = result \/ told' = "error"
        /\ pc'["event"] = "poll"
    BY <1>1, <1>6 DEF Call, job, priv, kernel, data, Threads
  <2> QED
    BY <2>1, WholeStays DEF CompleteInv, Ending
<1>7. CASE ClearLost
  <2>1. UNCHANGED <<kind, length, num, urbs, buf, alive, told>> /\ result' = "no device" /\ told = "pending"
    BY <1>1, <1>7 DEF ClearLost, job, kernel, data, ghosts, PhaseInv
  <2> QED
    BY <2>1 DEF CompleteInv
<1>8. ASSUME NEW t \in Threads, NEW why, NEW next \in {"idle", "mark"}, BeginCancel(t, why, next)
      PROVE  CompleteInv'
  <2>1. UNCHANGED <<kind, length, num, urbs, buf, alive, told, result>>
    BY <1>8 DEF BeginCancel, job, priv, kernel, data, ghosts
  <2>2. pc' = [pc EXCEPT ![t] = next] \/ pc' = [pc EXCEPT ![t] = "discard"]
    BY <1>8 DEF BeginCancel
  <2>3. Ending' => Ending
    BY <1>1, <2>2 DEF Ending, Threads
  <2> QED
    BY <2>1, <2>3, WholeStays, CompleteKeeps
<1>9. CASE Cancel \/ \E t \in Threads : Expire(t)
  BY <1>8, <1>9 DEF Cancel, Expire, Threads
<1>10. ASSUME NEW t \in Threads, TimerFires(t) \/ Mark(t) PROVE CompleteInv'
  <2>1. UNCHANGED <<kind, length, num, urbs, buf, alive, told, result>>
    BY <1>10 DEF TimerFires, Mark, job, priv, kernel, data, ghosts
  <2>2. Ending' => Ending
    BY <1>1, <1>10 DEF TimerFires, Mark, Rest, Ending, Threads
  <2> QED
    BY <2>1, <2>2, WholeStays, CompleteKeeps
<1>11. ASSUME NEW t \in Threads, Walked(t) PROVE CompleteInv'
  <2>1. /\ UNCHANGED <<kind, length, num, urbs, buf, alive, result>>
        /\ told' = told \/ told' = "pending"
    BY <1>1, <1>11, WalkedMoves
  <2>2. \E p \in {"idle", "poll", "mark"} : pc' = [pc EXCEPT ![t] = p]
    BY <1>1, <1>11, WalkedMoves
  <2>3. Ending' => Ending
    BY <1>1, <2>2 DEF Ending, Threads
  <2> QED
    BY <2>1, <2>3, WholeStays, CompleteKeeps
<1>12. CASE List \/ SubmitUrb \/ SubmitRefused \/ SubmitStops \/ SubmitEndsEarly
  <2>1. pc["app"] \in {"list", "submit"}
    BY <1>12 DEF List, SubmitUrb, SubmitRefused, SubmitStops, SubmitEndsEarly
  <2>2. told = "none" /\ ~Ending
    BY <1>1, <2>1 DEF PhaseInv, Submission, Ending
  <2>3. pc'["event"] = pc["event"] /\ told' \in {told, "pending"}
    BY <1>1, <1>12 DEF List, SubmitUrb, SubmitRefused, SubmitStops, SubmitEndsEarly,
       Accept, ghosts, Threads
  <2> QED
    BY <2>2, <2>3 DEF CompleteInv, Ending
<1>13. CASE \/ UrbDone \/ UrbShort \/ UrbFails \/ UrbOverflows \/ Shutdown
            \/ \E t \in Threads : DiscardUrb(t)
  <2>1. /\ UNCHANGED <<job, priv, alive, buf, pc, result, told>>
        /\ \/ UNCHANGED <<urbs, done, sent>>
           \/ \E i \in 1..num, last \in 1..num, status \in Statuses, n \in Nat :
                Returns(i, status, n, last)
    BY <1>13, ReturnStep
  <2>2. CASE Queued = {}
    <3>1. UNCHANGED urbs
      BY <2>1, <2>2 DEF Returns
    <3> QED
      BY <2>1, <3>1, WholeStays, CompleteKeeps DEF Ending, job, priv
  <2>3. CASE Queued # {}
    BY <1>2, <2>1, <2>3 DEF CompleteInv, Ending
  <2> QED
    BY <2>2, <2>3
<1>14. CASE Reap
  <2>1. done # <<>> /\ pc'["event"] = "handle" /\ told' = told
    BY <1>1, <1>14 DEF Reap, ghosts, Threads
  <2> QED
    BY <1>2, <2>1 DEF CompleteInv, Ending
<1>15. CASE HandleSteps
  BY <1>15, HandleComplete
<1> QED
  BY <1>3, <1>4, <1>5, <1>6, <1>7, <1>9, <1>10, <1>11, <1>12, <1>13, <1>14, <1>15, StepIs
     DEF Aside

-----------------------------------------------------------------------------
(* Who cancelled the transfer. *)

\* Steps that change none of the flags of a cancellation, and at most end the
\* transfer.
LEMMA CancelKeeps ==
  ASSUME CancelInv, UNCHANGED <<kind, num, timed, cancelling, timedout, cancelled>>,
         has' => has,
         told' = told \/ has \/ told' # "pending",
         \A t \in Threads :
           /\ pc'[t] = "expire" => pc[t] = "expire"
           /\ pc'[t] = "mark" => pc[t] = "mark" /\ walk'[t] = walk[t]
           /\ pc[t] = "mark" => pc'[t] = "mark" /\ walk'[t] = walk[t]
           /\ pc'[t] = "discard" => pc[t] = "discard" \/ walk'[t].why \in {"rest", "submit"}
           /\ pc'[t] = "discard" /\ pc[t] = "discard" => walk'[t] = walk[t]
           /\ pc[t] = "discard" => pc'[t] = "discard" /\ walk'[t] = walk[t],
         pc'["app"] \in {"list", "submit"} => pc["app"] \in {"list", "submit"},
         has' /\ action' # action => ~cancelled /\ kind # "control",
         action' = action \/ action' # "cancelled",
         kind = "control" /\ has' /\ urbs'[1].status = "cancelled" => urbs[1].status = "cancelled",
         pc'["event"] = "why" =>
           \/ pc["event"] = "why" /\ action' = action /\ result' = result
           \/ has /\ action' = "cancelled" /\ result' = "cancelled"
  PROVE  CancelInv'
<1>1. Expiring' => Expiring
  BY DEF Expiring
<1>2. Expiring => Expiring'
  BY DEF Expiring
<1>3. \A t \in Threads :
        /\ pc'[t] \in {"expire", "mark"} => timed
        /\ pc'[t] = "discard" /\ walk'[t].why = "timeout" => timed
        /\ pc'[t] = "discard" /\ walk'[t].why \in {"cancel", "timeout"} => ~cancelling
  BY DEF CancelInv, TimedInv, OnceInv, CauseInv, AloneInv
<1>4. /\ timedout => timed
      /\ has' => num # 0
      /\ pc'["app"] \in {"list", "submit"} => ~cancelled
      /\ cancelled \/ Expiring' => cancelling
      /\ timedout /\ (has' \/ told' = "pending") => cancelling
      /\ cancelled => ~Expiring'
      /\ cancelled /\ (has' \/ told' = "pending") => ~timedout
  BY <1>1 DEF CancelInv, TimedInv, OnceInv, CauseInv, AloneInv
<1>5. (has' \/ pc'["event"] = "why") /\ action' = "cancelled" => cancelled \/ timedout \/ Expiring'
  BY <1>2 DEF CancelInv, TimedInv, OnceInv, CauseInv, AloneInv
<1>6. has' /\ cancelled => action' = "cancelled"
  BY DEF CancelInv, TimedInv, OnceInv, CauseInv, AloneInv
<1>7. has' /\ kind = "control" /\ urbs'[1].status = "cancelled" =>
        \/ action' = "cancelled"
        \/ \E t \in Threads : /\ pc'[t] = "discard" /\ walk'[t].why \in {"cancel", "timeout"}
                              /\ walk'[t].ret = "ok" /\ walk'[t].k = 0
  BY DEF CancelInv, TimedInv, OnceInv, CauseInv, AloneInv
<1>8. pc'["event"] = "why" => action' = "cancelled" /\ result' = "cancelled"
  BY DEF CancelInv, TimedInv, OnceInv, CauseInv, AloneInv
<1> QED
  BY <1>3, <1>4, <1>5, <1>6, <1>7, <1>8 DEF CancelInv, TimedInv, OnceInv, CauseInv, AloneInv

\* While no thread is at a timeout, none is about to mark one.
LEMMA NoneExpires ==
  ASSUME PlacesInv, LockInv, flock = "free" \/ pc["app"] = "list"
  PROVE  /\ pc["event"] \notin {"expire", "mark"} /\ pc["app"] \notin {"expire", "mark"}
         /\ ~Expiring
<1>1. pc["event"] \notin {"expire", "mark"} /\ pc["app"] \notin {"expire", "mark"}
  BY DEF LockInv, HoldsList, Threads
<1> QED
  BY <1>1 DEF Expiring, Threads

LEMMA SubmitCancel ==
  ASSUME Base, CancelInv, Submit \/ List
  PROVE  CancelInv'
<1> USE DEF At, Go
<1>1. /\ PlacesInv /\ PhaseInv /\ LockInv /\ pc \in [Threads -> AppPlaces \cup EventPlaces]
  BY BaseIs
<1>2. pc["event"] \notin {"expire", "mark"} /\ pc["app"] \notin {"expire", "mark"} /\ ~Expiring
  BY <1>1, NoneExpires DEF Submit, List
<1>3. ~has /\ told # "pending" /\ pc["event"] # "why"
  BY <1>1 DEF Submit, List, PhaseInv, Submission
<1>4. CASE Submit
  <2>1. /\ UNCHANGED <<kind, num, timed, has, action, cancelling, timedout, urbs, walk, result>>
        /\ pc' = [pc EXCEPT !["app"] = "list"] /\ pc["app"] = "idle"
        /\ told' = "none" /\ cancelled' = FALSE
    BY <1>4 DEF Submit, job, priv, kernel, flags
  <2>2. /\ \A t \in Threads : pc'[t] \notin {"expire", "mark", "why"}
        /\ \A t \in Threads : pc'[t] = "discard" => pc[t] = "discard"
    BY <1>1, <1>2, <1>3, <2>1 DEF Threads, AppPlaces
  <2>3. ~Expiring'
    BY <2>2 DEF Expiring
  <2>4. \A t \in Threads :
          /\ pc'[t] = "discard" /\ walk'[t].why = "timeout" => timed
          /\ pc'[t] = "discard" /\ walk'[t].why \in {"cancel", "timeout"} => ~cancelling
    BY <2>1, <2>2 DEF CancelInv, TimedInv, OnceInv, CauseInv, AloneInv
  <2>5. timedout => timed
    BY DEF CancelInv, TimedInv, OnceInv, CauseInv, AloneInv
  <2>6. pc'["event"] # "why"
    BY <2>2 DEF Threads
  <2> QED
    BY <1>3, <2>1, <2>2, <2>3, <2>4, <2>5, <2>6 DEF CancelInv, TimedInv, OnceInv,
       CauseInv, AloneInv
<1>5. CASE List
  <2>1. /\ pc' = [pc EXCEPT !["app"] = "submit"] /\ pc["app"] = "list" /\ xlock = "free"
        /\ cancelling' = FALSE /\ timedout' = FALSE /\ cancelled' = cancelled /\ told' = told
        /\ action' = "normal" /\ num' = UrbCount(kind', mode', length') /\ length' \in Nat
        /\ urbs' = [i \in 1..num' |-> [st |-> "none", status |-> "ok", cells |-> <<>>]]
    BY <1>5, UsbTransferAssumption DEF List, ghosts
  <2>2. num' \in Nat \ {0}
    BY <2>1, CountIs
  <2>3. urbs'[1].status = "ok"
    BY <2>1, <2>2
  <2>4. \A t \in Threads : pc'[t] \notin {"expire", "mark", "why", "discard"}
    BY <1>1, <1>2, <1>3, <2>1, OneWalks DEF Threads, AppPlaces
  <2>5. ~Expiring' /\ pc'["event"] # "why"
    BY <2>4 DEF Expiring, Threads
  <2>6. ~cancelled
    BY <2>1 DEF CancelInv, TimedInv, OnceInv, CauseInv, AloneInv
  <2> QED
    BY <1>3, <2>1, <2>2, <2>3, <2>4, <2>5, <2>6 DEF CancelInv, TimedInv, OnceInv,
       CauseInv, AloneInv
<1> QED
  BY <1>4, <1>5

LEMMA BeginsCancel ==
  ASSUME Base, CancelInv, NEW t \in Threads, NEW why \in {"cancel", "timeout"},
         NEW next \in {"idle", "mark"}, BeginCancel(t, why, next),
         why = "timeout" \/ next = "mark" => pc[t] = "expire",
         pc[t] \in {"idle", "expire"}
  PROVE  CancelInv'
<1>1. /\ Types /\ PlacesInv /\ LockInv /\ pc \in [Threads -> AppPlaces \cup EventPlaces]
      /\ BeginCancel(t, why, next)
  BY BaseIs
<1>2. /\ UNCHANGED <<kind, timed, has, num, action, urbs, result, told, cancelled, timedout>>
      /\ xlock = "free" /\ \A u \in Threads : u # t => walk'[u] = walk[u]
  BY <1>1, CancelBegins
<1>3. \/ /\ pc' = [pc EXCEPT ![t] = next] /\ walk'[t].ret = "not found"
         /\ cancelling => cancelling'
         /\ cancelling' => cancelling \/ inflight
      \/ /\ pc' = [pc EXCEPT ![t] = "discard"] /\ ~cancelling /\ ~cancelling' /\ has /\ inflight
         /\ walk'[t] = [k |-> num, lo |-> 1, hi |-> num, ret |-> "ok", why |-> why]
  BY <1>1, CancelBegins, Zenon
<1>4. \A u \in Threads : pc[u] # "discard"
  BY <1>1, <1>2, OneWalks
<1>5. \A u \in Threads : u # t => pc'[u] = pc[u]
  BY <1>1, <1>3
<1>6. pc'[t] \in {next, "discard"}
  BY <1>1, <1>3
<1>7. pc'[t] = "mark" => walk'[t].ret # "ok"
  BY <1>1, <1>3
<1>8. Expiring' => Expiring
  BY <1>2, <1>5, <1>7 DEF Expiring
<1>9. Expiring => Expiring'
  <2>1. pc[t] # "mark"
    OBVIOUS
  <2> QED
    BY <1>2, <1>5, <2>1 DEF Expiring
<1>10. cancelling => cancelling'
  BY <1>3
<1>11. pc'[t] = "discard" => ~cancelling' /\ walk'[t].why = why
  <2>1. CASE pc' = [pc EXCEPT ![t] = next]
    <3>1. pc'[t] = next
      BY <1>1, <2>1
    <3> QED
      BY <3>1
  <2>2. CASE /\ ~cancelling'
             /\ walk'[t] = [k |-> num, lo |-> 1, hi |-> num, ret |-> "ok", why |-> why]
    BY <2>2
  <2> QED
    BY <1>3, <2>1, <2>2
<1>12. \A u \in Threads :
         /\ pc'[u] \in {"expire", "mark"} => timed
         /\ pc'[u] = "discard" /\ walk'[u].why = "timeout" => timed
         /\ pc'[u] = "discard" /\ walk'[u].why \in {"cancel", "timeout"} => ~cancelling'
  <2> SUFFICES ASSUME NEW u \in Threads
               PROVE  /\ pc'[u] \in {"expire", "mark"} => timed
                      /\ pc'[u] = "discard" /\ walk'[u].why = "timeout" => timed
                      /\ pc'[u] = "discard" /\ walk'[u].why \in {"cancel", "timeout"} => ~cancelling'
    OBVIOUS
  <2>1. CASE u # t
    BY <1>4, <1>5, <2>1 DEF CancelInv, TimedInv, OnceInv, CauseInv, AloneInv
  <2>2. CASE u = t
    <3>1. pc[t] = "expire" => timed
      BY DEF CancelInv, TimedInv, OnceInv, CauseInv, AloneInv
    <3> QED
      BY <1>6, <1>11, <2>2, <3>1
  <2> QED
    BY <2>1, <2>2
<1>13. pc'["app"] \in {"list", "submit"} => pc["app"] \in {"list", "submit"}
  BY <1>5, <1>6 DEF Threads
<1>14. pc'["event"] = "why" => pc["event"] = "why"
  BY <1>5, <1>6 DEF Threads
<1>15. has /\ kind = "control" /\ urbs[1].status = "cancelled" => action = "cancelled"
  BY <1>4 DEF CancelInv, TimedInv, OnceInv, CauseInv, AloneInv
<1>16. (has \/ pc'["event"] = "why") /\ action = "cancelled" => cancelled \/ timedout \/ Expiring'
  BY <1>9, <1>14 DEF CancelInv, TimedInv, OnceInv, CauseInv, AloneInv
<1>17. /\ timedout => timed
       /\ has => num # 0
       /\ pc'["app"] \in {"list", "submit"} => ~cancelled
       /\ cancelled \/ Expiring' => cancelling'
       /\ timedout /\ (has \/ told = "pending") => cancelling'
       /\ cancelled => ~Expiring'
       /\ cancelled /\ (has \/ told = "pending") => ~timedout
       /\ has /\ cancelled => action = "cancelled"
       /\ pc'["event"] = "why" => action = "cancelled" /\ result = "cancelled"
  BY <1>8, <1>10, <1>13, <1>14 DEF CancelInv, TimedInv, OnceInv, CauseInv, AloneInv
<1> QED
  BY <1>2, <1>12, <1>15, <1>16, <1>17 DEF CancelInv, TimedInv, OnceInv, CauseInv, AloneInv

\* The walk of a cancellation is over: it, and no other, counts.
LEMMA WalkedCancel ==
  ASSUME Base, ModeInv, CancelInv, NEW t \in Threads, Walked(t)
  PROVE  CancelInv'
<1>1. /\ Types /\ PlacesInv /\ LockInv /\ PhaseInv /\ OrderInv /\ WalkMode /\ num \in Nat
      /\ pc \in [Threads -> AppPlaces \cup EventPlaces] /\ walk \in [Threads -> Walks]
  BY BaseIs DEF ModeInv
<1>2. /\ pc[t] = "discard" /\ ~(walk[t].k >= walk[t].lo)
      /\ UNCHANGED <<kind, timed, has, num, urbs, result, timedout, walk>>
  BY <1>1, WalkedMoves
<1>3. \/ /\ walk[t].why = "submit" /\ pc' = [pc EXCEPT ![t] = "idle"]
         /\ UNCHANGED <<action, cancelling, cancelled>> /\ told' = "pending"
      \/ /\ walk[t].why = "rest" /\ pc' = [pc EXCEPT ![t] = "poll"]
         /\ UNCHANGED <<action, cancelling, cancelled, told>>
      \/ /\ walk[t].why \in {"cancel", "timeout"} /\ cancelling' /\ told' = told
         /\ pc' = [pc EXCEPT ![t] = IF walk[t].why = "timeout" THEN "mark" ELSE "idle"]
         /\ IF walk[t].ret = "ok" /\ ~(kind = "bulk" /\ action = "error")
            THEN action' = "cancelled" ELSE action' = action
         /\ cancelled => cancelled'
         /\ cancelled' => cancelled \/ (walk[t].why = "cancel" /\ walk[t].ret = "ok")
         /\ walk[t].why = "cancel" /\ walk[t].ret = "ok" => cancelled'
  BY <1>1, WalkedMoves, Zenon
<1>4. has
  BY <1>1, <1>2 DEF PhaseInv, Threads
<1>5. \A u \in Threads : pc[u] = "discard" => u = t
  BY <1>1, <1>2, OneWalks
<1>6. \A u \in Threads : u # t => pc'[u] = pc[u]
  BY <1>1, <1>3
<1>7. pc'[t] \in {"idle", "poll", "mark"} /\ (pc'[t] = "mark" => walk[t].why = "timeout")
  BY <1>1, <1>3
<1>8. /\ \A u \in Threads : pc'[u] # "discard"
      /\ pc'["app"] \notin {"list", "submit"} /\ pc'["event"] # "why"
  <2>1. pc["app"] \notin {"list", "submit"} \/ t = "app"
    <3>1. t = "event" => pc["app"] # "submit"
      BY <1>1, <1>2, OneWalks DEF Threads
    <3>2. t = "event" => pc["app"] # "list"
      BY <1>1, <1>2 DEF PhaseInv
    <3> QED
      BY <3>1, <3>2 DEF Threads
  <2>2. pc["event"] # "why"
    BY <1>1, <1>4 DEF PhaseInv
  <2>3. \A u \in Threads : pc'[u] # "discard"
    BY <1>5, <1>6, <1>7
  <2> QED
    BY <1>6, <1>7, <2>1, <2>2, <2>3 DEF Threads
<1>9. \A u \in Threads : pc'[u] \in {"expire", "mark"} => timed
  <2> SUFFICES ASSUME NEW u \in Threads, pc'[u] \in {"expire", "mark"} PROVE timed
    OBVIOUS
  <2>1. CASE u # t
    BY <1>6, <2>1 DEF CancelInv, TimedInv, OnceInv, CauseInv, AloneInv
  <2>2. CASE u = t
    BY <1>2, <1>7, <2>2 DEF CancelInv, TimedInv, OnceInv, CauseInv, AloneInv
  <2> QED
    BY <2>1, <2>2
<1>10. num # 0 /\ (timedout => timed)
  BY <1>4 DEF CancelInv, TimedInv, OnceInv, CauseInv, AloneInv
<1>11. CASE walk[t].why \in {"submit", "rest"}
  <2>1. UNCHANGED <<action, cancelling, cancelled>>
    BY <1>3, <1>11
  <2>2. Expiring' => Expiring
    BY <1>2, <1>6, <1>7, <1>11 DEF Expiring
  <2>3. Expiring => Expiring'
    BY <1>2, <1>6 DEF Expiring
  <2>4. /\ cancelled \/ Expiring' => cancelling
        /\ timedout => cancelling
        /\ cancelled => ~Expiring'
        /\ cancelled => ~timedout
        /\ cancelled => action = "cancelled"
    BY <1>4, <2>2 DEF CancelInv, TimedInv, OnceInv, CauseInv, AloneInv
  <2>5. action = "cancelled" => cancelled \/ timedout \/ Expiring'
    BY <1>4, <2>3 DEF CancelInv, TimedInv, OnceInv, CauseInv, AloneInv
  <2>6. kind = "control" /\ urbs[1].status = "cancelled" => action = "cancelled"
    <3>1. \A u \in Threads : pc[u] = "discard" => walk[u].why \notin {"cancel", "timeout"}
      BY <1>5, <1>11
    <3> QED
      BY <1>4, <3>1 DEF CancelInv, TimedInv, OnceInv, CauseInv, AloneInv
  <2> QED
    BY <1>2, <1>4, <1>8, <1>9, <1>10, <2>1, <2>4, <2>5, <2>6 DEF CancelInv, TimedInv,
       OnceInv, CauseInv, AloneInv
<1>12. CASE walk[t].why \in {"cancel", "timeout"}
  <2>1. /\ cancelling' /\ told' = told
        /\ pc' = [pc EXCEPT ![t] = IF walk[t].why = "timeout" THEN "mark" ELSE "idle"]
        /\ IF walk[t].ret = "ok" /\ ~(kind = "bulk" /\ action = "error")
           THEN action' = "cancelled" ELSE action' = action
        /\ cancelled' => cancelled \/ (walk[t].why = "cancel" /\ walk[t].ret = "ok")
        /\ walk[t].why = "cancel" /\ walk[t].ret = "ok" => cancelled'
    BY <1>3, <1>12
  <2>2. ~cancelling
    BY <1>2, <1>12 DEF CancelInv, TimedInv, OnceInv, CauseInv, AloneInv
  <2>3. ~cancelled /\ ~Expiring /\ ~timedout /\ action # "cancelled"
    BY <1>4, <2>2 DEF CancelInv, TimedInv, OnceInv, CauseInv, AloneInv
  <2>4. walk[t].k # num
    <3>1. walk[t].lo = 1 /\ walk[t].k \in 0..num
      BY <1>1, <1>2, <1>12 DEF WalkMode, OrderInv, WalkInv
    <3> DEFINE k == walk[t].k
    <3>2. k \in 0..num /\ ~(k >= 1)
      BY <1>2, <3>1
    <3> HIDE DEF k
    <3>3. k # num
      BY <1>1, <1>10, <3>2
    <3> QED
      BY <3>3 DEF k
  <2>5. action = "error" => walk[t].ret # "ok"
    BY <1>1, <1>2, <1>12, <2>4 DEF WalkMode
  <2>6. /\ walk[t].ret = "ok" => action' = "cancelled"
        /\ walk[t].ret # "ok" => action' # "cancelled"
    BY <2>1, <2>3, <2>5
  <2>7. Expiring' => walk[t].ret = "ok" /\ walk[t].why = "timeout"
    BY <1>2, <1>6, <1>7, <2>3 DEF Expiring
  <2>8. walk[t].ret = "ok" /\ walk[t].why = "timeout" => Expiring'
    <3>1. walk[t].why = "timeout" => pc'[t] = "mark"
      BY <1>1, <2>1
    <3> QED
      BY <1>2, <3>1 DEF Expiring
  <2>9. cancelled' => walk[t].why = "cancel" /\ walk[t].ret = "ok"
    BY <2>1, <2>3
  <2>10. cancelled' => ~Expiring'
    BY <2>7, <2>9
  <2>11. action' = "cancelled" => cancelled' \/ Expiring'
    BY <1>12, <2>1, <2>6, <2>8
  <2>12. cancelled' => action' = "cancelled"
    BY <2>6, <2>9
  <2>13. kind = "control" /\ urbs[1].status = "cancelled" => action' = "cancelled"
    <3> SUFFICES ASSUME kind = "control", urbs[1].status = "cancelled" PROVE action' = "cancelled"
      OBVIOUS
    <3>1. PICK u \in Threads : pc[u] = "discard" /\ walk[u].ret = "ok"
      BY <1>4, <2>3 DEF CancelInv, TimedInv, OnceInv, CauseInv, AloneInv
    <3> QED
      BY <1>5, <2>6, <3>1
  <2> QED
    BY <1>2, <1>8, <1>9, <1>10, <2>1, <2>3, <2>10, <2>11, <2>12, <2>13 DEF CancelInv,
       TimedInv, OnceInv, CauseInv, AloneInv
<1> QED
  BY <1>3, <1>11, <1>12

LEMMA MarkCancel ==
  ASSUME Base, CancelInv, NEW t \in Threads, Mark(t)
  PROVE  CancelInv'
<1> USE DEF At, Go
<1>1. /\ PlacesInv /\ PhaseInv /\ LockInv /\ PlainInv /\ pc \in [Threads -> AppPlaces \cup EventPlaces]
  BY BaseIs
<1>2. /\ pc[t] = "mark" /\ pc' = [pc EXCEPT ![t] = Rest(t)]
      /\ UNCHANGED <<kind, timed, has, num, action, urbs, result, told, cancelled, cancelling, walk>>
  BY DEF Mark, job, priv, kernel, ghosts
<1>3. /\ timedout => timedout'
      /\ timedout' => timedout \/ walk[t].ret = "ok"
      /\ walk[t].ret = "ok" => timedout'
  BY DEF Mark, Cancelled
<1>4. /\ \A u \in Threads : u # t => pc'[u] = pc[u]
      /\ pc'[t] \in {"idle", "poll"}
  BY <1>1, <1>2 DEF Rest
<1>5. walk[t].ret = "ok" => Expiring
  BY <1>2 DEF Expiring
<1>6. Expiring' => Expiring
  BY <1>2, <1>4 DEF Expiring
<1>7. Expiring => Expiring' \/ timedout'
  <2> SUFFICES ASSUME NEW u \in Threads, pc[u] = "mark", walk[u].ret = "ok"
               PROVE  Expiring' \/ timedout'
    BY DEF Expiring
  <2>1. CASE u = t
    BY <1>3, <2>1
  <2>2. CASE u # t
    BY <1>2, <1>4, <2>2 DEF Expiring
  <2> QED
    BY <2>1, <2>2
<1>8. \A u \in Threads :
        /\ pc'[u] \in {"expire", "mark"} => timed
        /\ pc'[u] = "discard" /\ walk'[u].why = "timeout" => timed
        /\ pc'[u] = "discard" /\ walk'[u].why \in {"cancel", "timeout"} => ~cancelling
  BY <1>2, <1>4 DEF CancelInv, TimedInv, OnceInv, CauseInv, AloneInv
<1>9. timed
  BY <1>2 DEF CancelInv, TimedInv, OnceInv, CauseInv, AloneInv
<1>10. /\ has => num # 0
       /\ pc'["app"] \in {"list", "submit"} => ~cancelled
       /\ cancelled \/ Expiring' => cancelling
       /\ cancelled => ~Expiring'
       /\ has /\ cancelled => action = "cancelled"
       /\ pc'["event"] = "why" => action = "cancelled" /\ result = "cancelled"
  BY <1>4, <1>6 DEF CancelInv, TimedInv, OnceInv, CauseInv, AloneInv, Threads
<1>11. timedout' /\ (has \/ told = "pending") => cancelling
  BY <1>3, <1>5 DEF CancelInv, TimedInv, OnceInv, CauseInv, AloneInv
<1>12. cancelled /\ (has \/ told = "pending") => ~timedout'
  BY <1>3, <1>5 DEF CancelInv, TimedInv, OnceInv, CauseInv, AloneInv
<1>13. (has \/ pc'["event"] = "why") /\ action = "cancelled" => cancelled \/ timedout' \/ Expiring'
  BY <1>3, <1>4, <1>7 DEF CancelInv, TimedInv, OnceInv, CauseInv, AloneInv, Threads
<1>14. has /\ kind = "control" /\ urbs[1].status = "cancelled" =>
         \/ action = "cancelled"
         \/ \E u \in Threads : /\ pc'[u] = "discard" /\ walk'[u].why \in {"cancel", "timeout"}
                               /\ walk'[u].ret = "ok" /\ walk'[u].k = 0
  BY <1>2, <1>4 DEF CancelInv, TimedInv, OnceInv, CauseInv, AloneInv
<1> QED
  BY <1>2, <1>8, <1>9, <1>10, <1>11, <1>12, <1>13, <1>14 DEF CancelInv, TimedInv,
     OnceInv, CauseInv, AloneInv

\* A URB of a control transfer that is taken back is so by who cancels it.
LEMMA DiscardCancel ==
  ASSUME Base, ModeInv, CancelInv, NEW t \in Threads, DiscardUrb(t)
  PROVE  CancelInv'
<1>1. /\ Types /\ PlacesInv /\ LockInv /\ PhaseInv /\ DoneInv /\ JobInv /\ OrderInv /\ num \in Nat
      /\ urbs \in [1..num -> Urbs] /\ FateInv /\ KindMode /\ WalkMode /\ sent \in Nat
  BY BaseIs DEF UrbFateInv, ModeInv
<1>2. /\ pc[t] = "discard" /\ walk[t].k >= walk[t].lo
      /\ walk'[t].k = walk[t].k - 1 /\ walk'[t].why = walk[t].why
      /\ alive /\ urbs[walk[t].k].st = "queued" => walk'[t].ret = walk[t].ret
      /\ \A u \in Threads : u # t => walk'[u] = walk[u]
      /\ UNCHANGED <<kind, timed, has, num, action, reapStatus, pc, result, told, cancelled,
                     cancelling, timedout, alive>>
  BY <1>1, DiscardWalks
<1>3. /\ walk[t].k \in 1..num
      /\ \/ UNCHANGED <<urbs, done, sent>>
         \/ \E n \in Nat : Returns(walk[t].k, "cancelled", n, walk[t].k)
  BY <1>1, DiscardReturns
<1>4. \A u \in Threads : pc[u] = "discard" => u = t
  BY <1>1, <1>2, OneWalks
<1>5. (Expiring' => Expiring) /\ (Expiring => Expiring')
  <2>1. \A u \in Threads : pc[u] = "mark" => walk'[u] = walk[u]
    BY <1>2
  <2> QED
    BY <1>2, <2>1 DEF Expiring
<1>6. \A u \in Threads :
        /\ pc'[u] \in {"expire", "mark"} => timed
        /\ pc'[u] = "discard" /\ walk'[u].why = "timeout" => timed
        /\ pc'[u] = "discard" /\ walk'[u].why \in {"cancel", "timeout"} => ~cancelling
  <2>1. \A u \in Threads : walk'[u].why = walk[u].why
    BY <1>2
  <2> QED
    BY <1>2, <2>1 DEF CancelInv, TimedInv
<1>7. TimedInv'
  BY <1>2, <1>6 DEF CancelInv, TimedInv
<1>8. OnceInv' /\ CauseInv'
  BY <1>2, <1>5 DEF CancelInv, OnceInv, CauseInv
<1>9. has /\ kind = "control" /\ urbs'[1].status = "cancelled" =>
        \/ action = "cancelled"
        \/ \E u \in Threads : /\ pc'[u] = "discard" /\ walk'[u].why \in {"cancel", "timeout"}
                              /\ walk'[u].ret = "ok" /\ walk'[u].k = 0
  <2> SUFFICES ASSUME has, kind = "control", urbs'[1].status = "cancelled", action # "cancelled"
               PROVE  /\ walk[t].why \in {"cancel", "timeout"} /\ walk'[t].ret = "ok"
                      /\ walk'[t].k = 0
    BY <1>2
  <2>1. num # 0
    BY DEF CancelInv, AloneInv
  <2>2. num = 1
    BY <1>1, <2>1, OneForControl
  <2>3. walk[t].k = 1
    BY <1>3, <2>2
  <2>4. action = "normal" /\ reapStatus = "completed"
    BY <1>1 DEF KindMode
  <2>5. walk[t].why \in {"cancel", "timeout"}
    <3>1. walk[t].why # "submit" /\ walk[t].why # "rest"
      BY <1>1, <1>2, <2>4 DEF WalkMode
    <3> QED
      BY <1>1, <1>2, <3>1 DEF PlacesInv, Threads
  <2>6. walk[t].ret = "ok"
    BY <1>1, <1>2, <2>2, <2>3, <2>5 DEF WalkMode
  <2>7. urbs[1].status # "cancelled"
    <3> SUFFICES ASSUME urbs[1].status = "cancelled" PROVE FALSE
      OBVIOUS
    <3>1. PICK u \in Threads : pc[u] = "discard" /\ walk[u].k = 0
      BY DEF CancelInv, AloneInv
    <3>2. u = t
      BY <1>4, <3>1
    <3> QED
      BY <2>3, <3>1, <3>2
  <2>8. PICK n \in Nat : Returns(1, "cancelled", n, 1)
    BY <1>3, <2>3, <2>7
  <2>9. urbs[1].st = "queued"
    BY <2>8 DEF Returns, Queued
  <2>10. alive
    <3>1. walk'[t].ret = walk[t].ret \/ ~alive
      BY <1>2, <2>3, <2>9
    <3> SUFFICES ASSUME ~alive PROVE FALSE
      OBVIOUS
    <3>2. UNCHANGED urbs
      BY DEF DiscardUrb
    <3> QED
      BY <2>7, <3>2
  <2>11. walk'[t].ret = "ok"
    BY <1>2, <2>3, <2>6, <2>9, <2>10
  <2> QED
    BY <1>2, <2>3, <2>5, <2>11
<1>10. AloneInv'
  BY <1>2, <1>9 DEF CancelInv, AloneInv
<1> QED
  BY <1>7, <1>8, <1>10 DEF CancelInv

\* What a URB leads to when it is handled, as far as cancelling goes.
LEMMA HandleOutcome ==
  ASSUME Base, ModeInv, CancelInv, HandleSteps
  PROVE  /\ UNCHANGED <<kind, num, timed, cancelling, timedout, cancelled, told, urbs>>
         /\ has /\ told = "pending" /\ xlock = "free" /\ pc["event"] = "handle"
         /\ action' = action \/ (action = "normal" /\ action' # "cancelled" /\ kind # "control")
         /\ pc'["event"] = "why" => action' = "cancelled" /\ result' = "cancelled"
         /\ pc'["event"] = "finish" =>
              action # "cancelled" /\ result' \notin {"cancelled", "timed out"}
<1> USE DEF At, Go
<1>1. /\ Types /\ PlacesInv /\ LockInv /\ PhaseInv /\ DoneInv /\ JobInv /\ num \in Nat
      /\ urbs \in [1..num -> Urbs] /\ KindMode /\ pc \in [Threads -> AppPlaces \cup EventPlaces]
  BY BaseIs DEF ModeInv
<1>2. /\ UNCHANGED <<flags, told, urbs, job, num>> /\ pc["event"] = "handle" /\ xlock = "free"
      /\ has /\ told = "pending"
  BY <1>1, HandleMoves DEF HandleSteps
<1>3. cancelled' = cancelled
  BY DEF HandleSteps, HandleAbnormal, HandleBulk, HandleIso, HandleControl,
     HandledUnchanged, ghosts
<1>4. UNCHANGED <<kind, num, timed, cancelling, timedout, cancelled, told, urbs>>
  BY <1>2, <1>3 DEF flags, job
<1>5. cur \in 1..num
  BY <1>1, <1>2 DEF DoneInv
<1>6. ASSUME NEW s, s # "timed out", Over(s) PROVE
        /\ pc'["event"] = "why" => s = "cancelled" /\ result' = "cancelled"
        /\ pc'["event"] = "finish" => s # "cancelled" /\ result' \notin {"cancelled", "timed out"}
  BY <1>1, <1>6 DEF Over, Threads
<1>7. Wait \/ DiscardRest => pc'["event"] \notin {"why", "finish"}
  BY <1>1 DEF Wait, DiscardRest, Threads
<1>8. CASE HandleAbnormal
  <2>1. /\ action' = action
        /\ reapStatus' = reapStatus \/ reapStatus' = "error"
        /\ Over(IF action = "cancelled" THEN "cancelled" ELSE reapStatus') \/ Wait
    BY <1>8 DEF HandleAbnormal
  <2>2. reapStatus' \notin {"cancelled", "timed out"}
    BY <1>1, <2>1 DEF KindMode
  <2> DEFINE s == IF action = "cancelled" THEN "cancelled" ELSE reapStatus'
  <2>3. /\ s # "timed out" /\ (s = "cancelled" => action = "cancelled")
        /\ (action = "cancelled" => s = "cancelled") /\ (Over(s) \/ Wait)
    BY <2>1, <2>2
  <2> HIDE DEF s
  <2> QED
    BY <1>2, <1>4, <1>6, <1>7, <2>1, <2>3
<1>9. CASE HandleBulk
  <2>1. /\ action = "normal" /\ kind # "control"
        /\ action' = IF Faults = "error" THEN "error"
                     ELSE IF Faults = "completed" /\ ~All /\ Short(urbs[cur]) THEN "early"
                     ELSE action
        /\ reapStatus' = IF Faults = "no device" \/ reapStatus = "completed"
                         THEN Faults ELSE reapStatus
        /\ Over(reapStatus') \/ DiscardRest \/ Wait
    BY <1>9, BulkIs
  <2>2. reapStatus' \notin {"cancelled", "timed out"}
    BY <1>1, <2>1, FaultIs DEF KindMode
  <2>3. action' # "cancelled"
    BY <2>1
  <2> QED
    BY <1>2, <1>4, <1>6, <1>7, <2>1, <2>2, <2>3
<1>10. CASE HandleIso
  <2>1. /\ action' = action
        /\ \/ Wait
           \/ Over(IF action = "cancelled" THEN "cancelled"
                   ELSE IF action = "submit_failed" THEN "error"
                   ELSE CASE urbs[cur].status \in {"ok", "cancelled"} -> "completed"
                          [] urbs[cur].status = "gone" -> "no device"
                          [] OTHER -> "error")
    BY <1>10 DEF HandleIso
  <2> DEFINE s == IF action = "cancelled" THEN "cancelled"
                  ELSE IF action = "submit_failed" THEN "error"
                  ELSE CASE urbs[cur].status \in {"ok", "cancelled"} -> "completed"
                         [] urbs[cur].status = "gone" -> "no device"
                         [] OTHER -> "error"
  <2>2. /\ s # "timed out" /\ (s = "cancelled" => action = "cancelled")
        /\ (action = "cancelled" => s = "cancelled") /\ (Over(s) \/ Wait)
    BY <2>1
  <2> HIDE DEF s
  <2> QED
    BY <1>2, <1>4, <1>6, <1>7, <2>1, <2>2
<1>11. CASE HandleControl
  <2> DEFINE s == IF action = "cancelled" THEN "cancelled"
                  ELSE CASE urbs[cur].status \in {"ok", "short"} -> "completed"
                         [] urbs[cur].status = "gone" -> "no device"
                         [] urbs[cur].status = "bus" -> "error"
                         [] OTHER -> urbs[cur].status
  <2>1. action' = action /\ kind = "control" /\ Over(s)
    BY <1>11 DEF HandleControl
  <2>2. urbs[cur].status = "cancelled" => action = "cancelled"
    <3>1. num # 0
      BY <1>1, <1>5
    <3>2. num = 1
      BY <1>1, <2>1, <3>1, OneForControl
    <3>3. cur = 1
      BY <1>5, <3>2
    <3>4. \A t \in Threads : pc[t] # "discard"
      BY <1>1, <1>2, OneWalks
    <3> QED
      BY <1>2, <2>1, <3>3, <3>4 DEF CancelInv, AloneInv
  <2>3. urbs[cur].status # "timed out"
    BY <1>1, <1>5 DEF Urbs, Statuses
  <2>4. /\ s # "timed out" /\ (s = "cancelled" => action = "cancelled")
        /\ (action = "cancelled" => s = "cancelled")
    BY <2>2, <2>3
  <2> HIDE DEF s
  <2> QED
    BY <1>2, <1>4, <1>6, <2>1, <2>4
<1> QED
  BY <1>8, <1>9, <1>10, <1>11 DEF HandleSteps

\* A thread goes, or stays, where nothing is being cancelled.
LEMMA MoveCancel ==
  ASSUME CancelInv, pc \in [Threads -> AppPlaces \cup EventPlaces],
         UNCHANGED <<kind, num, timed, cancelling, timedout, cancelled, action, walk>>,
         has' => has,
         told' = told \/ has \/ told' # "pending",
         kind = "control" /\ has' /\ urbs'[1].status = "cancelled" => urbs[1].status = "cancelled",
         NEW t \in Threads, NEW p, pc' = [pc EXCEPT ![t] = p],
         \/ p = pc[t]
         \/ /\ pc[t] \notin {"mark", "discard"}
            /\ p \in {"idle", "poll", "handle", "unlist", "finish", "settle", "call", "clear"},
         result' = result \/ (t = "event" /\ p # "why")
  PROVE  CancelInv'
<1>1. \A u \in Threads :
        /\ pc'[u] = "expire" => pc[u] = "expire"
        /\ pc'[u] = "mark" => pc[u] = "mark"
        /\ pc[u] = "mark" => pc'[u] = "mark"
        /\ pc'[u] = "discard" => pc[u] = "discard"
        /\ pc[u] = "discard" => pc'[u] = "discard"
  OBVIOUS
<1>2. pc'["app"] \in {"list", "submit"} => pc["app"] \in {"list", "submit"}
  BY DEF Threads
<1>3. pc'["event"] = "why" => pc["event"] = "why" /\ result' = result
  BY DEF Threads
<1> QED
  BY <1>1, <1>2, <1>3, CancelKeeps

\* Steps that are not about ending the transfer.
LEMMA PlainCancel ==
  ASSUME Base, CancelInv,
         \/ UNCHANGED vars \/ Unlist \/ SubmitUrb \/ SubmitRefused \/ Unplug \/ Reap
         \/ Remove \/ Settle \/ Call \/ Hangup \/ FindLost \/ ClearLost
  PROVE  CancelInv'
<1> USE DEF At, Go
<1>1. /\ PlacesInv /\ PhaseInv /\ DoneInv /\ pc \in [Threads -> AppPlaces \cup EventPlaces]
      /\ Ground /\ UrbInv
  BY BaseIs
<1>2. /\ UNCHANGED <<kind, num, timed, cancelling, timedout, cancelled, action>>
      /\ has' => has
  <2>1. CASE UNCHANGED vars \/ Unlist \/ SubmitRefused \/ Unplug \/ Reap
    BY <2>1 DEF vars, Unlist, SubmitRefused, Unplug, Reap, job, priv, flags, ghosts
  <2>2. CASE SubmitUrb
    <3>1. UNCHANGED <<job, priv, cancelling, timedout, cancelled>>
      BY <2>2 DEF SubmitUrb, Accept, priv, ghosts
    <3> QED
      BY <3>1 DEF job, priv
  <2>3. CASE Remove \/ Settle \/ Call
    BY <2>3 DEF Remove, Settle, Call, job, priv, flags, ghosts
  <2>4. CASE Hangup \/ FindLost
    BY <2>4 DEF Hangup, FindLost, job, priv, flags, ghosts
  <2>5. CASE ClearLost
    BY <2>5 DEF ClearLost, job, flags, ghosts
  <2> QED
    BY <2>1, <2>2, <2>3, <2>4, <2>5
<1>3. CASE \/ UNCHANGED vars \/ Unlist \/ SubmitRefused \/ Unplug
           \/ Remove \/ Settle \/ Hangup \/ FindLost \/ ClearLost
  <2>1. UNCHANGED <<walk, urbs, told>>
    BY <1>3 DEF vars, Unlist, SubmitRefused, Unplug, Remove, Settle, Hangup, FindLost,
       ClearLost,
                kernel, threads, ghosts
  <2>2. CASE UNCHANGED vars \/ Unplug \/ Hangup
    <3>1. pc' = pc /\ result' = result
      BY <2>2 DEF vars, Unplug, Hangup, threads
    <3>2. pc' = [pc EXCEPT !["app"] = pc["app"]] /\ "app" \in Threads
      BY <1>1, <3>1 DEF Threads
    <3> QED
      BY <1>1, <1>2, <2>1, <3>1, <3>2, MoveCancel
  <2>3. CASE Unlist
    BY <1>1, <1>2, <2>1, <2>3, MoveCancel DEF Unlist, Threads
  <2>4. CASE SubmitRefused
    BY <1>1, <1>2, <2>1, <2>4, MoveCancel DEF SubmitRefused, Threads
  <2>5. CASE Remove \/ Settle \/ ClearLost
    <3>1. \E p \in {"finish", "settle", "call"} :
            pc' = [pc EXCEPT !["event"] = p] /\ pc["event"] \notin {"mark", "discard"}
      BY <2>5 DEF Remove, Settle, ClearLost
    <3> QED
      BY <1>1, <1>2, <2>1, <3>1, MoveCancel DEF Threads
  <2>6. CASE FindLost
    <3>1. CASE pc' = pc
      <4>1. pc' = [pc EXCEPT !["app"] = pc["app"]] /\ "app" \in Threads /\ result' = result
        BY <1>1, <2>6, <3>1 DEF Threads, FindLost
      <4> QED
        BY <1>1, <1>2, <2>1, <4>1, MoveCancel
    <3>2. CASE pc' = [pc EXCEPT !["event"] = "clear"]
      BY <1>1, <1>2, <2>1, <2>6, <3>2, MoveCancel DEF FindLost, Threads
    <3> QED
      BY <2>6, <3>1, <3>2 DEF FindLost
  <2> QED
    BY <1>3, <2>2, <2>3, <2>4, <2>5, <2>6
<1>4. CASE SubmitUrb
  <2>1. has /\ Submitting \in 1..num
    BY <1>1, <1>4, SubmittingIs DEF SubmitUrb
  <2>2. urbs'[1].status = urbs[1].status
    BY <1>1, <1>4, <2>1 DEF SubmitUrb, DoneInv, Urbs
  <2>3. pc["app"] = "submit" /\ result' = result
    BY <1>4 DEF SubmitUrb
  <2>4. \A t \in Threads : pc'[t] # pc[t] => t = "app" /\ pc'[t] = "idle"
    BY <1>1, <1>4 DEF SubmitUrb
  <2>5. \A t \in Threads : pc[t] \in {"mark", "discard"} => walk'[t] = walk[t]
    BY <1>1, <1>4 DEF SubmitUrb, PlacesInv
  <2> QED
    BY <1>2, <2>1, <2>2, <2>3, <2>4, <2>5, CancelKeeps DEF Threads
<1>5. CASE Reap
  <2>1. /\ urbs'[1].status = urbs[1].status \/ num = 0
        /\ walk' = walk /\ told' = told /\ result' = result
        /\ pc["event"] = "poll" /\ pc' = [pc EXCEPT !["event"] = "handle"]
    <3>1. \A j \in 1..num : urbs'[j].status = urbs[j].status
      BY <1>1, <1>5, ReapMoves
    <3>2. num \in Nat
      BY BaseIs
    <3> QED
      BY <1>5, <3>1, <3>2 DEF Reap, ghosts
  <2>2. has => num # 0
    BY DEF CancelInv, AloneInv
  <2> QED
    BY <1>1, <1>2, <2>1, <2>2, MoveCancel DEF Threads
<1>6. CASE Call
  <2>1. UNCHANGED <<walk, urbs>> /\ pc["event"] = "call" /\ pc' = [pc EXCEPT !["event"] = "poll"]
    BY <1>6 DEF Call, kernel
  <2>2. told' # "pending"
    BY <1>1, <1>6, <2>1 DEF Call, PhaseInv, Results
  <2> QED
    BY <1>1, <1>2, <2>1, <2>2, MoveCancel DEF Threads
<1> QED
  BY <1>3, <1>4, <1>5, <1>6

LEMMA WhyCancel ==
  ASSUME Base, CancelInv, Why
  PROVE  CancelInv'
<1>1. /\ PlacesInv /\ PhaseInv /\ pc \in [Threads -> AppPlaces \cup EventPlaces]
  BY BaseIs
<1>2. /\ UNCHANGED <<kind, num, timed, cancelling, timedout, cancelled, action, walk, has, told, urbs>>
      /\ pc["event"] = "why" /\ pc' = [pc EXCEPT !["event"] = "finish"]
  BY DEF Why, job, priv, flags, kernel, ghosts, At, Go
<1> QED
  BY <1>1, <1>2, MoveCancel DEF Threads

\* A submission that stops half-way.
LEMMA StopsCancel ==
  ASSUME Base, CancelInv, SubmitStops \/ SubmitEndsEarly
  PROVE  CancelInv'
<1> USE DEF At, Go
<1>1. /\ PlacesInv /\ JobInv /\ Ground /\ UrbInv /\ KeptInv
      /\ pc \in [Threads -> AppPlaces \cup EventPlaces] /\ walk \in [Threads -> Walks]
      /\ pc["app"] = "submit"
  BY BaseIs DEF SubmitStops, SubmitEndsEarly, UrbFateInv
<1>2. has /\ Submitting \in 1..num /\ Submitting > 1 /\ num \in Nat
  BY <1>1, SubmittingIs DEF SubmitStops, SubmitEndsEarly
<1>3. kind # "control"
  <2> SUFFICES ASSUME kind = "control" PROVE FALSE
    OBVIOUS
  <2>1. num = 1
    BY <1>1, <1>2, OneForControl
  <2> QED
    BY <1>2, <2>1
<1>4. ~cancelled
  BY <1>1 DEF CancelInv, OnceInv
<1>5. /\ UNCHANGED <<kind, num, timed, cancelling, timedout, cancelled, has, urbs, result>>
      /\ action' # "cancelled"
      /\ \A t \in Threads : t # "app" => walk'[t] = walk[t] /\ pc'[t] = pc[t]
  BY <1>1 DEF SubmitStops, SubmitEndsEarly, Accept, job, flags, kernel, ghosts
<1>6. \/ pc'["app"] = "idle"
      \/ pc'["app"] = "discard" /\ walk'["app"].why = "submit"
  BY <1>1 DEF SubmitStops, SubmitEndsEarly, Threads
<1>7. \A t \in Threads :
           /\ pc'[t] = "expire" => pc[t] = "expire"
           /\ pc'[t] = "mark" => pc[t] = "mark" /\ walk'[t] = walk[t]
           /\ pc[t] = "mark" => pc'[t] = "mark" /\ walk'[t] = walk[t]
           /\ pc'[t] = "discard" => pc[t] = "discard" \/ walk'[t].why \in {"rest", "submit"}
           /\ pc'[t] = "discard" /\ pc[t] = "discard" => walk'[t] = walk[t]
           /\ pc[t] = "discard" => pc'[t] = "discard" /\ walk'[t] = walk[t]
  BY <1>1, <1>5, <1>6
<1>8. pc'["event"] = pc["event"] /\ pc'["app"] \notin {"list", "submit"}
  BY <1>5, <1>6 DEF Threads
<1>9. pc["event"] # "why"
  BY <1>1, <1>2, BaseIs DEF PhaseInv
<1> QED
  BY <1>2, <1>3, <1>4, <1>5, <1>7, <1>8, <1>9, CancelKeeps

\* The kernel takes no URB of a control transfer back by itself.
LEMMA KernelCancel ==
  ASSUME Base, CancelInv, UrbDone \/ UrbShort \/ UrbFails \/ UrbOverflows \/ Shutdown
  PROVE  CancelInv'
<1>1. /\ PlacesInv /\ JobInv /\ DoneInv /\ OrderInv /\ num \in Nat /\ sent \in Nat
      /\ pc \in [Threads -> AppPlaces \cup EventPlaces]
  BY BaseIs
<1>2. UNCHANGED <<kind, num, timed, cancelling, timedout, cancelled, action, walk, has, told, pc, result>>
  BY DEF UrbDone, UrbShort, UrbFails, UrbOverflows, Shutdown, Finish, job, priv, flags,
     threads, ghosts
<1>3. PICK i \in 1..num, last \in 1..num, status \in Statuses, n \in Nat :
        Returns(i, status, n, last) /\ status # "cancelled"
  BY <1>1, KernelReturns
<1>4. Back(i, status, n, last)
  BY <1>1, <1>3, ReturnsIs
<1>5. num # 0 => urbs'[1].status # "cancelled" \/ urbs'[1] = urbs[1]
  <2>1. CASE 1 \in i..last
    <3>1. 1 = i \/ 1 \in (i + 1)..last
      BY <1>3, <2>1
    <3> QED
      BY <1>3, <1>4, <3>1 DEF Back
  <2>2. CASE 1 \notin i..last
    <3>1. \A j \in 1..num : j \notin i..last => urbs'[j] = urbs[j]
      BY <1>4 DEF Back
    <3>2. num # 0 => 1 \in 1..num
      BY <1>1
    <3> QED
      BY <2>2, <3>1, <3>2
  <2> QED
    BY <2>1, <2>2
<1>6. pc' = [pc EXCEPT !["app"] = pc["app"]] /\ "app" \in Threads
  BY <1>1, <1>2 DEF Threads
<1>7. has => num # 0
  BY DEF CancelInv, AloneInv
<1> QED
  BY <1>1, <1>2, <1>5, <1>6, <1>7, MoveCancel

LEMMA TimerCancel ==
  ASSUME Base, CancelInv, NEW t \in Threads, TimerFires(t)
  PROVE  CancelInv'
<1>1. /\ PlacesInv /\ LockInv /\ pc \in [Threads -> AppPlaces \cup EventPlaces]
  BY BaseIs
<1>2. /\ UNCHANGED <<kind, num, timed, cancelling, timedout, cancelled, action, walk, has, told,
                     urbs, result>>
      /\ timed /\ flock = "free" /\ pc[t] \in {"idle", "poll"} /\ pc' = [pc EXCEPT ![t] = "expire"]
  BY DEF TimerFires, Rest, At, Go, job, priv, kernel, ghosts
<1>3. \A u \in Threads :
        /\ pc'[u] = "mark" => pc[u] = "mark"
        /\ pc'[u] = "discard" => pc[u] = "discard"
        /\ pc[u] = "discard" => pc'[u] = "discard"
        /\ pc'[u] = "why" => pc[u] = "why"
        /\ pc'[u] \in {"list", "submit"} => pc[u] \in {"list", "submit"}
  BY <1>1, <1>2
<1>4. ~Expiring
  BY <1>1, <1>2, NoneExpires
<1>5. ~Expiring'
  BY <1>2, <1>3, <1>4 DEF Expiring
<1>6. TimedInv'
  <2>1. \A u \in Threads :
          /\ pc'[u] = "discard" /\ walk'[u].why = "timeout" => timed
          /\ pc'[u] = "discard" /\ walk'[u].why \in {"cancel", "timeout"} => ~cancelling
    BY <1>2, <1>3 DEF CancelInv, TimedInv
  <2> QED
    BY <1>2, <2>1 DEF TimedInv
<1>7. pc'["app"] \in {"list", "submit"} => pc["app"] \in {"list", "submit"}
  BY <1>3 DEF Threads
<1>8. pc'["event"] = "why" => pc["event"] = "why"
  BY <1>3 DEF Threads
<1>9. OnceInv' /\ CauseInv'
  BY <1>2, <1>4, <1>5, <1>7, <1>8 DEF CancelInv, OnceInv, CauseInv
<1>10. AloneInv'
  BY <1>2, <1>3 DEF CancelInv, AloneInv
<1> QED
  BY <1>6, <1>9, <1>10 DEF CancelInv

LEMMA HandleCancel ==
  ASSUME Base, ModeInv, CancelInv, HandleSteps
  PROVE  CancelInv'
<1> USE DEF At, Go
<1>1. /\ Types /\ PlacesInv /\ LockInv /\ PhaseInv /\ DoneInv
      /\ pc \in [Threads -> AppPlaces \cup EventPlaces] /\ walk \in [Threads -> Walks]
  BY BaseIs
<1>2. /\ UNCHANGED <<kind, num, timed, cancelling, timedout, cancelled, told, urbs>>
      /\ has /\ xlock = "free" /\ pc["event"] = "handle"
      /\ action' = action \/ (action = "normal" /\ action' # "cancelled" /\ kind # "control")
      /\ pc'["event"] = "why" => action' = "cancelled" /\ result' = "cancelled"
  BY HandleOutcome
<1>3. /\ walk'["app"] = walk["app"]
      /\ \/ \E p \in {"why", "finish", "poll"} : pc' = [pc EXCEPT !["event"] = p]
         \/ /\ pc' = [pc EXCEPT !["event"] = "discard"]
            /\ walk' = [walk EXCEPT !["event"] =
                  [k |-> num, lo |-> cur + 1, hi |-> num, ret |-> "ok", why |-> "rest"]]
  BY <1>1, HandleMoves DEF HandleSteps
<1>4. has' => has
  BY <1>2
<1>5. action' # action => ~cancelled
  BY <1>2 DEF CancelInv, CauseInv
<1>6. pc'["app"] = pc["app"]
  BY <1>1, <1>3 DEF Threads
<1>7. /\ pc'["event"] \in {"why", "finish", "poll", "discard"}
      /\ pc'["event"] = "discard" => walk'["event"].why = "rest"
  <2>1. CASE \E p \in {"why", "finish", "poll"} : pc' = [pc EXCEPT !["event"] = p]
    BY <1>1, <2>1 DEF Threads
  <2>2. CASE /\ pc' = [pc EXCEPT !["event"] = "discard"]
             /\ walk' = [walk EXCEPT !["event"] =
                  [k |-> num, lo |-> cur + 1, hi |-> num, ret |-> "ok", why |-> "rest"]]
    BY <1>1, <2>2 DEF Threads
  <2> QED
    BY <1>3, <2>1, <2>2
<1>8. \A t \in Threads :
           /\ pc'[t] = "expire" => pc[t] = "expire"
           /\ pc'[t] = "mark" => pc[t] = "mark" /\ walk'[t] = walk[t]
           /\ pc[t] = "mark" => pc'[t] = "mark" /\ walk'[t] = walk[t]
           /\ pc'[t] = "discard" => pc[t] = "discard" \/ walk'[t].why \in {"rest", "submit"}
           /\ pc'[t] = "discard" /\ pc[t] = "discard" => walk'[t] = walk[t]
           /\ pc[t] = "discard" => pc'[t] = "discard" /\ walk'[t] = walk[t]
  BY <1>2, <1>3, <1>6, <1>7 DEF Threads
<1> QED
  BY <1>2, <1>4, <1>5, <1>6, <1>8, CancelKeeps

LEMMA CancelStep ==
  ASSUME Base, ModeInv, CancelInv, [Next]_vars
  PROVE  CancelInv'
<1>1. CASE Submit \/ List
  BY <1>1, SubmitCancel
<1>2. CASE \/ UNCHANGED vars \/ Unlist \/ SubmitUrb \/ SubmitRefused \/ Unplug \/ Reap
           \/ Remove \/ Settle \/ Call \/ Hangup \/ FindLost \/ ClearLost
  BY <1>2, PlainCancel
<1>3. CASE Why
  BY <1>3, WhyCancel
<1>4. CASE SubmitStops \/ SubmitEndsEarly
  BY <1>4, StopsCancel
<1>5. CASE Cancel
  BY <1>5, BeginsCancel DEF Cancel, Threads, At
<1>6. ASSUME NEW t \in Threads, Expire(t) PROVE CancelInv'
  BY <1>6, BeginsCancel DEF Expire, At
<1>7. ASSUME NEW t \in Threads, TimerFires(t) \/ Mark(t) \/ Walked(t) \/ DiscardUrb(t)
      PROVE CancelInv'
  BY <1>7, TimerCancel, MarkCancel, WalkedCancel, DiscardCancel
<1>8. CASE UrbDone \/ UrbShort \/ UrbFails \/ UrbOverflows \/ Shutdown
  BY <1>8, KernelCancel
<1>9. CASE HandleSteps
  BY <1>9, HandleCancel
<1> QED
  BY <1>1, <1>2, <1>3, <1>4, <1>5, <1>6, <1>7, <1>8, <1>9, StepIs DEF Aside

-----------------------------------------------------------------------------
(* What it is told to be. *)

\* Steps that neither cancel the transfer nor say how it ended.
LEMMA EndedKeeps ==
  ASSUME EndedInv, UNCHANGED <<timed, cancelled>>,
         told' = told \/ ~Reported',
         pc'["event"] \in {"finish", "settle", "call"} =>
           pc["event"] \in {"finish", "settle", "call"} /\ result' = result
  PROVE  EndedInv'
<1>1. CASE told' = told
  BY <1>1 DEF EndedInv, Reported
<1>2. CASE ~Reported'
  <2>1. told' \notin {"cancelled", "timed out"}
    BY <1>2 DEF Reported, Results
  <2> QED
    BY <1>2, <2>1 DEF EndedInv, Reported
<1> QED
  BY <1>1, <1>2

LEMMA EndedStep ==
  ASSUME Base, ModeInv, CancelInv, EndedInv, [Next]_vars
  PROVE  EndedInv'
<1> USE DEF At, Go
<1>1. /\ Types /\ PlacesInv /\ LockInv /\ PhaseInv /\ DoneInv /\ PlainInv
      /\ pc \in [Threads -> AppPlaces \cup EventPlaces]
  BY BaseIs
<1>2. pc["event"] \in {"finish", "settle", "call"} => told = "pending" /\ ~has
  BY <1>1 DEF PhaseInv
<1>3. CASE UNCHANGED vars \/ Unplug \/ Hangup
  BY <1>3, EndedKeeps DEF vars, Unplug, Hangup, job, threads, ghosts
<1>4. CASE Unlist \/ Remove \/ Settle \/ FindLost
  <2>1. UNCHANGED <<timed, cancelled, told, result>>
    BY <1>4 DEF Unlist, Remove, Settle, FindLost, job, ghosts
  <2>2. pc'["event"] \in {"finish", "settle", "call"} => pc["event"] \in {"finish", "settle", "call"}
    BY <1>1, <1>4 DEF Unlist, Remove, Settle, FindLost, Threads
  <2> QED
    BY <2>1, <2>2, EndedKeeps
<1>5. CASE Submit \/ List \/ SubmitUrb \/ SubmitRefused \/ SubmitStops \/ SubmitEndsEarly
  <2>1. told # "pending"
    BY <1>1, <1>5 DEF Submit, List, SubmitUrb, SubmitRefused, SubmitStops,
       SubmitEndsEarly, PhaseInv,
                      Submission
  <2>2. pc'["event"] = pc["event"] /\ told' \in {"none", "pending"}
    <3>1. CASE Submit
      BY <1>1, <3>1 DEF Submit, Threads
    <3>2. CASE List \/ SubmitUrb \/ SubmitRefused \/ SubmitStops \/ SubmitEndsEarly
      <4>1. told = "none"
        BY <1>1, <3>2 DEF List, SubmitUrb, SubmitRefused, SubmitStops,
           SubmitEndsEarly, PhaseInv,
                          Submission
      <4> QED
        BY <1>1, <3>2, <4>1 DEF List, SubmitUrb, SubmitRefused, SubmitStops, SubmitEndsEarly,
                                Accept, ghosts, Threads
    <3> QED
      BY <1>5, <3>1, <3>2
  <2> QED
    BY <1>2, <2>1, <2>2 DEF EndedInv, Reported, Results
<1>6. ASSUME NEW t \in Threads, NEW p, pc' = [pc EXCEPT ![t] = p],
             UNCHANGED <<timed, cancelled, told, result>>,
             p \notin {"finish", "settle", "call"}
      PROVE  EndedInv'
  BY <1>1, <1>6, EndedKeeps DEF Threads
<1>7. ASSUME NEW t \in Threads, NEW why \in {"cancel", "timeout"}, NEW next \in {"idle", "mark"},
             BeginCancel(t, why, next)
      PROVE  EndedInv'
  <2>1. UNCHANGED <<timed, cancelled, told, result>>
    BY <1>7 DEF BeginCancel, job, ghosts
  <2>2. pc' = [pc EXCEPT ![t] = next] \/ pc' = [pc EXCEPT ![t] = "discard"]
    BY <1>7 DEF BeginCancel
  <2> QED
    BY <1>6, <2>1, <2>2
<1>8. CASE Cancel
  BY <1>7, <1>8 DEF Cancel, Threads
<1>9. ASSUME NEW t \in Threads, Expire(t) PROVE EndedInv'
  BY <1>7, <1>9 DEF Expire
<1>10. ASSUME NEW t \in Threads, TimerFires(t) \/ Mark(t) PROVE EndedInv'
  <2>1. UNCHANGED <<timed, cancelled, told, result>>
    BY <1>10 DEF TimerFires, Mark, job, ghosts
  <2>2. \E p \in {"idle", "poll", "expire"} : pc' = [pc EXCEPT ![t] = p]
    BY <1>10 DEF TimerFires, Mark, Rest
  <2> QED
    BY <1>6, <2>1, <2>2
<1>11. ASSUME NEW t \in Threads, Walked(t) PROVE EndedInv'
  <2>1. /\ UNCHANGED <<timed, result>> /\ told' \in {told, "pending"}
        /\ \E p \in {"idle", "poll", "mark"} : pc' = [pc EXCEPT ![t] = p]
        /\ pc[t] = "discard"
    BY <1>1, <1>11, WalkedMoves
  <2>2. has /\ told \in {"none", "pending"}
    BY <1>1, <2>1 DEF PhaseInv, Submission, Threads
  <2>3. pc'["event"] \notin {"finish", "settle", "call"}
    BY <1>1, <1>2, <2>1, <2>2 DEF Threads
  <2>4. told' \in {"none", "pending"}
    BY <2>1, <2>2
  <2> QED
    BY <2>3, <2>4 DEF EndedInv, Reported, Results
<1>12. CASE \/ UrbDone \/ UrbShort \/ UrbFails \/ UrbOverflows \/ Shutdown
            \/ \E t \in Threads : DiscardUrb(t)
  BY <1>12, ReturnStep, EndedKeeps DEF job, ghosts
<1>13. CASE Reap
  BY <1>1, <1>13, EndedKeeps DEF Reap, job, ghosts, Threads
<1>14. CASE HandleSteps
  <2>1. /\ UNCHANGED <<timed, cancelled, told>>
        /\ has /\ told = "pending"
        /\ pc'["event"] = "finish" =>
             action # "cancelled" /\ result' \notin {"cancelled", "timed out"}
    BY <1>14, HandleOutcome
  <2>2. pc'["event"] \notin {"settle", "call"}
    BY <1>1, <1>14, HandleMoves DEF HandleSteps, Threads
  <2>3. cancelled => action = "cancelled"
    BY <2>1 DEF CancelInv, CauseInv
  <2> QED
    BY <2>1, <2>2, <2>3 DEF EndedInv, Reported, Results
<1>15. CASE Why
  <2>1. /\ UNCHANGED <<timed, cancelled, told>> /\ flock = "free" /\ pc["event"] = "why"
        /\ result' = IF timedout THEN "timed out" ELSE "cancelled"
    BY <1>15 DEF Why, job, ghosts
  <2>2. told = "pending" /\ ~Expiring
    BY <1>1, <2>1, NoneExpires DEF PhaseInv
  <2>3. /\ cancelled \/ timedout
        /\ cancelled => ~timedout
        /\ timedout => timed
    BY <2>1, <2>2 DEF CancelInv, CauseInv, OnceInv, TimedInv
  <2> QED
    BY <2>1, <2>2, <2>3 DEF EndedInv, Reported, Results
<1>16. CASE Call
  <2>1. /\ UNCHANGED <<timed, cancelled>> /\ pc["event"] = "call" /\ pc'["event"] = "poll"
        /\ told' = result \/ (told' = "error" /\ result = "completed")
    BY <1>1, <1>16 DEF Call, job, Threads
  <2> QED
    BY <2>1 DEF EndedInv, Reported, Results
<1>17. CASE ClearLost
  <2>1. UNCHANGED <<timed, cancelled, told>> /\ told = "pending" /\ result' = "no device"
    BY <1>1, <1>17 DEF ClearLost, PhaseInv, job, ghosts
  <2> QED
    BY <2>1 DEF EndedInv, Reported, Results
<1> QED
  BY <1>3, <1>4, <1>5, <1>8, <1>9, <1>10, <1>11, <1>12, <1>13, <1>14, <1>15, <1>16,
     <1>17, StepIs
     DEF Aside

-----------------------------------------------------------------------------
(* The two together. *)

\* What is known of places, locks and counts, and what becomes of the URBs,
\* the data and the transfer.
TrueInv ==
  /\ IInv /\ UrbFateInv /\ FlowInv /\ ModeInv /\ PacketsInv
  /\ TurnInv /\ EarlyInv /\ CompleteInv /\ CancelInv /\ EndedInv

LEMMA InitTrue == Init => TrueInv
<1> SUFFICES ASSUME Init PROVE TrueInv
  OBVIOUS
<1>1. IInv
  BY InitInv
<1> USE DEF Init
<1>2. 1..num = {} /\ Len(done) = 0 /\ 1..Len(done) = {} /\ 1..length = {}
  OBVIOUS
<1>3. UrbFateInv
  BY <1>2 DEF UrbFateInv, FateInv, KeptInv, LadenInv, AlignedInv
<1>4. NormalInv /\ EndInv
  BY DEF NormalInv, EndInv, Ending, Reported, Results
<1>5. BufInv
  <2>1. DOMAIN buf = 1..length /\ 1..transferred = {}
    BY <1>2
  <2> QED
    BY <2>1 DEF BufInv
<1>6. ModeInv
  <2>1. KindMode
    BY <1>2 DEF KindMode
  <2> QED
    BY <2>1 DEF ModeInv, WalkMode, ErrorMode, Threads
<1>7. PacketsInv
  BY <1>2 DEF PacketsInv
<1>8. TurnInv /\ EarlyInv
  BY DEF TurnInv, Serving, EarlyInv
<1>9. CompleteInv
  BY DEF CompleteInv, Ending
<1>10. CancelInv
  <2>1. ~Expiring
    BY DEF Expiring, Threads
  <2> QED
    BY <2>1 DEF CancelInv, TimedInv, OnceInv, CauseInv, AloneInv, Threads
<1>11. EndedInv
  BY DEF EndedInv, Reported, Results
<1> QED
  BY <1>1, <1>3, <1>4, <1>5, <1>6, <1>7, <1>8, <1>9, <1>10, <1>11 DEF TrueInv, FlowInv

LEMMA NextTrue == TrueInv /\ [Next]_vars => TrueInv'
<1> SUFFICES ASSUME TrueInv, [Next]_vars PROVE TrueInv'
  OBVIOUS
<1>1. /\ Base /\ ModeInv /\ PacketsInv /\ TurnInv /\ EarlyInv /\ CompleteInv /\ CancelInv /\ EndedInv
      /\ Ground /\ UrbInv /\ DataInv /\ UrbFateInv /\ FlowInv /\ NormalInv /\ BufInv /\ EndInv
      /\ KindMode /\ IInv
  BY DEF TrueInv, IInv, Base, FlowInv, ModeInv
<1>2. IInv'
  BY <1>1, NextInv
<1>3. UrbFateInv'
  BY <1>1, FateStep
<1>4. FlowInv'
  BY <1>1, NormalStep, BufStep, EndStep DEF FlowInv
<1>5. ModeInv'
  BY <1>1, KindStep, WalkStep, ErrorStep DEF ModeInv
<1>6. PacketsInv' /\ TurnInv' /\ EarlyInv' /\ CompleteInv'
  BY <1>1, PacketsStep, TurnStep, EarlyStep, CompleteStep
<1>7. CancelInv' /\ EndedInv'
  BY <1>1, CancelStep, EndedStep
<1> QED
  BY <1>2, <1>3, <1>4, <1>5, <1>6, <1>7 DEF TrueInv

\* The inductive invariant, with the fate of URBs, data and transfer.
THEOREM TrueInvariant == Spec => []TrueInv
<1>1. Init => TrueInv
  BY InitTrue
<1>2. TrueInv /\ [Next]_vars => TrueInv'
  BY NextTrue
<1> QED
  BY <1>1, <1>2, PTL DEF Spec

\* What the device delivered is in the caller's buffer from its start, in
\* order and counted, however the transfer ended; and each packet of an
\* isochronous transfer that completed has its own slot.
THEOREM OrderHolds == Spec => []DataInOrder
<1>1. TrueInv => DataInOrder
  <2> SUFFICES ASSUME TrueInv PROVE DataInOrder
    OBVIOUS
  <2>1. BufInv /\ EndInv /\ CompleteInv
    BY DEF TrueInv, FlowInv
  <2>2. Reported /\ kind # "iso" =>
          /\ \A c \in 1..transferred : buf[c] = c
          /\ told # "no device" \/ reapAfter => transferred = sent
    BY <2>1 DEF BufInv, EndInv
  <2>3. told = "completed" /\ kind = "iso" /\ alive => \A c \in 1..length : buf[c] = c
    BY <2>1 DEF CompleteInv, Whole
  <2> QED
    BY <2>2, <2>3 DEF DataInOrder
<1> QED
  BY <1>1, TrueInvariant, PTL

\* The status that is reported is the true one: "cancelled" only after a
\* cancellation that was accepted, "timed out" only of a transfer with a
\* timeout that nobody cancelled, and "completed" only of one that was not cut
\* off.
THEOREM StatusHolds == Spec => []StatusTrue
<1>1. TrueInv => StatusTrue
  <2> SUFFICES ASSUME TrueInv PROVE StatusTrue
    OBVIOUS
  <2>1. EndedInv /\ CompleteInv
    BY DEF TrueInv
  <2>2. told = "completed" /\ kind # "iso" /\ ~Stopped /\ alive =>
          \A i \in 1..num : \/ urbs[i].status \in {"ok", "short"}
                            \/ \E j \in 1..(i - 1) : urbs[j].status = "short"
    BY <2>1 DEF CompleteInv, Whole
  <2> QED
    BY <2>1, <2>2 DEF EndedInv, StatusTrue
<1> QED
  BY <1>1, TrueInvariant, PTL

=============================================================================
