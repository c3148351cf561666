---------------------------- MODULE DriverProofs ----------------------------
(***************************************************************************)
(* What TLAPS proves of Driver, for any profiles, stages and words, any    *)
(* number of attempts, runs and changes, any capacity of the link, and,    *)
(* but where a property says otherwise, any number of repeated requests.   *)
(***************************************************************************)
EXTENDS Driver, SequenceTheorems, TLAPS

-----------------------------------------------------------------------------
(* What is under way. *)

\* The request of a step of the script, and the requests and replies to it.
CodeOf(k) == IF Script[mode][k] \in {"config", "word"} THEN "read" ELSE Script[mode][k]
PlaceOf(k) == IF Script[mode][k] \in {"word", "write"} THEN target ELSE 0
Of(e, k) == e.code = CodeOf(k) /\ e.address = PlaceOf(k)

\* What a run can leave behind an online query: the next exchange's.
Early(e) == e.code \in {"online", "battery"} \/ (e.code = "read" /\ e.address = 0)

\* Only requests that read a stage or write it name one, and name a stage of
\* the mouse.
AddressInv ==
  /\ mode = "sens" /\ step > 3 => target >= 3
  /\ \A i \in 1 .. Len(radio) :
       radio[i].code \in {"read", "write"} /\ radio[i].address # 0 => radio[i].address >= 3
  /\ pc # "idle" <=> status = "running"
  /\ pc = "idle" => step = 1

NoneMine(s) == \A i \in 1 .. Len(s) : ~s[i].mine
AllMine(s) == \A i \in 1 .. Len(s) : s[i].mine
OneMine(s) == \A i, j \in 1 .. Len(s) : s[i].mine /\ s[j].mine => i = j
MineOf(s, k) == \A i \in 1 .. Len(s) : s[i].mine => Of(s[i], k)
OthersOf(s, k) == \A i \in 1 .. Len(s) : s[i].mine \/ Of(s[i], k)
OthersEarly(s) == \A i \in 1 .. Len(s) : s[i].mine \/ Early(s[i])

\* What belongs to the running exchange is behind everything else, asks what
\* it asks, and is not there before it is sent.  Replies were asked for
\* before the requests that are still on their way.
MineLast(s) == \A i, j \in 1 .. Len(s) : i < j /\ s[i].mine => s[j].mine
MineInv ==
  /\ MineLast(queue) /\ MineLast(radio)
  /\ NoneMine(queue) \/ AllMine(radio)
  /\ pc # "idle" => MineOf(queue, step) /\ MineOf(radio, step)
  /\ pc \in {"drain", "send"} /\ attempt = 1 => NoneMine(queue) /\ NoneMine(radio)

\* Once an answer has been the exchange's own, all that is left is of it.
Flushed == step > 1 /\ (stale = {} \/ (step > 3 /\ stale \subseteq {1, 2}))
FlushInv ==
  pc # "idle" /\ Flushed => OthersOf(queue, step - 1) /\ OthersOf(radio, step - 1)

\* The write is sent once, and nothing of it is left behind its echo.
OnceInv ==
  /\ pc # "idle" /\ step = 7 => attempt = 1
  /\ repeats = 0 /\ pc # "idle" =>
       /\ step = 7 => OneMine(queue) /\ OneMine(radio) /\ (NoneMine(queue) \/ NoneMine(radio))
       /\ step = 8 /\ Flushed => AllMine(queue) /\ AllMine(radio)

\* Behind an online query of the first run are only early requests.
Leads(s, t) == \A i \in 1 .. Len(s), j \in 1 .. Len(t) : s[i].code = "online" => Early(t[j])
LeadsOn(s) == \A i, j \in 1 .. Len(s) : i < j /\ s[i].code = "online" => Early(s[j])
LeftInv ==
  /\ runs = 0 => pc = "idle" /\ queue = <<>> /\ radio = <<>> /\ stale = {}
  /\ runs = 1 /\ pc # "idle" /\ step = 1 => AllMine(queue) /\ AllMine(radio)
  /\ repeats = 0 /\ ((runs = 1 /\ pc = "idle") \/ (runs <= 2 /\ pc # "idle" /\ step = 1)) =>
       LeadsOn(queue) /\ Leads(queue, radio) /\ LeadsOn(radio)
  /\ repeats = 0 /\ runs <= 2 /\ pc # "idle" /\ step \in {2, 3} =>
       OthersEarly(queue) /\ OthersEarly(radio)

\* Which answers may have been late.
FreshInv ==
  /\ pc # "idle" => \A k \in stale : k < step
  /\ repeats = 0 => /\ stale # {} => 1 \in stale
                    /\ runs <= 1 => stale = {}
                    /\ runs <= 2 => stale \subseteq {1, 2}

-----------------------------------------------------------------------------
(* Where the mouse was. *)

Current == pc \in {"send", "wait"} => \A i \in 1 .. Len(queue) : queue[i].at = active

\* The replies to be read were given at old before any at active.
Ordered(old) ==
  pc \in {"send", "wait"} =>
    \A i \in 1 .. Len(queue) :
      /\ queue[i].at \in {old, active}
      /\ queue[i].at = active => \A j \in 1 .. Len(queue) : i <= j => queue[j].at = active

\* A reading taken at l: what is read after it is not older.
ReadAt(l, old) == l \in {old, active} /\ (l = active => Current)

\* At most one change in the run, away from old: each reading was taken before
\* it or after it, and the readings follow one another: at l2 the first
\* configuration read, at l8 the readback.
Placed(old, l2, l8) ==
  /\ changes = 0 => old = active
  /\ Ordered(old)
  /\ mode = "sens" /\ step > 2 =>
       /\ ReadAt(l2, old)
       /\ first.stage = l2.stage /\ first.count = Count[l2.profile]
  /\ mode = "sens" /\ step > 3 =>
       /\ ReadAt(firstAt, old) /\ (l2 = active => firstAt = active)
       /\ first.profile = firstAt.profile
       /\ override = 0 => StageAt(target) = first.stage
  /\ mode = "sens" /\ step > 5 =>
       ReadAt(checkAt, old) /\ (firstAt = active => checkAt = active)
  /\ mode = "sens" /\ step = 6 =>
       now.stage = checkAt.stage /\ now.count = Count[checkAt.profile]
  /\ mode = "sens" /\ step > 6 => checkAt = firstAt /\ firstAt.stage = first.stage
  /\ mode = "sens" /\ step > 8 /\ stale \subseteq {1, 2} =>
       /\ ReadAt(l8, old) /\ (checkAt = active => l8 = active)
       /\ regs[l8.profile][StageAt(target)] = want

PlaceInv ==
  pc # "idle" /\ changes < 2 =>
    \E old \in Places, l2 \in Places, l8 \in Places : Placed(old, l2, l8)

\* A readback that answers this run's own request says what is stored; and no
\* write is under way any more that could change it.
StoredInv ==
  /\ pc # "idle" /\ mode = "sens" /\ step = 8 /\ stale \subseteq {1, 2} =>
       \A i \in 1 .. Len(queue) :
         queue[i].mine => queue[i].word = regs[queue[i].at.profile][StageAt(target)]
  /\ status = "ok" /\ mode = "sens" /\ stale \subseteq {1, 2} =>
       \A i \in 1 .. Len(radio) : radio[i].code # "write"

IInv ==
  /\ TypeOK /\ AddressInv /\ MineInv /\ FlushInv /\ OnceInv /\ LeftInv /\ FreshInv
  /\ PlaceInv /\ StoredInv /\ SuccessSound
-----------------------------------------------------------------------------
(* The script, and sequences. *)

LEMMA ScriptIs ==
  /\ DOMAIN Script["sens"] = 1 .. 10 /\ Len(Script["sens"]) = 10
  /\ Script["sens"][1] = "online" /\ Script["sens"][2] = "config"
  /\ Script["sens"][3] = "profile" /\ Script["sens"][4] = "word"
  /\ Script["sens"][5] = "config" /\ Script["sens"][6] = "profile"
  /\ Script["sens"][7] = "write" /\ Script["sens"][8] = "word"
  /\ Script["sens"][9] = "config" /\ Script["sens"][10] = "profile"
  /\ DOMAIN Script["battery"] = 1 .. 2 /\ Len(Script["battery"]) = 2
  /\ Script["battery"][1] = "online" /\ Script["battery"][2] = "battery"
BY DEF Script

\* What each step asks.
LEMMA AskIs ==
  ASSUME mode \in {"sens", "battery"}, step \in DOMAIN Script[mode]
  PROVE  /\ step \in 1 .. 10 /\ (mode = "battery" => step <= 2)
         /\ Len(Script[mode]) = IF mode = "sens" THEN 10 ELSE 2
         /\ DOMAIN Script[mode] = 1 .. (IF mode = "sens" THEN 10 ELSE 2)
         /\ Ask = "online" <=> step = 1
         /\ Ask = "config" <=> mode = "sens" /\ step \in {2, 5, 9}
         /\ Ask = "profile" <=> step \in {3, 6, 10}
         /\ Ask = "word" <=> step \in {4, 8}
         /\ Ask = "write" <=> step = 7
         /\ Ask = "battery" <=> mode = "battery" /\ step = 2
<1>1. CASE mode = "sens"
  <2>1. step \in 1 .. 10
    BY <1>1, ScriptIs
  <2>2. \/ step = 1 \/ step = 2 \/ step = 3 \/ step = 4 \/ step = 5
        \/ step = 6 \/ step = 7 \/ step = 8 \/ step = 9 \/ step = 10
    BY <2>1
  <2> QED
    BY <1>1, <2>1, <2>2, ScriptIs DEF Ask
<1>2. CASE mode = "battery"
  <2>1. step = 1 \/ step = 2
    BY <1>2, ScriptIs
  <2> QED
    BY <1>2, <2>1, ScriptIs DEF Ask
<1> QED
  BY <1>1, <1>2

LEMMA CodeIs ==
  ASSUME mode \in {"sens", "battery"}
  PROVE  /\ CodeOf(1) = "online" /\ PlaceOf(1) = 0
         /\ mode = "sens" =>
              /\ CodeOf(2) = "read" /\ PlaceOf(2) = 0
              /\ CodeOf(3) = "profile" /\ PlaceOf(3) = 0
              /\ CodeOf(4) = "read" /\ PlaceOf(4) = target
              /\ CodeOf(5) = "read" /\ PlaceOf(5) = 0
              /\ CodeOf(6) = "profile" /\ PlaceOf(6) = 0
              /\ CodeOf(7) = "write" /\ PlaceOf(7) = target
              /\ CodeOf(8) = "read" /\ PlaceOf(8) = target
              /\ CodeOf(9) = "read" /\ PlaceOf(9) = 0
              /\ CodeOf(10) = "profile" /\ PlaceOf(10) = 0
         /\ mode = "battery" => CodeOf(2) = "battery" /\ PlaceOf(2) = 0
BY ScriptIs DEF CodeOf, PlaceOf

LEMMA CodePlace == Code = CodeOf(step) /\ Place = PlaceOf(step)
BY DEF Code, Place, Ask, CodeOf, PlaceOf

LEMMA TailIs ==
  ASSUME NEW S, NEW s \in Seq(S), s # <<>>
  PROVE  /\ Tail(s) \in Seq(S) /\ Len(Tail(s)) = Len(s) - 1 /\ Len(s) \in Nat \ {0}
         /\ \A i \in 1 .. Len(Tail(s)) : Tail(s)[i] = s[i + 1]
         /\ Head(s) = s[1] /\ Head(s) \in S
<1>1. Tail(s) \in Seq(S) /\ Len(Tail(s)) = Len(s) - 1 /\ Head(s) \in S
  BY HeadTailProperties
<1>2. Len(s) \in Nat \ {0}
  BY EmptySeq
<1>3. \A i \in 1 .. Len(Tail(s)) : Tail(s)[i] = s[i + 1]
  BY HeadTailProperties
<1>4. Head(s) = s[1]
  OBVIOUS
<1> QED
  BY <1>1, <1>2, <1>3, <1>4

LEMMA AppendIs ==
  ASSUME NEW S, NEW s \in Seq(S), NEW e \in S
  PROVE  /\ Append(s, e) \in Seq(S) /\ Len(Append(s, e)) = Len(s) + 1
         /\ \A i \in 1 .. Len(s) : Append(s, e)[i] = s[i]
         /\ Append(s, e)[Len(s) + 1] = e
BY AppendProperties

LEMMA DisownIs ==
  ASSUME NEW S \in {Requests, Replies}, NEW s \in Seq(S)
  PROVE  /\ Disown(s) \in Seq(S) /\ Len(Disown(s)) = Len(s)
         /\ \A i \in 1 .. Len(s) :
              /\ ~Disown(s)[i].mine
              /\ Disown(s)[i].code = s[i].code /\ Disown(s)[i].address = s[i].address
<1>1. \A e \in S : [e EXCEPT !.mine = FALSE] \in S
  <2>1. CASE S = Requests
    BY <2>1 DEF Requests
  <2>2. CASE S = Replies
    BY <2>2 DEF Replies
  <2> QED
    BY <2>1, <2>2
<1>2. Disown(s) = [i \in 1 .. Len(s) |-> [s[i] EXCEPT !.mine = FALSE]]
  BY LenProperties DEF Disown
<1>3. \A i \in 1 .. Len(s) : s[i] \in S
  BY LenProperties, ElementOfSeq
<1>4. Len(s) \in Nat
  BY LenProperties
<1>5. Disown(s) \in [1 .. Len(s) -> S]
  BY <1>1, <1>2, <1>3
<1>6. Disown(s) \in Seq(S)
  BY <1>4, <1>5, SeqDef
<1>7. Len(Disown(s)) = Len(s)
  BY <1>4, <1>5, <1>6, LenProperties
<1>8. \A i \in 1 .. Len(s) :
        /\ ~Disown(s)[i].mine
        /\ Disown(s)[i].code = s[i].code /\ Disown(s)[i].address = s[i].address
  <2> TAKE i \in 1 .. Len(s)
  <2>1. Disown(s)[i] = [s[i] EXCEPT !.mine = FALSE]
    BY <1>2
  <2> QED
    BY <1>3, <2>1 DEF Requests, Replies
<1> QED
  BY <1>6, <1>7, <1>8
-----------------------------------------------------------------------------
(* Types. *)

LEMMA StepTyped ==
  ASSUME TypeOK
  PROVE  /\ mode \in {"sens", "battery"} /\ step \in DOMAIN Script[mode]
         /\ step \in 1 .. 10
<1>1. mode \in {"sens", "battery"} /\ step \in DOMAIN Script[mode]
  BY DEF TypeOK
<1>2. step \in 1 .. 10
  BY <1>1, AskIs
<1> QED
  BY <1>1, <1>2

LEMMA InSeq ==
  ASSUME NEW S, NEW s \in Seq(S)
  PROVE  Len(s) \in Nat /\ \A i \in 1 .. Len(s) : s[i] \in S
BY LenProperties, ElementOfSeq

LEMMA Replaced ==
  ASSUME NEW A, NEW B, NEW f \in [A -> B], NEW a \in A, NEW b \in B
  PROVE  [f EXCEPT ![a] = b] \in [A -> B]
OBVIOUS

\* What taking an answer does to the link.
LEMMA TakenLink ==
  ASSUME TypeOK, NEW ask, Taken(ask)
  PROVE  /\ pc = "wait" /\ Ask = ask /\ Matches(Answer)
         /\ Answer \in Replies /\ Answer = queue[1]
         /\ queue' \in Seq(Replies) /\ radio' \in Seq(Requests)
         /\ Len(queue) \in Nat \ {0} /\ Len(queue') = Len(queue) - 1
         /\ Len(radio) \in Nat /\ Len(radio') = Len(radio)
         /\ NoneMine(queue') /\ NoneMine(radio')
         /\ \A i \in 1 .. Len(queue') :
              queue'[i].code = queue[i + 1].code /\ queue'[i].address = queue[i + 1].address
         /\ \A i \in 1 .. Len(radio) :
              radio'[i].code = radio[i].code /\ radio'[i].address = radio[i].address
<1>0. /\ queue \in Seq(Replies) /\ queue # <<>> /\ queue' = Disown(Tail(queue))
      /\ radio \in Seq(Requests) /\ radio' = Disown(radio)
      /\ pc = "wait" /\ Ask = ask /\ Matches(Answer)
  BY DEF Taken, TypeOK
<1>1. /\ Tail(queue) \in Seq(Replies) /\ Len(Tail(queue)) = Len(queue) - 1
      /\ Len(queue) \in Nat \ {0} /\ Answer = queue[1] /\ Answer \in Replies
      /\ \A i \in 1 .. Len(Tail(queue)) : Tail(queue)[i] = queue[i + 1]
  BY <1>0, TailIs DEF Answer
<1>2. /\ queue' \in Seq(Replies) /\ Len(queue') = Len(Tail(queue))
      /\ \A i \in 1 .. Len(Tail(queue)) :
           /\ ~queue'[i].mine
           /\ queue'[i].code = Tail(queue)[i].code /\ queue'[i].address = Tail(queue)[i].address
  BY <1>0, <1>1, DisownIs
<1>3. /\ radio' \in Seq(Requests) /\ Len(radio') = Len(radio)
      /\ \A i \in 1 .. Len(radio) :
           /\ ~radio'[i].mine
           /\ radio'[i].code = radio[i].code /\ radio'[i].address = radio[i].address
  BY <1>0, DisownIs
<1>4. Len(radio) \in Nat
  BY <1>0, InSeq
<1>5. NoneMine(queue') /\ NoneMine(radio')
  BY <1>2, <1>3 DEF NoneMine
<1> QED
  BY <1>0, <1>1, <1>2, <1>3, <1>4, <1>5

\* Every step of the run leaves it in a step of its script.
LEMMA ControlTyped ==
  ASSUME TypeOK, AddressInv, mode' \in {"sens", "battery"},
         \/ pc # "idle" /\ mode' = mode /\ (Proceed \/ Finish("failed") \/ Finish("killed"))
         \/ pc' = "drain" /\ step' = 1 /\ attempt' = 1 /\ status' = "running"
  PROVE  /\ pc' \in {"idle", "drain", "send", "wait"} /\ step' \in DOMAIN Script[mode']
         /\ attempt' \in 1 .. ReadAttempts
         /\ status' \in {"none", "running", "ok", "failed", "killed"}
         /\ pc' # "idle" => status' = "running"
         /\ pc' = "idle" => status' # "running" /\ step' = 1
<1>1. mode \in {"sens", "battery"} /\ step \in DOMAIN Script[mode]
  BY DEF TypeOK
<1>2. /\ 1 \in DOMAIN Script[mode'] /\ 1 \in 1 .. ReadAttempts
      /\ step \in Nat
      /\ step # Len(Script[mode]) => step + 1 \in DOMAIN Script[mode]
  <2>1. 1 \in DOMAIN Script[mode']
    <3>1. CASE mode' = "sens"
      BY <3>1, ScriptIs
    <3>2. CASE mode' = "battery"
      BY <3>2, ScriptIs
    <3> QED
      BY <3>1, <3>2
  <2>2. 1 \in 1 .. ReadAttempts
    BY DriverAssumption
  <2> QED
    BY <1>1, <2>1, <2>2, AskIs
<1>3. CASE pc # "idle" /\ mode' = mode /\ Proceed /\ step # Len(Script[mode])
  BY <1>1, <1>2, <1>3 DEF TypeOK, AddressInv, Proceed
<1>4. ASSUME NEW result \in {"ok", "failed", "killed"}, Finish(result) PROVE
        /\ pc' = "idle" /\ status' = result /\ step' = 1 /\ attempt' = 1
  BY <1>4 DEF Finish
<1>5. CASE mode' = mode /\ Proceed /\ step = Len(Script[mode])
  BY <1>2, <1>4, <1>5 DEF Proceed
<1>6. CASE Finish("failed") \/ Finish("killed")
  BY <1>2, <1>4, <1>6
<1>7. CASE pc' = "drain" /\ step' = 1 /\ attempt' = 1 /\ status' = "running"
  BY <1>2, <1>7
<1> QED
  BY <1>3, <1>5, <1>6, <1>7

LEMMA ReadingsTyped ==
  ASSUME NEW r \in Readings, NEW at \in Places
  PROVE  /\ ConfigOf(r, at) \in Readings /\ ProfileOf(r, at) \in Readings
         /\ ConfigOf(r, at).stage = at.stage /\ ConfigOf(r, at).count = Count[at.profile]
         /\ ConfigOf(r, at).profile = r.profile
         /\ ProfileOf(r, at).stage = r.stage /\ ProfileOf(r, at).count = r.count
         /\ ProfileOf(r, at).profile = at.profile
<1>1. Count[at.profile] \in 0 .. MaxStages
  BY DriverAssumption DEF Places
<1> QED
  BY <1>1 DEF ConfigOf, ProfileOf, Readings, Places

LEMMA TypeStep == TypeOK /\ AddressInv /\ [Next]_vars => TypeOK' /\ AddressInv'
<1> SUFFICES ASSUME TypeOK, AddressInv, [Next]_vars PROVE TypeOK' /\ AddressInv'
  OBVIOUS
<1> USE DriverAssumption DEF mouse, link, args, seen, ghosts
<1>0. /\ Len(queue) \in Nat /\ Len(radio) \in Nat
      /\ \A i \in 1 .. Len(queue) : queue[i] \in Replies
      /\ \A i \in 1 .. Len(radio) : radio[i] \in Requests
  BY InSeq DEF TypeOK
<1>1. CASE Start
  <2>1. /\ radio' \in Seq(Requests) /\ Len(radio') = Len(radio)
        /\ queue' \in Seq(Replies) /\ Len(queue') = Len(queue)
        /\ \A i \in 1 .. Len(radio) :
             radio'[i].code = radio[i].code /\ radio'[i].address = radio[i].address
    BY <1>1, DisownIs DEF Start, TypeOK
  <2>2. /\ pc' \in {"idle", "drain", "send", "wait"} /\ step' \in DOMAIN Script[mode']
        /\ attempt' \in 1 .. ReadAttempts
        /\ status' \in {"none", "running", "ok", "failed", "killed"}
    BY <1>1, ControlTyped DEF Start
  <2>3. override' \in {0} \cup {Address(s) : s \in Stages}
    BY <1>1 DEF Start
  <2>4. runs' \in 0 .. MaxRuns /\ changes' \in 0 .. MaxChanges
    BY <1>1 DEF Start, TypeOK
  <2>5. TypeOK'
    BY <1>1, <2>1, <2>2, <2>3, <2>4 DEF Start, TypeOK
  <2> QED
    BY <1>1, <2>1, <2>5 DEF Start, AddressInv
<1>2. CASE Drain
  BY <1>2, EmptySeq DEF Drain, TypeOK, AddressInv
<1>3. CASE Send
  <2> DEFINE req == [code |-> Code, address |-> Place, word |-> want, mine |-> TRUE]
  <2>1. Ask \in {"online", "config", "profile", "word", "write", "battery"}
    BY AskIs, ScriptIs DEF TypeOK, Ask
  <2>2. /\ req \in Requests
        /\ req.code \in {"read", "write"} /\ req.address # 0 => req.address >= 3
    BY <2>1, AskIs DEF Code, Place, TypeOK, AddressInv, Requests, Commands
  <2>3. CASE Len(radio) < LinkCap
    <3>1. /\ radio' \in Seq(Requests) /\ Len(radio') = Len(radio) + 1
          /\ \A i \in 1 .. Len(radio) : radio'[i] = radio[i]
          /\ radio'[Len(radio) + 1] = req
      BY <1>3, <2>2, <2>3, AppendIs DEF Send, TypeOK
    <3>2. TypeOK'
      BY <1>3, <1>0, <2>3, <3>1 DEF Send, TypeOK
    <3>3. \A i \in 1 .. Len(radio') :
            radio'[i].code \in {"read", "write"} /\ radio'[i].address # 0 => radio'[i].address >= 3
      BY <1>0, <2>2, <3>1 DEF AddressInv
    <3> QED
      BY <1>3, <3>2, <3>3 DEF Send, AddressInv
  <2>4. CASE ~(Len(radio) < LinkCap)
    BY <1>3, <2>4 DEF Send, TypeOK, AddressInv
  <2> QED
    BY <2>3, <2>4
<1>4. CASE Ignore
  <2>1. /\ queue' \in Seq(Replies) /\ Len(queue') = Len(queue) - 1
        /\ Len(queue) \in Nat \ {0}
    BY <1>4, TailIs DEF Ignore, TypeOK
  <2> QED
    BY <1>4, <1>0, <2>1 DEF Ignore, TypeOK, AddressInv
<1>5. ASSUME NEW ask, Taken(ask),
             Proceed \/ Finish("failed"),
             target' \in 0 .. (2 + MaxStages), first' \in Readings, now' \in Readings,
             firstAt' \in Places, checkAt' \in Places, readback' \in {"none"} \cup Commands,
             mode' = "sens" /\ step' > 3 => target' >= 3
      PROVE  TypeOK' /\ AddressInv'
  <2>1. /\ queue' \in Seq(Replies) /\ radio' \in Seq(Requests)
        /\ Len(queue) \in Nat \ {0} /\ Len(queue') = Len(queue) - 1 /\ Len(radio') = Len(radio)
        /\ pc = "wait"
        /\ \A i \in 1 .. Len(radio) :
             radio'[i].code = radio[i].code /\ radio'[i].address = radio[i].address
    BY <1>5, TakenLink
  <2>2. mode' = mode /\ mode' \in {"sens", "battery"}
    BY <1>5 DEF Taken, TypeOK
  <2>3. /\ pc' \in {"idle", "drain", "send", "wait"} /\ step' \in DOMAIN Script[mode']
        /\ attempt' \in 1 .. ReadAttempts
        /\ status' \in {"none", "running", "ok", "failed", "killed"}
        /\ pc' # "idle" => status' = "running"
        /\ pc' = "idle" => status' # "running" /\ step' = 1
    <3>1. pc # "idle"
      BY <2>1
    <3>2. Proceed \/ Finish("failed") \/ Finish("killed")
      BY <1>5
    <3> QED
      <4>1. CASE Proceed
        BY <2>2, <3>1, <4>1, ControlTyped
      <4>2. CASE Finish("failed") \/ Finish("killed")
        BY <2>2, <3>1, <4>2, ControlTyped
      <4> QED
        BY <3>2, <4>1, <4>2
  <2>4. stale' \subseteq 1 .. 10
    BY <1>5, AskIs DEF Taken, TypeOK
  <2>5. TypeOK'
    BY <1>5, <2>1, <2>2, <2>3, <2>4 DEF Taken, TypeOK
  <2> QED
    BY <1>5, <2>1, <2>3, <2>5 DEF AddressInv
<1>6. \A ask : Taken(ask) =>
        /\ mode' = mode /\ mode \in {"sens", "battery"} /\ pc = "wait" /\ Ask = ask
        /\ Answer \in Replies /\ Answer.at \in Places
        /\ Answer.at.stage \in Stages /\ Answer.at.profile \in Profiles
        /\ step \in 1 .. 10
        /\ Proceed => step' = step + 1 \/ step' = 1
  BY TakenLink, AskIs DEF Taken, TypeOK, Replies, Places, Proceed, Finish
<1>7. CASE TakeOnline
  <2>1. Taken("online") /\ (Proceed \/ Finish("failed"))
    BY <1>7 DEF TakeOnline
  <2>2. /\ target' \in 0 .. (2 + MaxStages) /\ first' \in Readings /\ now' \in Readings
        /\ firstAt' \in Places /\ checkAt' \in Places /\ readback' \in {"none"} \cup Commands
    BY <1>7 DEF TakeOnline, TypeOK
  <2>3. ~(step' > 3)
    BY <1>6, <2>1, AskIs DEF TypeOK, Proceed, Finish
  <2> QED
    BY <1>5, <2>1, <2>2, <2>3
<1>8. CASE TakeBattery
  <2>1. Taken("battery") /\ Proceed
    BY <1>8 DEF TakeBattery
  <2>2. /\ target' \in 0 .. (2 + MaxStages) /\ first' \in Readings /\ now' \in Readings
        /\ firstAt' \in Places /\ checkAt' \in Places /\ readback' \in {"none"} \cup Commands
    BY <1>8 DEF TakeBattery, TypeOK
  <2>3. mode' # "sens"
    BY <1>6, <2>1, AskIs DEF TypeOK
  <2> QED
    BY <1>5, <2>1, <2>2, <2>3
<1>9. CASE TakeEcho
  <2>1. Taken("write") /\ Proceed
    BY <1>9 DEF TakeEcho
  <2>2. /\ target' \in 0 .. (2 + MaxStages) /\ first' \in Readings /\ now' \in Readings
        /\ firstAt' \in Places /\ checkAt' \in Places /\ readback' \in {"none"} \cup Commands
    BY <1>9 DEF TakeEcho, TypeOK
  <2>3. mode' = "sens" => target' >= 3
    BY <1>6, <1>9, <2>1, AskIs DEF TakeEcho, TypeOK, AddressInv
  <2> QED
    BY <1>5, <2>1, <2>2, <2>3
<1>10. CASE TakeWord
  <2>1. Taken("word") /\ (Proceed \/ Finish("failed"))
    BY <1>10 DEF TakeWord
  <2>2. /\ target' \in 0 .. (2 + MaxStages) /\ first' \in Readings /\ now' \in Readings
        /\ firstAt' \in Places /\ checkAt' \in Places /\ readback' \in {"none"} \cup Commands
    BY <1>6, <1>10, <2>1 DEF TakeWord, TypeOK, Replies
  <2>3. mode' = "sens" => target' >= 3
    BY <1>6, <1>10, <2>1, AskIs DEF TakeWord, TypeOK, AddressInv
  <2> QED
    BY <1>5, <2>1, <2>2, <2>3
<1>11. CASE TakeConfig
  <2>1. Taken("config") /\ Proceed
    BY <1>11 DEF TakeConfig
  <2>2. ConfigOf(first, Answer.at) \in Readings /\ ConfigOf(now, Answer.at) \in Readings
    BY <1>6, <2>1, ReadingsTyped DEF TypeOK
  <2>3. /\ target' \in 0 .. (2 + MaxStages) /\ first' \in Readings /\ now' \in Readings
        /\ firstAt' \in Places /\ checkAt' \in Places /\ readback' \in {"none"} \cup Commands
    BY <1>6, <1>11, <2>1, <2>2 DEF TakeConfig, TypeOK
  <2>4. mode' = "sens" /\ step' > 3 => target' >= 3
    <3>1. mode' = mode /\ target' = target
      BY <1>6, <1>11, <2>1 DEF TakeConfig
    <3>2. step \in {2, 5, 9} /\ (step' = step + 1 \/ step' = 1)
      BY <1>6, <2>1, AskIs DEF TypeOK
    <3> QED
      BY <3>1, <3>2 DEF AddressInv
  <2> QED
    BY <1>5, <2>1, <2>3, <2>4
<1>12. CASE TakeProfile
  <2>1. Taken("profile") /\ (Proceed \/ Finish("failed"))
    BY <1>12 DEF TakeProfile
  <2>2. ProfileOf(first, Answer.at) \in Readings /\ ProfileOf(now, Answer.at) \in Readings
    BY <1>6, <2>1, ReadingsTyped DEF TypeOK
  <2>3. step = 3 => target' \in 3 .. (2 + MaxStages)
    <3>1. step = 3 =>
            (target' = override /\ override # 0) \/ target' = Address(first.stage)
      BY <1>12 DEF TakeProfile
    <3> QED
      <4>1. override \in {0} \cup {Address(s) : s \in Stages} /\ first.stage \in Stages
        BY DEF TypeOK, Readings
      <4>2. \A s \in Stages : Address(s) \in 3 .. (2 + MaxStages)
        BY DEF Address, Stages
      <4> QED
        BY <3>1, <4>1, <4>2
  <2>4. step # 3 => target' = target
    BY <1>12 DEF TakeProfile
  <2>5. /\ target' \in 0 .. (2 + MaxStages) /\ first' \in Readings /\ now' \in Readings
        /\ firstAt' \in Places /\ checkAt' \in Places /\ readback' \in {"none"} \cup Commands
    <3>1. target' \in 0 .. (2 + MaxStages)
      BY <2>3, <2>4 DEF TypeOK
    <3>2. Answer.at \in Places
      BY <1>6, <2>1
    <3>3. firstAt' \in {firstAt, Answer.at} /\ checkAt' = checkAt /\ readback' = readback
      BY <1>12 DEF TakeProfile
    <3>4. /\ first' \in {first, ProfileOf(first, Answer.at)}
          /\ now' \in {now, ProfileOf(now, Answer.at)}
      BY <1>12 DEF TakeProfile
    <3> QED
      BY <2>2, <3>1, <3>2, <3>3, <3>4 DEF TypeOK
  <2>6. mode' = "sens" /\ step' > 3 => target' >= 3
    <3>1. mode' = mode /\ step \in {3, 6, 10} /\ (step' = step + 1 \/ step' = 1)
      <4>1. mode' = mode /\ Ask = "profile"
        BY <1>6, <2>1
      <4>2. step' = step + 1 \/ step' = 1
        BY <2>1 DEF Proceed, Finish
      <4> QED
        BY <4>1, <4>2, AskIs, StepTyped
    <3>2. CASE step = 3
      BY <2>3, <3>2
    <3>3. CASE step # 3
      BY <2>4, <3>1, <3>3 DEF AddressInv
    <3> QED
      BY <3>2, <3>3
  <2> QED
    BY <1>5, <2>1, <2>5, <2>6
<1>13. CASE Timeout \/ ExchangeFails \/ Killed
  <2>1. /\ step' \in DOMAIN Script[mode'] /\ attempt' \in 1 .. ReadAttempts
        /\ pc' \in {"idle", "drain", "send", "wait"}
        /\ status' \in {"none", "running", "ok", "failed", "killed"}
        /\ pc' # "idle" => status' = "running"
        /\ pc' = "idle" => status' # "running" /\ step' = 1
    <3>1. pc # "idle"
      BY <1>13 DEF Timeout, ExchangeFails, Killed
    <3>2. CASE Finish("failed") \/ Finish("killed")
      <4>1. mode' = mode /\ mode' \in {"sens", "battery"}
        BY <1>13 DEF Timeout, ExchangeFails, Killed, TypeOK
      <4> QED
        BY <3>1, <3>2, <4>1, ControlTyped DEF Finish
    <3>3. CASE Timeout /\ attempt < Attempts
      <4>1. Attempts \in 1 .. ReadAttempts
        BY DEF Attempts
      <4> QED
        BY <3>1, <3>3, <4>1 DEF Timeout, TypeOK, AddressInv
    <3> QED
      BY <1>13, <3>2, <3>3 DEF Timeout, ExchangeFails, Killed
  <2>2. TypeOK'
    BY <1>13, <2>1 DEF Timeout, ExchangeFails, Killed, TypeOK
  <2>3. step' > 3 => step > 3
    BY <1>13 DEF Timeout, ExchangeFails, Killed, Finish
  <2> QED
    BY <1>13, <2>1, <2>2, <2>3 DEF Timeout, ExchangeFails, Killed, AddressInv
<1>14. CASE Serve
  <2> DEFINE req == Head(radio)
             word == IF req.code = "read" /\ req.address # 0
                     THEN regs[active.profile][StageAt(req.address)] ELSE req.word
  <2>1. /\ req \in Requests /\ req = radio[1] /\ Len(radio) \in Nat \ {0}
        /\ Tail(radio) \in Seq(Requests) /\ Len(Tail(radio)) = Len(radio) - 1
        /\ \A i \in 1 .. Len(Tail(radio)) : Tail(radio)[i] = radio[i + 1]
    BY <1>14, TailIs DEF Serve, TypeOK
  <2>2. req.code \in {"read", "write"} /\ req.address # 0 => StageAt(req.address) \in Stages
    BY <2>1 DEF AddressInv, Requests, StageAt, Stages
  <2>3. word \in Words \cup {Corrupt}
    <3>1. /\ active.profile \in Profiles /\ req.word \in Words
          /\ regs \in [Profiles -> [Stages -> Words \cup {Corrupt}]]
      BY <2>1 DEF TypeOK, Places, Requests
    <3>2. CASE req.code = "read" /\ req.address # 0
      BY <2>2, <3>1, <3>2
    <3>3. CASE ~(req.code = "read" /\ req.address # 0)
      BY <3>1, <3>3
    <3> QED
      BY <3>2, <3>3
  <2>4. regs' \in [Profiles -> [Stages -> Words \cup {Corrupt}]]
    <3>1. regs' = regs \/ regs' = [regs EXCEPT ![active.profile][StageAt(req.address)] = req.word]
      BY <1>14 DEF Serve
    <3>2. req.word \in Words
      BY <2>1 DEF Requests
    <3>3. ASSUME NEW p \in Profiles, NEW r, NEW w \in Words
          PROVE  [regs EXCEPT ![p][r] = w] \in [Profiles -> [Stages -> Words \cup {Corrupt}]]
      <4>1. regs[p] \in [Stages -> Words \cup {Corrupt}]
        BY DEF TypeOK
      <4>2. [regs[p] EXCEPT ![r] = w] \in [Stages -> Words \cup {Corrupt}]
        BY <4>1
      <4>3. regs \in [Profiles -> [Stages -> Words \cup {Corrupt}]]
        BY DEF TypeOK
      <4>4. [regs EXCEPT ![p] = [regs[p] EXCEPT ![r] = w]]
              \in [Profiles -> [Stages -> Words \cup {Corrupt}]]
        BY <4>2, <4>3, Replaced
      <4> QED
        BY <4>4
    <3>4. active.profile \in Profiles
      BY DEF TypeOK, Places
    <3>5. [regs EXCEPT ![active.profile][StageAt(req.address)] = req.word]
            \in [Profiles -> [Stages -> Words \cup {Corrupt}]]
      BY <3>2, <3>3, <3>4
    <3>6. regs \in [Profiles -> [Stages -> Words \cup {Corrupt}]]
      BY DEF TypeOK
    <3> QED
      BY <3>1, <3>5, <3>6
  <2>5. queue' \in Seq(Replies) /\ Len(queue') <= LinkCap
    <3>1. CASE queue' = queue
      BY <3>1 DEF TypeOK
    <3>2. CASE Len(queue) < LinkCap /\ \E online \in BOOLEAN :
                 queue' = Append(queue,
                   [code |-> req.code, address |-> req.address, word |-> word,
                    online |-> online, at |-> active, mine |-> req.mine])
      <4>1. PICK online \in BOOLEAN :
              queue' = Append(queue,
                [code |-> req.code, address |-> req.address, word |-> word,
                 online |-> online, at |-> active, mine |-> req.mine])
        BY <3>2
      <4>2. [code |-> req.code, address |-> req.address, word |-> word,
             online |-> online, at |-> active, mine |-> req.mine] \in Replies
        BY <2>1, <2>3 DEF TypeOK, Requests, Replies
      <4> QED
        BY <1>0, <3>2, <4>1, <4>2, AppendIs DEF TypeOK
    <3> QED
      BY <1>14, <3>1, <3>2 DEF Serve
  <2>6. \/ radio' = Tail(radio) /\ repeats' = repeats
        \/ radio' = radio /\ repeats < MaxRepeats /\ repeats' = repeats + 1
    BY <1>14 DEF Serve
  <2>7. /\ radio' \in Seq(Requests) /\ Len(radio') <= LinkCap
        /\ repeats' \in 0 .. MaxRepeats
    <3>1. CASE radio' = Tail(radio) /\ repeats' = repeats
      BY <2>1, <3>1 DEF TypeOK
    <3>2. CASE radio' = radio /\ repeats < MaxRepeats /\ repeats' = repeats + 1
      BY <3>2 DEF TypeOK
    <3> QED
      BY <2>6, <3>1, <3>2
  <2>8. \A i \in 1 .. Len(radio') :
          radio'[i].code \in {"read", "write"} /\ radio'[i].address # 0 => radio'[i].address >= 3
    <3>1. CASE radio' = radio
      BY <3>1 DEF AddressInv
    <3>2. CASE radio' = Tail(radio)
      BY <2>1, <3>2 DEF AddressInv
    <3> QED
      BY <2>6, <3>1, <3>2
  <2>9. TypeOK'
    BY <1>14, <2>4, <2>5, <2>7 DEF Serve, TypeOK
  <2> QED
    BY <1>14, <2>8, <2>9 DEF Serve, AddressInv
<1>15. CASE Lose
  <2>1. /\ radio' \in Seq(Requests) /\ Len(radio') = Len(radio) - 1 /\ Len(radio) \in Nat \ {0}
        /\ \A i \in 1 .. Len(radio') : radio'[i] = radio[i + 1]
    BY <1>15, TailIs DEF Lose, TypeOK
  <2> QED
    BY <1>15, <2>1 DEF Lose, TypeOK, AddressInv
<1>16. CASE Change
  BY <1>16 DEF Change, TypeOK, AddressInv
<1>17. CASE UNCHANGED vars
  BY <1>17 DEF vars, TypeOK, AddressInv
<1> QED
  BY <1>1, <1>2, <1>3, <1>4, <1>7, <1>8, <1>9, <1>10, <1>11, <1>12, <1>13, <1>14, <1>15, <1>16,
     <1>17 DEF Next, Run, Take
-----------------------------------------------------------------------------
(* The order of the link. *)

LinkInv == MineInv /\ FlushInv /\ OnceInv /\ LeftInv /\ FreshInv

\* In the first run all that is under way behind an online query is early.
LEMMA FirstRunLeads ==
  ASSUME TypeOK, LinkInv, runs = 1, repeats = 0
  PROVE  LeadsOn(queue) /\ Leads(queue, radio) /\ LeadsOn(radio)
<1> USE DEF LinkInv
<1>1. CASE pc = "idle" \/ step = 1
  BY <1>1 DEF LeftInv
<1>2. CASE pc # "idle" /\ step > 1
  <2>1. /\ Flushed
        /\ OthersOf(queue, step - 1) /\ OthersOf(radio, step - 1)
        /\ MineOf(queue, step) /\ MineOf(radio, step)
    BY <1>2 DEF FreshInv, Flushed, FlushInv, MineInv
  <2>2. /\ mode = "sens" \/ mode = "battery"
        /\ step \in 1 .. 10 /\ (mode = "battery" => step <= 2)
    BY AskIs DEF TypeOK
  <2>3. CASE step = 2
    <3>1. \A e : Of(e, 1) \/ Of(e, 2) => Early(e)
      BY <2>2, CodeIs DEF Of, Early
    <3>2. \A i \in 1 .. Len(queue) : Early(queue[i])
      BY <2>1, <2>3, <3>1 DEF OthersOf, MineOf
    <3>3. \A i \in 1 .. Len(radio) : Early(radio[i])
      BY <2>1, <2>3, <3>1 DEF OthersOf, MineOf
    <3> QED
      BY <3>2, <3>3 DEF LeadsOn, Leads
  <2>4. CASE step > 2
    <3>1. CodeOf(step) # "online" /\ CodeOf(step - 1) # "online"
      <4>1. mode = "sens" /\ step \in {3, 4, 5, 6, 7, 8, 9, 10}
        BY <2>2, <2>4
      <4> QED
        BY <4>1, CodeIs
    <3>2. \A i \in 1 .. Len(queue) : queue[i].code # "online"
      BY <2>1, <3>1 DEF OthersOf, MineOf, Of
    <3>3. \A i \in 1 .. Len(radio) : radio[i].code # "online"
      BY <2>1, <3>1 DEF OthersOf, MineOf, Of
    <3> QED
      BY <3>2, <3>3 DEF LeadsOn, Leads
  <2> QED
    BY <1>2, <2>2, <2>3, <2>4
<1> QED
  <2>1. step \in Nat /\ step >= 1
    BY StepTyped
  <2> QED
    BY <1>1, <1>2, <2>1

\* Two requests in a row are told apart by the answers they take, but for the
\* write and its readback.
LEMMA Alternates ==
  ASSUME TypeOK, AddressInv, pc # "idle", step > 1, NEW e, Matches(e), Of(e, step - 1)
  PROVE  step = 8
<1>1. /\ mode = "sens" \/ mode = "battery"
      /\ step \in 1 .. 10 /\ (mode = "battery" => step <= 2)
  BY AskIs DEF TypeOK
<1>2. /\ e.address = PlaceOf(step)
      /\ e.code = CodeOf(step) \/ (CodeOf(step) = "read" /\ e.code = "write")
      /\ e.code = CodeOf(step - 1) /\ e.address = PlaceOf(step - 1)
  BY CodePlace DEF Matches, Of
<1>3. CASE step = 2
  BY <1>1, <1>2, <1>3, CodeIs
<1>4. CASE step \in {3, 4, 6, 7, 10}
  BY <1>1, <1>2, <1>4, CodeIs
<1>5. CASE step \in {5, 9}
  <2>1. mode = "sens" /\ target >= 3 /\ target \in Nat
    BY <1>1, <1>5 DEF AddressInv, TypeOK
  <2>2. PlaceOf(step) = 0 /\ PlaceOf(step - 1) = target
    <3>1. CASE step = 5
      BY <2>1, <3>1, CodeIs
    <3>2. CASE step = 9
      BY <2>1, <3>2, CodeIs
    <3> QED
      BY <1>5, <3>1, <3>2
  <2>3. target = 0
    BY <1>2, <2>2
  <2>4. target # 0
    BY <2>1
  <2> QED
    BY <2>3, <2>4
<1>6. step = 2 \/ step \in {3, 4, 6, 7, 10} \/ step \in {5, 9} \/ step = 8
  BY <1>1
<1> QED
  BY <1>3, <1>4, <1>5, <1>6

\* Once the link is flushed, and it repeats nothing, the answer that is taken
\* is the exchange's own.
LEMMA OwnAnswer ==
  ASSUME TypeOK, AddressInv, LinkInv, repeats = 0, NEW ask, Taken(ask), Flushed
  PROVE  Answer.mine
<1>1. /\ pc = "wait" /\ Matches(Answer) /\ Answer = queue[1] /\ Len(queue) \in Nat \ {0}
  BY TakenLink
<1>2. SUFFICES ASSUME ~Answer.mine PROVE FALSE
  OBVIOUS
<1>3. step > 1 /\ Of(Answer, step - 1)
  BY <1>1, <1>2 DEF LinkInv, FlushInv, OthersOf, Flushed
<1>4. step = 8
  BY <1>1, <1>3, Alternates
<1>5. AllMine(queue)
  BY <1>1, <1>4 DEF LinkInv, OnceInv
<1> QED
  BY <1>1, <1>2, <1>5 DEF AllMine

\* When the answer is the exchange's own, so is all that is behind it.
LEMMA OwnRest ==
  ASSUME TypeOK, LinkInv, NEW ask, Taken(ask), Answer.mine
  PROVE  /\ AllMine(queue) /\ AllMine(radio)
         /\ \A i \in 1 .. Len(queue) : Of(queue[i], step)
         /\ \A i \in 1 .. Len(radio) : Of(radio[i], step)
<1>1. pc = "wait" /\ Answer = queue[1] /\ Len(queue) \in Nat \ {0}
  BY TakenLink
<1>2. AllMine(queue)
  <2>1. \A i \in 1 .. Len(queue) : i = 1 \/ 1 < i
    OBVIOUS
  <2> QED
    BY <1>1, <2>1 DEF LinkInv, MineInv, MineLast, AllMine
<1>3. AllMine(radio)
  BY <1>1 DEF LinkInv, MineInv, NoneMine
<1> QED
  BY <1>1, <1>2, <1>3 DEF LinkInv, MineInv, MineOf, AllMine
LEMMA LinkTaken ==
  ASSUME TypeOK, AddressInv, LinkInv, NEW ask, Taken(ask), repeats' = repeats,
         Proceed \/ Finish("failed"), target' = target \/ step = 3
  PROVE  LinkInv'
<1>1. /\ pc = "wait" /\ Matches(Answer) /\ Answer = queue[1]
      /\ Len(queue) \in Nat \ {0} /\ Len(queue') = Len(queue) - 1
      /\ Len(radio) \in Nat /\ Len(radio') = Len(radio)
      /\ NoneMine(queue') /\ NoneMine(radio')
      /\ \A i \in 1 .. Len(queue') :
           queue'[i].code = queue[i + 1].code /\ queue'[i].address = queue[i + 1].address
      /\ \A i \in 1 .. Len(radio) :
           radio'[i].code = radio[i].code /\ radio'[i].address = radio[i].address
  BY TakenLink
<1>2. /\ mode' = mode /\ runs' = runs
      /\ stale' = IF Answer.mine THEN stale ELSE stale \cup {step}
  BY DEF Taken, args
<1>3. /\ mode = "sens" \/ mode = "battery"
      /\ step \in 1 .. 10 /\ (mode = "battery" => step <= 2)
  BY AskIs DEF TypeOK
<1>4. \/ pc' = "drain" /\ step' = step + 1 /\ attempt' = 1
      \/ pc' = "idle" /\ step' = 1
  BY DEF Proceed, Finish
<1>5. /\ \A i \in 1 .. Len(queue') : i + 1 \in 1 .. Len(queue) /\ ~queue'[i].mine
      /\ \A i \in 1 .. Len(radio') : i \in 1 .. Len(radio) /\ ~radio'[i].mine
  BY <1>1 DEF NoneMine
<1>6. MineInv'
  BY <1>5 DEF MineInv, MineLast, NoneMine, MineOf
<1>7. FlushInv'
  <2> SUFFICES ASSUME pc' # "idle", Flushed' PROVE OthersOf(queue, step - 1)' /\ OthersOf(radio, step - 1)'
    BY DEF FlushInv
  <2>1. step' = step + 1
    BY <1>4
  <2>2. Answer.mine
    BY <1>2, <1>3, <2>1 DEF Flushed
  <2>3. /\ \A i \in 1 .. Len(queue) : Of(queue[i], step)
        /\ \A i \in 1 .. Len(radio) : Of(radio[i], step)
    BY <2>2, OwnRest
  <2>4. /\ \A i \in 1 .. Len(queue') :
             queue'[i].code = CodeOf(step) /\ queue'[i].address = PlaceOf(step)
        /\ \A i \in 1 .. Len(radio') :
             radio'[i].code = CodeOf(step) /\ radio'[i].address = PlaceOf(step)
    BY <1>1, <1>5, <2>3 DEF Of
  <2>5. Script[mode'][step' - 1] = Script[mode][step]
    BY <1>2, <1>3, <2>1
  <2>6. target' = target \/ Script[mode][step] = "profile"
    BY <1>3, ScriptIs
  <2> QED
    BY <2>4, <2>5, <2>6 DEF OthersOf, Of, CodeOf, PlaceOf
<1>8. OnceInv'
  <2>1. pc' # "idle" /\ step' = 7 => attempt' = 1
    BY <1>4
  <2>2. ASSUME repeats = 0, pc' # "idle", step' = 7
        PROVE  (OneMine(queue) /\ OneMine(radio) /\ (NoneMine(queue) \/ NoneMine(radio)))'
    BY <1>1, <1>5 DEF OneMine
  <2>3. ASSUME repeats = 0, pc' # "idle", step' = 8, Flushed'
        PROVE  AllMine(queue)' /\ AllMine(radio)'
    <3>1. step = 7 /\ Answer.mine
      BY <1>2, <1>3, <1>4, <2>3 DEF Flushed
    <3>2. AllMine(queue) /\ AllMine(radio)
      BY <3>1, OwnRest
    <3>3. OneMine(queue) /\ (NoneMine(queue) \/ NoneMine(radio))
      BY <1>1, <2>3, <3>1 DEF LinkInv, OnceInv
    <3>4. Len(queue) = 1
      <4>1. 1 \in 1 .. Len(queue) /\ Len(queue) \in 1 .. Len(queue)
        BY <1>1
      <4> QED
        BY <3>2, <3>3, <4>1 DEF AllMine, OneMine
    <3>5. Len(radio) = 0
      <4>1. 1 \in 1 .. Len(queue) /\ (Len(radio) # 0 => 1 \in 1 .. Len(radio))
        BY <1>1
      <4> QED
        BY <3>2, <3>3, <4>1 DEF AllMine, NoneMine
    <3> QED
      BY <1>1, <3>4, <3>5 DEF AllMine
  <2> QED
    BY <2>1, <2>2, <2>3 DEF OnceInv
<1>9. LeftInv'
  <2>1. runs # 0
    BY <1>1 DEF LinkInv, LeftInv
  <2>2. ASSUME repeats = 0, runs = 1 PROVE (LeadsOn(queue) /\ Leads(queue, radio) /\ LeadsOn(radio))'
    <3>1. LeadsOn(queue) /\ Leads(queue, radio) /\ LeadsOn(radio)
      BY <2>2, FirstRunLeads
    <3> QED
      <4>1. LeadsOn(queue)'
        <5>1. ASSUME NEW i \in 1 .. Len(queue'), NEW j \in 1 .. Len(queue'), i < j,
                     queue'[i].code = "online"
              PROVE  Early(queue[j + 1])
          <6>1. i + 1 \in 1 .. Len(queue) /\ j + 1 \in 1 .. Len(queue) /\ i + 1 < j + 1
            BY <1>5, <5>1
          <6> QED
            BY <1>1, <3>1, <5>1, <6>1 DEF LeadsOn
        <5>2. \A j \in 1 .. Len(queue') : Early(queue[j + 1]) => Early(queue'[j])
          BY <1>1 DEF Early
        <5> QED
          BY <5>1, <5>2 DEF LeadsOn
      <4>2. Leads(queue, radio)'
        <5>1. ASSUME NEW i \in 1 .. Len(queue'), NEW j \in 1 .. Len(radio'),
                     queue'[i].code = "online"
              PROVE  Early(radio'[j])
          <6>1. Early(radio[j])
            BY <1>1, <1>5, <3>1, <5>1 DEF Leads
          <6> QED
            BY <1>1, <6>1 DEF Early
        <5> QED
          BY <5>1 DEF Leads
      <4>3. LeadsOn(radio)'
        BY <1>1, <1>5, <3>1 DEF LeadsOn, Early
      <4> QED
        BY <4>1, <4>2, <4>3
  <2>3. ASSUME repeats = 0, runs <= 2, pc' # "idle", step' \in {2, 3}
        PROVE  OthersEarly(queue)' /\ OthersEarly(radio)'
    <3>1. step' = step + 1 /\ (step = 1 \/ step = 2)
      BY <1>3, <1>4, <2>3
    <3>2. /\ \A i \in 1 .. Len(queue) : i > 1 => Early(queue[i])
          /\ \A i \in 1 .. Len(radio) : Early(radio[i])
      <4>1. CASE step = 1
        <5>1. Answer.code = "online"
          BY <1>1, <1>3, <4>1, CodePlace, CodeIs DEF Matches
        <5> QED
          BY <1>1, <2>3, <4>1, <5>1 DEF LinkInv, LeftInv, LeadsOn, Leads
      <4>2. CASE step = 2
        <5>1. /\ OthersEarly(queue) /\ OthersEarly(radio)
              /\ MineOf(queue, 2) /\ MineOf(radio, 2)
          BY <1>1, <2>3, <4>2 DEF LinkInv, LeftInv, MineInv
        <5>2. \A e : Of(e, 2) => Early(e)
          BY <1>3, CodeIs DEF Of, Early
        <5> QED
          BY <5>1, <5>2 DEF OthersEarly, MineOf
      <4> QED
        BY <3>1, <4>1, <4>2
    <3> QED
      <4>1. \A i \in 1 .. Len(queue') : Early(queue'[i])
        <5>1. \A i \in 1 .. Len(queue') : i + 1 > 1 /\ i + 1 \in 1 .. Len(queue)
          BY <1>1
        <5>2. \A i \in 1 .. Len(queue') : Early(queue[i + 1])
          BY <3>2, <5>1
        <5> QED
          BY <1>1, <5>2 DEF Early
      <4>2. \A i \in 1 .. Len(radio') : Early(radio'[i])
        BY <1>1, <3>2 DEF Early
      <4> QED
        BY <4>1, <4>2 DEF OthersEarly, Early
  <2> QED
    BY <1>2, <1>3, <1>4, <2>1, <2>2, <2>3 DEF LeftInv
<1>10. FreshInv'
  <2>1. pc' # "idle" => \A k \in stale' : k < step'
    BY <1>1, <1>2, <1>3, <1>4 DEF LinkInv, FreshInv, TypeOK
  <2>2. ASSUME repeats = 0, ~Answer.mine, step > 1 PROVE stale # {}
    BY <2>2, OwnAnswer DEF Flushed
  <2>3. ASSUME repeats = 0, ~Answer.mine PROVE runs > 1
    <3>1. runs # 0
      BY <1>1 DEF LinkInv, LeftInv
    <3>2. runs = 1 /\ step = 1 => AllMine(queue)
      BY <1>1 DEF LinkInv, LeftInv
    <3>3. runs = 1 /\ step = 1 => Answer.mine
      BY <1>1, <3>2 DEF AllMine
    <3>4. runs = 1 => stale = {}
      BY <2>3 DEF LinkInv, FreshInv
    <3>5. runs \in Nat
      BY DEF TypeOK
    <3>6. runs # 1
      BY <1>3, <2>2, <2>3, <3>3, <3>4
    <3> QED
      BY <3>1, <3>5, <3>6
  <2>4. ASSUME repeats = 0, ~Answer.mine, runs <= 2 PROVE step \in {1, 2}
    <3>1. step # 3
      <4> SUFFICES ASSUME step = 3 PROVE FALSE
        OBVIOUS
      <4>1. OthersEarly(queue)
        BY <1>1, <2>4 DEF LinkInv, LeftInv
      <4>2. Early(Answer)
        BY <1>1, <2>4, <4>1 DEF OthersEarly
      <4>3. Answer.code = "profile"
        BY <1>1, <1>3, CodePlace, CodeIs DEF Matches
      <4> QED
        BY <4>2, <4>3 DEF Early
    <3>2. step > 3 => Flushed
      BY <1>3, <2>4 DEF LinkInv, FreshInv, Flushed
    <3>3. ~(step > 3)
      BY <2>4, <3>2, OwnAnswer
    <3> QED
      BY <1>3, <3>1, <3>3
  <2> QED
    BY <1>2, <1>3, <2>1, <2>2, <2>3, <2>4 DEF LinkInv, FreshInv, TypeOK
<1> QED
  BY <1>6, <1>7, <1>8, <1>9, <1>10 DEF LinkInv
\* t is s without its first d; t is s and what is like r behind it.
Dropped(s, t, d) ==
  /\ d \in Nat /\ Len(s) \in Nat /\ Len(t) = Len(s) - d
  /\ \A i \in 1 .. Len(t) : t[i] = s[i + d]
Added(s, t, r) ==
  /\ Len(s) \in Nat /\ Len(t) = Len(s) + 1
  /\ \A i \in 1 .. Len(s) : t[i] = s[i]
  /\ t[Len(s) + 1].code = r.code /\ t[Len(s) + 1].address = r.address
  /\ t[Len(s) + 1].mine = r.mine

\* Dropping the oldest of a sequence keeps what is said of it ...
LEMMA DropKeeps ==
  ASSUME NEW s, NEW t, NEW d, Dropped(s, t, d)
  PROVE  /\ NoneMine(s) => NoneMine(t)
         /\ AllMine(s) => AllMine(t)
         /\ OneMine(s) => OneMine(t)
         /\ MineLast(s) => MineLast(t)
         /\ LeadsOn(s) => LeadsOn(t)
         /\ OthersEarly(s) => OthersEarly(t)
         /\ \A k : (MineOf(s, k) => MineOf(t, k)) /\ (OthersOf(s, k) => OthersOf(t, k))
         /\ \A u : (Leads(s, u) => Leads(t, u)) /\ (Leads(u, s) => Leads(u, t))
<1> USE DEF Dropped
<1>1. \A i \in 1 .. Len(t) : i + d \in 1 .. Len(s) /\ t[i] = s[i + d]
  OBVIOUS
<1>2. ASSUME NEW i \in 1 .. Len(t), NEW j \in 1 .. Len(t)
      PROVE  /\ OneMine(s) /\ t[i].mine /\ t[j].mine => i = j
             /\ MineLast(s) /\ i < j /\ t[i].mine => t[j].mine
             /\ LeadsOn(s) /\ i < j /\ t[i].code = "online" => Early(t[j])
  <2>1. /\ i + d \in 1 .. Len(s) /\ t[i] = s[i + d]
        /\ j + d \in 1 .. Len(s) /\ t[j] = s[j + d]
        /\ i < j => i + d < j + d
        /\ i + d = j + d => i = j
    BY <1>1
  <2> QED
    BY <2>1 DEF OneMine, MineLast, LeadsOn
<1>3. OneMine(s) => OneMine(t)
  BY <1>2 DEF OneMine
<1>4. MineLast(s) => MineLast(t)
  BY <1>2 DEF MineLast
<1>5. LeadsOn(s) => LeadsOn(t)
  BY <1>2 DEF LeadsOn
<1>6. (NoneMine(s) => NoneMine(t)) /\ (AllMine(s) => AllMine(t))
  BY <1>1 DEF NoneMine, AllMine
<1>7. OthersEarly(s) => OthersEarly(t)
  BY <1>1 DEF OthersEarly
<1>8. ASSUME NEW k PROVE (MineOf(s, k) => MineOf(t, k)) /\ (OthersOf(s, k) => OthersOf(t, k))
  BY <1>1 DEF MineOf, OthersOf
<1>9. ASSUME NEW u PROVE (Leads(s, u) => Leads(t, u)) /\ (Leads(u, s) => Leads(u, t))
  BY <1>1 DEF Leads
<1> QED
  BY <1>3, <1>4, <1>5, <1>6, <1>7, <1>8, <1>9

\* ... and so does adding r at its end, under a condition on r.
LEMMA AddKeeps ==
  ASSUME NEW s, NEW t, NEW r, Added(s, t, r)
  PROVE  /\ NoneMine(s) /\ ~r.mine => NoneMine(t)
         /\ AllMine(s) /\ r.mine => AllMine(t)
         /\ OneMine(s) /\ (~r.mine \/ NoneMine(s)) => OneMine(t)
         /\ MineLast(s) /\ (r.mine \/ NoneMine(s)) => MineLast(t)
         /\ LeadsOn(s) /\ (Early(r) \/ \A i \in 1 .. Len(s) : s[i].code # "online") => LeadsOn(t)
         /\ OthersEarly(s) /\ (r.mine \/ Early(r)) => OthersEarly(t)
<1> USE DEF Added
<1>1. \A i \in 1 .. Len(t) :
        \/ i \in 1 .. Len(s) /\ t[i] = s[i]
        \/ /\ i = Len(s) + 1
           /\ t[i].code = r.code /\ t[i].address = r.address /\ t[i].mine = r.mine
  OBVIOUS
<1>2. ASSUME NEW i \in 1 .. Len(t), NEW j \in 1 .. Len(t), i < j
      PROVE  i \in 1 .. Len(s) /\ t[i] = s[i]
  BY <1>2
<1>3. NoneMine(s) /\ ~r.mine => NoneMine(t)
  BY <1>1 DEF NoneMine
<1>4. AllMine(s) /\ r.mine => AllMine(t)
  BY <1>1 DEF AllMine
<1>5. OneMine(s) /\ (~r.mine \/ NoneMine(s)) => OneMine(t)
  BY <1>1 DEF OneMine, NoneMine
<1>6. MineLast(s) /\ (r.mine \/ NoneMine(s)) => MineLast(t)
  BY <1>1, <1>2 DEF MineLast, NoneMine
<1>7. LeadsOn(s) /\ (Early(r) \/ \A i \in 1 .. Len(s) : s[i].code # "online") => LeadsOn(t)
  BY <1>1, <1>2 DEF LeadsOn, Early
<1>8. OthersEarly(s) /\ (r.mine \/ Early(r)) => OthersEarly(t)
  BY <1>1 DEF OthersEarly, Early
<1> QED
  BY <1>3, <1>4, <1>5, <1>6, <1>7, <1>8

LEMMA AddKeepsOf ==
  ASSUME NEW s, NEW t, NEW r, Added(s, t, r), NEW k
  PROVE  /\ MineOf(s, k) /\ (~r.mine \/ Of(r, k)) => MineOf(t, k)
         /\ OthersOf(s, k) /\ (r.mine \/ Of(r, k)) => OthersOf(t, k)
<1>1. \A i \in 1 .. Len(t) :
        \/ i \in 1 .. Len(s) /\ t[i] = s[i]
        \/ /\ i = Len(s) + 1
           /\ t[i].code = r.code /\ t[i].address = r.address /\ t[i].mine = r.mine
  BY DEF Added
<1>2. MineOf(s, k) /\ (~r.mine \/ Of(r, k)) => MineOf(t, k)
  BY <1>1 DEF MineOf, Of
<1>3. OthersOf(s, k) /\ (r.mine \/ Of(r, k)) => OthersOf(t, k)
  BY <1>1 DEF OthersOf, Of
<1> QED
  BY <1>2, <1>3

LEMMA AddKeepsLeads ==
  ASSUME NEW s, NEW t, NEW r, Added(s, t, r), NEW u
  PROVE  /\ Leads(s, u) /\ (r.code # "online" \/ \A j \in 1 .. Len(u) : Early(u[j])) => Leads(t, u)
         /\ Leads(u, s) /\ Early(r) => Leads(u, t)
<1>1. \A i \in 1 .. Len(t) :
        \/ i \in 1 .. Len(s) /\ t[i] = s[i]
        \/ /\ i = Len(s) + 1
           /\ t[i].code = r.code /\ t[i].address = r.address /\ t[i].mine = r.mine
  BY DEF Added
<1>2. Leads(s, u) /\ (r.code # "online" \/ \A j \in 1 .. Len(u) : Early(u[j])) => Leads(t, u)
  BY <1>1 DEF Leads
<1>3. Leads(u, s) /\ Early(r) => Leads(u, t)
  BY <1>1 DEF Leads, Early
<1> QED
  BY <1>2, <1>3

\* What a step keeps that neither begins nor ends an exchange.
Steady ==
  /\ mode' = mode /\ target' = target /\ step' = step /\ stale' = stale /\ runs' = runs
  /\ pc' # "idle" <=> pc # "idle"
  /\ pc' \in {"drain", "send"} /\ attempt' = 1 => pc \in {"drain", "send"} /\ attempt = 1
  /\ pc # "idle" /\ step = 7 => attempt' = 1

LEMMA SteadyIs ==
  ASSUME Steady
  PROVE  /\ Flushed' => Flushed
         /\ MineOf(queue', step) => MineOf(queue, step)'
         /\ MineOf(radio', step) => MineOf(radio, step)'
         /\ OthersOf(queue', step - 1) => OthersOf(queue, step - 1)'
         /\ OthersOf(radio', step - 1) => OthersOf(radio, step - 1)'
<1> USE DEF Steady
<1>1. Flushed' => Flushed
  BY DEF Flushed
<1>2. MineOf(queue', step) => MineOf(queue, step)'
  BY DEF MineOf, Of, CodeOf, PlaceOf
<1>3. MineOf(radio', step) => MineOf(radio, step)'
  BY DEF MineOf, Of, CodeOf, PlaceOf
<1>4. OthersOf(queue', step - 1) => OthersOf(queue, step - 1)'
  BY DEF OthersOf, Of, CodeOf, PlaceOf
<1>5. OthersOf(radio', step - 1) => OthersOf(radio, step - 1)'
  BY DEF OthersOf, Of, CodeOf, PlaceOf
<1> QED
  BY <1>1, <1>2, <1>3, <1>4, <1>5

LEMMA AppendAny ==
  ASSUME NEW S, NEW s \in Seq(S), NEW e
  PROVE  /\ Len(Append(s, e)) = Len(s) + 1
         /\ \A i \in 1 .. Len(s) : Append(s, e)[i] = s[i]
         /\ Append(s, e)[Len(s) + 1] = e
<1>1. s \in Seq(S \cup {e})
  <2>1. Len(s) \in Nat /\ s \in [1 .. Len(s) -> S]
    BY LenProperties
  <2>2. s \in [1 .. Len(s) -> S \cup {e}]
    BY <2>1
  <2> QED
    BY <2>1, <2>2, SeqDef
<1> QED
  BY <1>1, AppendProperties

\* A step within an exchange may drop the oldest that is under way.
LEMMA LinkDrops ==
  ASSUME TypeOK, LinkInv, Steady, repeats' = 0 => repeats = 0,
         NEW d, Dropped(queue, queue', d), NEW e, Dropped(radio, radio', e),
         queue = <<>> => queue' = <<>>, radio = <<>> => radio' = <<>>
  PROVE  LinkInv'
<1>1. /\ NoneMine(queue) => NoneMine(queue)'
      /\ AllMine(queue) => AllMine(queue)'
      /\ OneMine(queue) => OneMine(queue)'
      /\ MineLast(queue) => MineLast(queue)'
      /\ LeadsOn(queue) => LeadsOn(queue)'
      /\ OthersEarly(queue) => OthersEarly(queue)'
      /\ MineOf(queue, step) => MineOf(queue', step)
      /\ OthersOf(queue, step - 1) => OthersOf(queue', step - 1)
      /\ Leads(queue, radio) => Leads(queue', radio)
  BY DropKeeps
<1>2. /\ NoneMine(radio) => NoneMine(radio)'
      /\ AllMine(radio) => AllMine(radio)'
      /\ OneMine(radio) => OneMine(radio)'
      /\ MineLast(radio) => MineLast(radio)'
      /\ LeadsOn(radio) => LeadsOn(radio)'
      /\ OthersEarly(radio) => OthersEarly(radio)'
      /\ MineOf(radio, step) => MineOf(radio', step)
      /\ OthersOf(radio, step - 1) => OthersOf(radio', step - 1)
      /\ Leads(queue', radio) => Leads(queue, radio)'
  BY DropKeeps
<1>3. MineInv'
  BY <1>1, <1>2, SteadyIs DEF LinkInv, MineInv, Steady
<1>4. FlushInv'
  BY <1>1, <1>2, SteadyIs DEF LinkInv, FlushInv, Steady
<1>5. OnceInv'
  BY <1>1, <1>2, SteadyIs DEF LinkInv, OnceInv, Steady
<1>6. LeftInv'
  BY <1>1, <1>2 DEF LinkInv, LeftInv, Steady
<1>7. FreshInv'
  BY DEF LinkInv, FreshInv, Steady
<1> QED
  BY <1>3, <1>4, <1>5, <1>6, <1>7 DEF LinkInv

\* The exchange sends its request.
LEMMA LinkSend ==
  ASSUME TypeOK, LinkInv, pc = "send", pc' = "wait", Steady, repeats' = repeats, queue' = queue,
         NEW r, r.code = Code, r.address = Place, r.mine = TRUE,
         radio' = Append(radio, r)
  PROVE  LinkInv'
<1>0. Added(radio, radio', r)
  BY InSeq, AppendAny DEF TypeOK, Added
<1>1. Of(r, step)
  BY CodePlace DEF Of
<1>2. /\ AllMine(radio) => AllMine(radio)'
      /\ OneMine(radio) /\ NoneMine(radio) => OneMine(radio)'
      /\ MineLast(radio) => MineLast(radio)'
      /\ LeadsOn(radio) /\ Early(r) => LeadsOn(radio)'
      /\ OthersEarly(radio) => OthersEarly(radio)'
      /\ MineOf(radio, step) => MineOf(radio', step)
      /\ OthersOf(radio, step - 1) => OthersOf(radio', step - 1)
      /\ Leads(queue, radio) /\ Early(r) => Leads(queue, radio)'
  <2>1. /\ AllMine(radio) => AllMine(radio)'
        /\ OneMine(radio) /\ NoneMine(radio) => OneMine(radio)'
        /\ MineLast(radio) => MineLast(radio)'
        /\ OthersEarly(radio) => OthersEarly(radio)'
    BY <1>0, AddKeeps
  <2>2. LeadsOn(radio) /\ Early(r) => LeadsOn(radio)'
    BY <1>0, AddKeeps
  <2>3. MineOf(radio, step) => MineOf(radio', step)
    BY <1>0, <1>1, AddKeepsOf
  <2>4. OthersOf(radio, step - 1) => OthersOf(radio', step - 1)
    BY <1>0, AddKeepsOf
  <2>5. Leads(queue, radio) /\ Early(r) => Leads(queue, radio)'
    BY <1>0, AddKeepsLeads
  <2> QED
    BY <2>1, <2>2, <2>3, <2>4, <2>5
<1>3. MineInv'
  BY <1>2, SteadyIs DEF LinkInv, MineInv, Steady
<1>4. FlushInv'
  BY <1>2, SteadyIs DEF LinkInv, FlushInv, Steady
<1>5. OnceInv'
  BY <1>2, SteadyIs DEF LinkInv, OnceInv, MineInv, Steady
<1>6. LeftInv'
  <2>1. step = 1 => Early(r)
    BY CodePlace, CodeIs DEF TypeOK, Early
  <2> QED
    BY <1>2, <2>1 DEF LinkInv, LeftInv, Steady
<1>7. FreshInv'
  BY DEF LinkInv, FreshInv, Steady
<1> QED
  BY <1>3, <1>4, <1>5, <1>6, <1>7 DEF LinkInv

\* The mouse answers the oldest request.
LEMMA LinkAnswered ==
  ASSUME TypeOK, LinkInv, Steady, UNCHANGED pc, UNCHANGED attempt, radio # <<>>,
         NEW r, r.code = Head(radio).code, r.address = Head(radio).address,
         r.mine = Head(radio).mine,
         queue' = Append(queue, r),
         \/ radio' = Tail(radio) /\ repeats' = repeats
         \/ radio' = radio /\ repeats' # 0
  PROVE  LinkInv'
<1>0. /\ Len(queue) \in Nat /\ Len(radio) \in Nat \ {0} /\ Head(radio) = radio[1]
      /\ 1 \in 1 .. Len(radio)
  BY InSeq, TailIs DEF TypeOK
<1>11. Added(queue, queue', r)
  BY InSeq, AppendAny DEF TypeOK, Added
<1>1. /\ r.mine => AllMine(radio)
      /\ ~r.mine => NoneMine(queue)
  <2>1. \A i \in 1 .. Len(radio) : i = 1 \/ 1 < i
    OBVIOUS
  <2>2. r.mine => AllMine(radio)
    BY <1>0, <2>1 DEF LinkInv, MineInv, MineLast, AllMine
  <2>3. ~r.mine => NoneMine(queue)
    BY <1>0 DEF LinkInv, MineInv, AllMine
  <2> QED
    BY <2>2, <2>3
<1>2. /\ NoneMine(radio) => ~r.mine
      /\ AllMine(radio) => r.mine
      /\ OthersEarly(radio) => r.mine \/ Early(r)
      /\ MineOf(radio, step) => (r.mine => Of(r, step))
      /\ OthersOf(radio, step - 1) => r.mine \/ Of(r, step - 1)
  BY <1>0 DEF NoneMine, AllMine, OthersEarly, Early, MineOf, OthersOf, Of
<1>3. /\ NoneMine(queue) /\ ~r.mine => NoneMine(queue)'
      /\ AllMine(queue) /\ r.mine => AllMine(queue)'
      /\ OneMine(queue) /\ (~r.mine \/ NoneMine(queue)) => OneMine(queue)'
      /\ MineLast(queue) => MineLast(queue)'
      /\ OthersEarly(queue) /\ OthersEarly(radio) => OthersEarly(queue)'
      /\ MineOf(queue, step) /\ MineOf(radio, step) => MineOf(queue', step)
      /\ OthersOf(queue, step - 1) /\ OthersOf(radio, step - 1) => OthersOf(queue', step - 1)
  <2>1. /\ NoneMine(queue) /\ ~r.mine => NoneMine(queue)'
        /\ AllMine(queue) /\ r.mine => AllMine(queue)'
        /\ OneMine(queue) /\ (~r.mine \/ NoneMine(queue)) => OneMine(queue)'
    BY <1>11, AddKeeps
  <2>2. MineLast(queue) => MineLast(queue)'
    BY <1>1, <1>11, AddKeeps
  <2>3. OthersEarly(queue) /\ OthersEarly(radio) => OthersEarly(queue)'
    BY <1>2, <1>11, AddKeeps
  <2>4. MineOf(queue, step) /\ MineOf(radio, step) => MineOf(queue', step)
    BY <1>2, <1>11, AddKeepsOf
  <2>5. OthersOf(queue, step - 1) /\ OthersOf(radio, step - 1) => OthersOf(queue', step - 1)
    BY <1>2, <1>11, AddKeepsOf
  <2> QED
    BY <2>1, <2>2, <2>3, <2>4, <2>5
<1>4. PICK d \in {0, 1} :
        /\ Len(radio') = Len(radio) - d
        /\ \A i \in 1 .. Len(radio') : radio'[i] = radio[i + d]
        /\ repeats' = 0 => repeats = 0 /\ d = 1
  <2>1. CASE radio' = Tail(radio) /\ repeats' = repeats
    <3>1. /\ Len(radio') = Len(radio) - 1
          /\ \A i \in 1 .. Len(radio') : radio'[i] = radio[i + 1]
      BY <2>1, TailIs DEF TypeOK
    <3> WITNESS 1 \in {0, 1}
    <3> QED
      BY <2>1, <3>1
  <2>2. CASE radio' = radio /\ repeats' # 0
    <3>1. Len(radio') = Len(radio) - 0 /\ \A i \in 1 .. Len(radio') : radio'[i] = radio[i + 0]
      BY <1>0, <2>2
    <3> WITNESS 0 \in {0, 1}
    <3> QED
      BY <2>2, <3>1
  <2> QED
    BY <2>1, <2>2
<1>12. Dropped(radio, radio', d)
  BY <1>0, <1>4 DEF Dropped
<1>5. /\ NoneMine(radio) => NoneMine(radio)'
      /\ AllMine(radio) => AllMine(radio)'
      /\ OneMine(radio) => OneMine(radio)'
      /\ MineLast(radio) => MineLast(radio)'
      /\ LeadsOn(radio) => LeadsOn(radio)'
      /\ OthersEarly(radio) => OthersEarly(radio)'
      /\ MineOf(radio, step) => MineOf(radio', step)
      /\ OthersOf(radio, step - 1) => OthersOf(radio', step - 1)
      /\ Leads(queue', radio) => Leads(queue, radio)'
      /\ Leads(queue, radio) => Leads(queue, radio')
  BY <1>12, DropKeeps
<1>6. MineInv'
  <2>1. NoneMine(queue)' \/ AllMine(radio)'
    BY <1>1, <1>3, <1>5
  <2> QED
    BY <1>2, <1>3, <1>5, <2>1, SteadyIs DEF LinkInv, MineInv, Steady
<1>7. FlushInv'
  BY <1>3, <1>5, SteadyIs DEF LinkInv, FlushInv, Steady
<1>8. OnceInv'
  <2>1. ASSUME d = 1, OneMine(radio), r.mine PROVE NoneMine(radio)'
    <3>1. \A i \in 1 .. Len(radio') : i + 1 \in 1 .. Len(radio) /\ i + 1 # 1
      BY <1>0, <1>4, <2>1
    <3> QED
      BY <1>0, <1>4, <2>1, <3>1 DEF OneMine, NoneMine
  <2> QED
    BY <1>2, <1>3, <1>4, <1>5, <2>1, SteadyIs DEF LinkInv, OnceInv, Steady
<1>9. LeftInv'
  <2>1. ASSUME repeats' = 0, LeadsOn(queue), Leads(queue, radio), LeadsOn(radio)
        PROVE  (LeadsOn(queue) /\ Leads(queue, radio) /\ LeadsOn(radio))'
    <3>1. Early(r) \/ \A i \in 1 .. Len(queue) : queue[i].code # "online"
      BY <1>0, <2>1 DEF Leads, Early
    <3>2. \A j \in 1 .. Len(radio') : j + 1 \in 1 .. Len(radio) /\ 1 < j + 1
      BY <1>0, <1>4, <2>1
    <3>3. r.code = "online" => \A j \in 1 .. Len(radio') : Early(radio'[j])
      BY <1>0, <1>4, <2>1, <3>2 DEF LeadsOn
    <3>4. LeadsOn(queue)'
      BY <1>11, <2>1, <3>1, AddKeeps
    <3>5. Leads(queue', radio')
      <4>1. Leads(queue, radio')
        BY <1>5, <2>1
      <4> QED
        BY <1>11, <3>3, <4>1, AddKeepsLeads
    <3> QED
      BY <1>5, <2>1, <3>4, <3>5
  <2> QED
    BY <1>2, <1>3, <1>4, <1>5, <2>1 DEF LinkInv, LeftInv, Steady
<1>10. FreshInv'
  BY <1>4 DEF LinkInv, FreshInv, Steady
<1> QED
  BY <1>6, <1>7, <1>8, <1>9, <1>10 DEF LinkInv
\* The run ends without an answer.
LEMMA LinkFinish ==
  ASSUME TypeOK, LinkInv, pc # "idle", pc' = "idle",
         UNCHANGED <<queue, radio, stale, runs, repeats>>
  PROVE  LinkInv'
<1>1. MineInv' /\ FlushInv' /\ OnceInv'
  BY DEF LinkInv, MineInv, MineLast, NoneMine, AllMine, FlushInv, OnceInv
<1>2. LeftInv'
  <2>1. runs # 0
    BY DEF LinkInv, LeftInv
  <2>2. repeats = 0 /\ runs = 1 => LeadsOn(queue) /\ Leads(queue, radio) /\ LeadsOn(radio)
    BY FirstRunLeads
  <2> QED
    BY <2>1, <2>2 DEF LeftInv, LeadsOn, Leads, Early
<1>3. FreshInv'
  BY DEF LinkInv, FreshInv
<1> QED
  BY <1>1, <1>2, <1>3 DEF LinkInv

LEMMA LinkStart ==
  ASSUME TypeOK, LinkInv, Start
  PROVE  LinkInv'
<1>1. /\ Len(queue) \in Nat /\ Len(queue') = Len(queue)
      /\ Len(radio) \in Nat /\ Len(radio') = Len(radio)
      /\ \A i \in 1 .. Len(queue) : /\ ~queue'[i].mine
                                   /\ queue'[i].code = queue[i].code
                                   /\ queue'[i].address = queue[i].address
      /\ \A i \in 1 .. Len(radio) : /\ ~radio'[i].mine
                                   /\ radio'[i].code = radio[i].code
                                   /\ radio'[i].address = radio[i].address
  BY InSeq, DisownIs DEF Start, TypeOK
<1>2. /\ pc = "idle" /\ pc' = "drain" /\ step' = 1 /\ attempt' = 1
      /\ runs' = runs + 1 /\ repeats' = repeats /\ stale' = {} /\ runs \in Nat
  BY DEF Start, TypeOK
<1>3. NoneMine(queue)' /\ NoneMine(radio)'
  BY <1>1 DEF NoneMine
<1>4. MineInv'
  BY <1>3 DEF MineInv, MineLast, NoneMine, MineOf
<1>5. FlushInv' /\ OnceInv' /\ FreshInv'
  BY <1>2 DEF FlushInv, Flushed, OnceInv, FreshInv
<1>6. LeftInv'
  <2>1. runs = 0 => Len(queue) = 0 /\ Len(radio) = 0
    BY <1>1 DEF LinkInv, LeftInv
  <2>2. runs = 0 => AllMine(queue)' /\ AllMine(radio)'
    BY <1>1, <2>1 DEF AllMine
  <2>3. runs = 1 /\ repeats = 0 => LeadsOn(queue) /\ Leads(queue, radio) /\ LeadsOn(radio)
    BY <1>2 DEF LinkInv, LeftInv
  <2>4. LeadsOn(queue) /\ Leads(queue, radio) /\ LeadsOn(radio) =>
          (LeadsOn(queue) /\ Leads(queue, radio) /\ LeadsOn(radio))'
    <3>1. LeadsOn(queue) => LeadsOn(queue)'
      BY <1>1 DEF LeadsOn, Early
    <3>2. LeadsOn(radio) => LeadsOn(radio)'
      BY <1>1 DEF LeadsOn, Early
    <3>3. Leads(queue, radio) => Leads(queue, radio)'
      BY <1>1 DEF Leads, Early
    <3> QED
      BY <3>1, <3>2, <3>3
  <2>5. runs = 0 => LeadsOn(queue) /\ Leads(queue, radio) /\ LeadsOn(radio)
    BY <1>1, <2>1 DEF LeadsOn, Leads
  <2>6. (runs' = 1 => runs = 0) /\ (runs' <= 2 => runs = 0 \/ runs = 1) /\ runs' # 0
    BY <1>2
  <2> QED
    BY <1>2, <2>2, <2>3, <2>4, <2>5, <2>6 DEF LeftInv
<1> QED
  BY <1>4, <1>5, <1>6 DEF LinkInv

LEMMA LinkStep == TypeOK /\ AddressInv /\ LinkInv /\ [Next]_vars => LinkInv'
<1> SUFFICES ASSUME TypeOK, AddressInv, LinkInv, [Next]_vars PROVE LinkInv'
  OBVIOUS
<1> USE DEF mouse, link, args, seen, ghosts
<1>0. /\ queue \in Seq(Replies) /\ Len(queue) \in Nat
      /\ radio \in Seq(Requests) /\ Len(radio) \in Nat
      /\ Dropped(queue, queue, 0) /\ Dropped(radio, radio, 0)
  BY InSeq DEF TypeOK, Dropped
<1>1. CASE Start
  BY <1>1, LinkStart
<1>2. CASE Drain
  <2>1. Dropped(queue, queue', Len(queue)) /\ Dropped(radio, radio', 0)
    BY <1>0, <1>2 DEF Drain, Dropped
  <2>2. Steady /\ repeats' = repeats /\ radio' = radio /\ queue' = <<>>
    BY <1>2 DEF Drain, Steady, LinkInv, OnceInv
  <2> QED
    BY <2>1, <2>2, LinkDrops
<1>3. CASE Send
  <2>1. Steady /\ repeats' = repeats /\ queue' = queue /\ pc = "send" /\ pc' = "wait"
    BY <1>3 DEF Send, Steady, LinkInv, OnceInv
  <2>2. CASE radio' = radio
    BY <1>0, <2>1, <2>2, LinkDrops
  <2>3. CASE radio' = Append(radio, [code |-> Code, address |-> Place, word |-> want, mine |-> TRUE])
    <3> DEFINE r == [code |-> Code, address |-> Place, word |-> want, mine |-> TRUE]
    <3>1. r.code = Code /\ r.address = Place /\ r.mine = TRUE
      OBVIOUS
    <3> HIDE DEF r
    <3> QED
      BY <2>1, <2>3, <3>1, LinkSend DEF r
  <2> QED
    BY <1>3, <2>2, <2>3 DEF Send
<1>4. CASE Ignore
  <2>1. Dropped(queue, queue', 1) /\ Dropped(radio, radio', 0)
    BY <1>0, <1>4, TailIs DEF Ignore, Dropped
  <2>2. Steady /\ repeats' = repeats /\ radio' = radio /\ queue # <<>>
    BY <1>4 DEF Ignore, Steady, LinkInv, OnceInv
  <2> QED
    BY <2>1, <2>2, LinkDrops
<1>5. CASE Take
  <2>1. \E ask : Taken(ask)
    BY <1>5 DEF Take, TakeOnline, TakeBattery, TakeConfig, TakeProfile, TakeWord, TakeEcho
  <2>2. Proceed \/ Finish("failed")
    BY <1>5 DEF Take, TakeOnline, TakeBattery, TakeConfig, TakeProfile, TakeWord, TakeEcho
  <2>3. target' = target \/ step = 3
    BY <1>5 DEF Take, TakeOnline, TakeBattery, TakeConfig, TakeProfile, TakeWord, TakeEcho
  <2>4. repeats' = repeats
    BY <2>1 DEF Taken
  <2> QED
    BY <2>1, <2>2, <2>3, <2>4, LinkTaken
<1>6. CASE Timeout /\ attempt < Attempts
  <2>1. step # 7
    <3>1. Ask = "write" <=> step = 7
      BY AskIs DEF TypeOK
    <3> QED
      BY <1>6, <3>1 DEF Attempts, TypeOK
  <2>2. pc # "idle" /\ pc' = "drain" /\ attempt' # 1
    BY <1>6 DEF Timeout, TypeOK
  <2>3. Steady /\ repeats' = repeats /\ radio' = radio /\ queue' = queue
    BY <1>6, <2>1, <2>2 DEF Timeout, Steady
  <2> QED
    BY <1>0, <2>3, LinkDrops
<1>7. CASE (Timeout /\ ~(attempt < Attempts)) \/ ExchangeFails \/ Killed
  <2>1. pc # "idle" /\ pc' = "idle" /\ UNCHANGED <<queue, radio, stale, runs, repeats>>
    BY <1>7 DEF Timeout, ExchangeFails, Killed, Finish
  <2> QED
    BY <2>1, LinkFinish
<1>8. CASE Serve
  <2>1. /\ Steady /\ UNCHANGED pc /\ UNCHANGED attempt /\ radio # <<>>
    BY <1>8 DEF Serve, Steady, LinkInv, OnceInv
  <2>2. \/ radio' = Tail(radio) /\ repeats' = repeats
        \/ radio' = radio /\ repeats' # 0
    BY <1>8 DEF Serve, TypeOK
  <2>3. CASE queue' = queue
    <3>1. repeats' = 0 => repeats = 0
      BY <2>2, <1>8 DEF Serve, TypeOK
    <3>2. CASE radio' = radio
      BY <1>0, <2>1, <2>3, <3>1, <3>2, LinkDrops
    <3>3. CASE radio' = Tail(radio)
      <4>1. Dropped(radio, radio', 1)
        BY <1>0, <2>1, <3>3, TailIs DEF Dropped
      <4> QED
        BY <1>0, <2>1, <2>3, <3>1, <4>1, LinkDrops
    <3> QED
      BY <2>2, <3>2, <3>3
  <2>4. CASE \E r : /\ r.code = Head(radio).code /\ r.address = Head(radio).address
                    /\ r.mine = Head(radio).mine /\ queue' = Append(queue, r)
    BY <2>1, <2>2, <2>4, LinkAnswered
  <2>5. \/ queue' = queue
        \/ \E r : /\ r.code = Head(radio).code /\ r.address = Head(radio).address
                  /\ r.mine = Head(radio).mine /\ queue' = Append(queue, r)
    BY <1>8 DEF Serve
  <2> QED
    BY <2>3, <2>4, <2>5
<1>9. CASE Lose
  <2>1. Dropped(queue, queue', 0) /\ Dropped(radio, radio', 1)
    BY <1>0, <1>9, TailIs DEF Lose, Dropped
  <2>2. Steady /\ repeats' = repeats /\ queue' = queue /\ radio # <<>>
    BY <1>9 DEF Lose, Steady, LinkInv, OnceInv
  <2> QED
    BY <2>1, <2>2, LinkDrops
<1>10. CASE Change \/ UNCHANGED vars
  <2>1. Steady /\ repeats' = repeats /\ queue' = queue /\ radio' = radio
    BY <1>10 DEF Change, vars, Steady, LinkInv, OnceInv
  <2> QED
    BY <1>0, <2>1, LinkDrops
<1> QED
  BY <1>1, <1>2, <1>3, <1>4, <1>5, <1>6, <1>7, <1>8, <1>9, <1>10 DEF Next, Run
-----------------------------------------------------------------------------
(* The readings and the one change. *)

\* What a step keeps that takes no reading.
SameRun ==
  UNCHANGED <<active, changes, mode, step, want, override, target, first, now,
              firstAt, checkAt, stale>>

LEMMA PlacedKeeps ==
  ASSUME SameRun, NEW old, NEW l2, NEW l8, Placed(old, l2, l8),
         Ordered(old)', Current => Current',
         mode = "sens" /\ step > 8 /\ stale \subseteq {1, 2} => regs' = regs
  PROVE  Placed(old, l2, l8)'
<1>1. \A l : ReadAt(l, old) => ReadAt(l, old)'
  BY DEF SameRun, ReadAt
<1> QED
  BY <1>1 DEF SameRun, Placed

\* From the readback on, nothing that is under way writes.
LEMMA NoWriteLeft ==
  ASSUME TypeOK, LinkInv, pc # "idle", mode = "sens", step > 8, stale \subseteq {1, 2}
  PROVE  \A i \in 1 .. Len(radio) : radio[i].code # "write"
<1>1. step \in {9, 10}
  BY AskIs DEF TypeOK
<1>2. CodeOf(step) # "write" /\ CodeOf(step - 1) # "write"
  BY <1>1, CodeIs
<1>3. OthersOf(radio, step - 1) /\ MineOf(radio, step)
  BY <1>1 DEF LinkInv, MineInv, FlushInv, Flushed
<1> QED
  BY <1>2, <1>3 DEF OthersOf, MineOf, Of

LEMMA ServeIs ==
  ASSUME TypeOK, AddressInv, Serve
  PROVE  /\ Len(radio) \in Nat \ {0} /\ radio[1] \in Requests /\ 1 \in 1 .. Len(radio)
         /\ radio[1].code # "write" => regs' = regs
         /\ \/ queue' = queue
            \/ \E r : /\ r.mine = radio[1].mine /\ r.at = active
                      /\ (radio[1].code = "read" /\ radio[1].address # 0 =>
                             r.word = regs[active.profile][StageAt(radio[1].address)])
                      /\ Len(queue') = Len(queue) + 1 /\ queue'[Len(queue) + 1] = r
                      /\ \A i \in 1 .. Len(queue) : queue'[i] = queue[i]
<1>1. /\ Head(radio) = radio[1] /\ Len(radio) \in Nat \ {0} /\ radio[1] \in Requests
      /\ 1 \in 1 .. Len(radio)
  BY TailIs DEF Serve, TypeOK
<1>2. \/ queue' = queue
      \/ \E r : /\ r.mine = radio[1].mine /\ r.at = active
                /\ (radio[1].code = "read" /\ radio[1].address # 0 =>
                       r.word = regs[active.profile][StageAt(radio[1].address)])
                /\ queue' = Append(queue, r)
  BY <1>1 DEF Serve
<1>3. \A r : queue' = Append(queue, r) =>
        /\ Len(queue') = Len(queue) + 1 /\ queue'[Len(queue) + 1] = r
        /\ \A i \in 1 .. Len(queue) : queue'[i] = queue[i]
  BY AppendAny DEF TypeOK
<1>4. radio[1].code # "write" => regs' = regs
  BY <1>1 DEF Serve
<1> QED
  BY <1>1, <1>2, <1>3, <1>4
\* A step that takes no reading keeps the order of the readings.
LEMMA PlaceQuiet ==
  ASSUME TypeOK, AddressInv, LinkInv, pc # "idle",
         NEW old \in Places, NEW l2, NEW l8, Placed(old, l2, l8),
         \/ Drain \/ Send \/ Ignore \/ Serve \/ Lose
         \/ (Timeout /\ attempt < Attempts) \/ UNCHANGED vars
  PROVE  Placed(old, l2, l8)'
<1> USE DEF mouse, link, args, seen, ghosts, SameRun
<1>0. Len(queue) \in Nat /\ Ordered(old)
  BY InSeq DEF TypeOK, Placed
<1>1. CASE Drain
  <2>1. queue' = <<>> /\ Len(queue') = 0 /\ regs' = regs /\ SameRun
    BY <1>1 DEF Drain
  <2>2. Ordered(old)' /\ Current'
    BY <2>1 DEF Ordered, Current
  <2> QED
    BY <2>1, <2>2, PlacedKeeps
<1>2. CASE Send \/ Lose \/ (Timeout /\ attempt < Attempts) \/ UNCHANGED vars
  <2>1. /\ queue' = queue /\ regs' = regs /\ SameRun
        /\ pc' \in {"send", "wait"} => pc \in {"send", "wait"}
    BY <1>2 DEF Send, Lose, Timeout, vars
  <2>2. Ordered(old)' /\ (Current => Current')
    BY <1>0, <2>1 DEF Ordered, Current
  <2> QED
    BY <2>1, <2>2, PlacedKeeps
<1>3. CASE Ignore
  <2>1. /\ Len(queue') = Len(queue) - 1 /\ \A i \in 1 .. Len(queue') : queue'[i] = queue[i + 1]
        /\ pc = "wait" /\ pc' = pc /\ regs' = regs /\ SameRun
    BY <1>3, TailIs DEF Ignore, TypeOK
  <2>2. \A i \in 1 .. Len(queue') : i + 1 \in 1 .. Len(queue)
    BY <1>0, <2>1
  <2>3. Current => Current'
    BY <2>1, <2>2 DEF Current
  <2>4. Ordered(old)'
    <3>1. ASSUME NEW i \in 1 .. Len(queue')
          PROVE  /\ queue'[i].at \in {old, active}
                 /\ queue'[i].at = active =>
                      \A j \in 1 .. Len(queue') : i <= j => queue'[j].at = active
      <4>1. \A j \in 1 .. Len(queue') : i <= j => i + 1 <= j + 1
        BY <1>0, <2>1
      <4>2. i + 1 \in 1 .. Len(queue) /\ queue'[i] = queue[i + 1]
        BY <2>1, <2>2
      <4>3. /\ queue[i + 1].at \in {old, active}
            /\ queue[i + 1].at = active =>
                 \A j \in 1 .. Len(queue) : i + 1 <= j => queue[j].at = active
        BY <1>0, <2>1, <4>2 DEF Ordered
      <4> QED
        BY <2>1, <2>2, <4>1, <4>2, <4>3
    <3> QED
      BY <2>1, <3>1 DEF Ordered
  <2> QED
    BY <2>1, <2>3, <2>4, PlacedKeeps
<1>4. CASE Serve
  <2>1. SameRun /\ pc' = pc
    BY <1>4 DEF Serve
  <2>2. mode = "sens" /\ step > 8 /\ stale \subseteq {1, 2} => regs' = regs
    BY <1>4, NoWriteLeft, ServeIs
  <2>3. CASE queue' = queue
    <3>1. Ordered(old)' /\ (Current => Current')
      BY <1>0, <2>1, <2>3 DEF Ordered, Current
    <3> QED
      BY <2>1, <2>2, <3>1, PlacedKeeps
  <2>4. CASE queue' # queue
    <3>1. PICK r : /\ r.at = active
                   /\ Len(queue') = Len(queue) + 1 /\ queue'[Len(queue) + 1] = r
                   /\ \A i \in 1 .. Len(queue) : queue'[i] = queue[i]
      BY <1>4, <2>4, ServeIs
    <3>2. \A i \in 1 .. Len(queue') :
            (i \in 1 .. Len(queue) /\ queue'[i] = queue[i]) \/ queue'[i].at = active
      BY <1>0, <3>1
    <3>3. Current => Current'
      BY <2>1, <3>2 DEF Current
    <3>4. Ordered(old)'
      <4>1. pc \in {"send", "wait"} => \A i \in 1 .. Len(queue') : queue'[i].at \in {old, active}
        BY <1>0, <3>2 DEF Ordered
      <4>2. ASSUME pc \in {"send", "wait"}, NEW i \in 1 .. Len(queue'), queue'[i].at = active,
                   NEW j \in 1 .. Len(queue'), i <= j
            PROVE  queue'[j].at = active
        <5>1. CASE j \in 1 .. Len(queue)
          <6>1. i \in 1 .. Len(queue)
            BY <1>0, <4>2, <5>1
          <6> QED
            BY <1>0, <3>1, <4>2, <5>1, <6>1 DEF Ordered
        <5>2. CASE j \notin 1 .. Len(queue)
          BY <3>2, <5>2
        <5> QED
          BY <5>1, <5>2
      <4> QED
        BY <2>1, <4>1, <4>2 DEF Ordered
    <3> QED
      BY <2>1, <2>2, <3>3, <3>4, PlacedKeeps
  <2> QED
    BY <2>3, <2>4
<1> QED
  BY <1>1, <1>2, <1>3, <1>4

\* The first change of the run makes old the place that is left.
LEMMA PlaceChange ==
  ASSUME TypeOK, pc # "idle", PlaceInv, Change
  PROVE  PlaceInv'
<1> SUFFICES ASSUME changes' < 2
             PROVE  \E old \in Places, l2 \in Places, l8 \in Places : Placed(old, l2, l8)'
  BY DEF PlaceInv
<1>1. /\ changes \in Nat /\ changes' = changes + 1 /\ active' # active
      /\ UNCHANGED <<regs, queue, pc, mode, step, want, override, target, first, now,
                     firstAt, checkAt, stale>>
  BY DEF Change, TypeOK, link, args, seen, ghosts
<1>2. changes = 0 /\ changes' # 0
  BY <1>1
<1>3. PICK old \in Places, l2 \in Places, l8 \in Places : Placed(old, l2, l8)
  BY <1>2 DEF PlaceInv
<1>4. old = active
  BY <1>2, <1>3 DEF Placed
<1>5. Ordered(old)'
  BY <1>1, <1>3, <1>4 DEF Placed, Ordered
<1>6. \A l : ReadAt(l, old) => l = old /\ ReadAt(l, old)'
  BY <1>1, <1>4 DEF ReadAt
<1>7. Placed(old, l2, l8)'
  <2>1. mode = "sens" /\ step > 2 => l2 # active' /\ ReadAt(l2, old)'
    BY <1>1, <1>3, <1>4, <1>6 DEF Placed
  <2>2. mode = "sens" /\ step > 3 => firstAt # active' /\ ReadAt(firstAt, old)'
    BY <1>1, <1>3, <1>4, <1>6 DEF Placed
  <2>3. mode = "sens" /\ step > 5 => checkAt # active' /\ ReadAt(checkAt, old)'
    BY <1>1, <1>3, <1>4, <1>6 DEF Placed
  <2>4. mode = "sens" /\ step > 8 /\ stale \subseteq {1, 2} => ReadAt(l8, old)'
    BY <1>1, <1>3, <1>4, <1>6 DEF Placed
  <2>5. step \in Nat
    BY AskIs DEF TypeOK
  <2> QED
    BY <1>1, <1>2, <1>3, <1>5, <2>1, <2>2, <2>3, <2>4, <2>5 DEF Placed
<1> QED
  BY <1>3, <1>7
LEMMA SamePlace ==
  ASSUME NEW p \in Places, NEW q \in Places, p.stage = q.stage, p.profile = q.profile
  PROVE  p = q
<1>1. p \in [profile : Profiles, stage : Stages] /\ q \in [profile : Profiles, stage : Stages]
  BY DEF Places
<1>2. p = [profile |-> p.profile, stage |-> p.stage] /\ q = [profile |-> q.profile, stage |-> q.stage]
  BY <1>1
<1> QED
  BY <1>2

\* Taking an answer takes a reading: the readings stay in order, and the
\* check before the write finds no other place than the first reading did.
LEMMA PlaceTake ==
  ASSUME TypeOK, AddressInv, LinkInv, StoredInv, PlaceInv, Take
  PROVE  PlaceInv'
<1> SUFFICES ASSUME pc' # "idle", changes' < 2
             PROVE  \E old \in Places, l2 \in Places, l8 \in Places : Placed(old, l2, l8)'
  BY DEF PlaceInv
<1>1. PICK ask : Taken(ask)
  BY DEF Take, TakeOnline, TakeBattery, TakeConfig, TakeProfile, TakeWord, TakeEcho
<1>2. /\ pc = "wait" /\ Ask = ask /\ Answer = queue[1] /\ Answer \in Replies
      /\ Len(queue) \in Nat \ {0} /\ 1 \in 1 .. Len(queue)
      /\ UNCHANGED <<active, regs, changes, mode, want, override>>
      /\ stale' = IF Answer.mine THEN stale ELSE stale \cup {step}
  BY <1>1, TakenLink DEF Taken, mouse, args
<1>3. PICK old \in Places, l2 \in Places, l8 \in Places : Placed(old, l2, l8)
  BY <1>2 DEF PlaceInv
<1>0. PICK at \in Places : at = Answer.at
  BY <1>2 DEF Replies
<1>4. /\ at \in {old, active}
      /\ \A l : ReadAt(l, old) /\ l = active => at = active
  BY <1>0, <1>2, <1>3 DEF Placed, Ordered, ReadAt, Current
<1>5. /\ pc' = "drain" /\ step' = step + 1
      /\ step \in 1 .. 10 /\ (mode = "sens" => step # 10) /\ (mode = "battery" => step = 1)
      /\ mode \in {"sens", "battery"}
  <2>1. Proceed \/ Finish("failed")
    BY DEF Take, TakeOnline, TakeBattery, TakeConfig, TakeProfile, TakeWord, TakeEcho
  <2>2. /\ step \in 1 .. 10 /\ mode \in {"sens", "battery"}
        /\ mode = "battery" => step = 1 \/ step = 2
        /\ Len(Script[mode]) = IF mode = "sens" THEN 10 ELSE 2
    BY AskIs DEF TypeOK
  <2>3. pc' = "drain" /\ step' = step + 1 /\ step # Len(Script[mode])
    BY <2>1 DEF Proceed, Finish
  <2> QED
    BY <2>2, <2>3
<1>6. Ordered(old)' /\ \A l : l \in {old, active} => ReadAt(l, old)'
  BY <1>2, <1>5 DEF Ordered, ReadAt, Current
<1>7. CASE mode = "battery"
  BY <1>2, <1>3, <1>5, <1>6, <1>7 DEF Placed
<1>16. /\ Take
       /\ Ask = "online" <=> step = 1
       /\ Ask = "config" <=> mode = "sens" /\ step \in {2, 5, 9}
       /\ Ask = "profile" <=> step \in {3, 6, 10}
       /\ Ask = "word" <=> step \in {4, 8}
       /\ Ask = "write" <=> step = 7
       /\ Ask = "battery" <=> mode = "battery" /\ step = 2
  BY AskIs DEF TypeOK
<1>8. CASE mode = "sens" /\ step = 1
  BY <1>2, <1>3, <1>5, <1>6, <1>8 DEF Placed
<1>9. CASE mode = "sens" /\ step = 2
  <2>1. first' = ConfigOf(first, at)
    BY <1>0, <1>9, <1>16 DEF Take, Taken, TakeOnline, TakeBattery, TakeConfig, TakeProfile,
                       TakeWord, TakeEcho
  <2>2. first'.stage = at.stage /\ first'.count = Count[at.profile]
    BY <1>4, <2>1, ReadingsTyped DEF TypeOK
  <2>3. Placed(old, at, l8)'
    BY <1>2, <1>3, <1>4, <1>5, <1>6, <1>9, <2>2 DEF Placed
  <2> QED
    BY <1>4, <2>3
<1>10. CASE mode = "sens" /\ step = 3
  <2>1. /\ first' = ProfileOf(first, at) /\ firstAt' = at
        /\ target' = IF override # 0 THEN override ELSE Address(first.stage)
    BY <1>0, <1>10, <1>16 DEF Take, Taken, TakeOnline, TakeBattery, TakeConfig, TakeProfile,
                        TakeWord, TakeEcho
  <2>2. /\ first'.stage = first.stage /\ first'.count = first.count
        /\ first'.profile = at.profile
    BY <1>4, <2>1, ReadingsTyped DEF TypeOK
  <2>3. override = 0 => StageAt(target') = first.stage
    BY <2>1 DEF StageAt, Address, TypeOK, Readings, Stages
  <2>4. ReadAt(l2, old) /\ first.stage = l2.stage /\ first.count = Count[l2.profile]
    BY <1>3, <1>10 DEF Placed
  <2>5. ReadAt(l2, old)' /\ ReadAt(firstAt, old)' /\ (l2 = active => firstAt' = active)
    BY <1>4, <1>6, <2>1, <2>4 DEF ReadAt, Current
  <2>6. Placed(old, l2, l8)'
    BY <1>2, <1>3, <1>5, <1>6, <1>10, <2>1, <2>2, <2>3, <2>4, <2>5 DEF Placed
  <2> QED
    BY <2>6
<1>17. /\ \A l : ReadAt(l, old) => ReadAt(l, old)'
       /\ \A l : ReadAt(l, old) /\ l = active => at = active
  BY <1>4, <1>6 DEF ReadAt
<1>11. CASE mode = "sens" /\ step \in {4, 7}
  <2>1. UNCHANGED <<first, now, target, firstAt, checkAt>>
    BY <1>11, <1>16 DEF Take, Taken, TakeOnline, TakeBattery, TakeConfig, TakeProfile,
                        TakeWord, TakeEcho, seen
  <2>2. Placed(old, l2, l8)'
    BY <1>2, <1>3, <1>5, <1>6, <1>11, <1>17, <2>1 DEF Placed
  <2> QED
    BY <2>2
<1>12. CASE mode = "sens" /\ step = 5
  <2>1. /\ now' = ConfigOf(now, at) /\ checkAt' = at
        /\ UNCHANGED <<first, target, firstAt>>
    BY <1>0, <1>12, <1>16 DEF Take, Taken, TakeOnline, TakeBattery, TakeConfig, TakeProfile,
                        TakeWord, TakeEcho
  <2>2. now'.stage = at.stage /\ now'.count = Count[at.profile]
    BY <1>4, <2>1, ReadingsTyped DEF TypeOK
  <2>3. ReadAt(firstAt, old) /\ (firstAt = active => at = active)
    BY <1>3, <1>12, <1>17 DEF Placed
  <2>4. ReadAt(firstAt, old)' /\ ReadAt(checkAt, old)'
    BY <1>4, <1>6, <2>1, <2>3 DEF ReadAt, Current
  <2>5. Placed(old, l2, l8)'
    BY <1>2, <1>3, <1>5, <1>6, <1>12, <1>17, <2>1, <2>2, <2>3, <2>4 DEF Placed
  <2> QED
    BY <2>5
<1>13. CASE mode = "sens" /\ step = 6
  <2>1. /\ now' = ProfileOf(now, at) /\ UNCHANGED <<first, target, firstAt, checkAt>>
        /\ SameState(first, now') \/ Finish("failed")
    BY <1>0, <1>13, <1>16 DEF Take, Taken, TakeOnline, TakeBattery, TakeConfig, TakeProfile,
                        TakeWord, TakeEcho
  <2>2. /\ now'.stage = now.stage /\ now'.count = now.count /\ now'.profile = at.profile
        /\ SameState(first, now')
    BY <1>4, <1>5, <2>1, ReadingsTyped DEF TypeOK, Finish
  <2>3. /\ l2 \in {old, active} /\ firstAt \in {old, active} /\ checkAt \in {old, active}
        /\ l2 = active => firstAt = active
        /\ firstAt = active => checkAt = active
        /\ checkAt = active => at = active
        /\ l2.stage = checkAt.stage /\ l2.stage = first.stage
        /\ firstAt.profile = at.profile
    BY <1>3, <1>13, <1>17, <2>2 DEF Placed, ReadAt, SameState
  <2>4. old.stage = active.stage /\ old.profile = active.profile => old = active
    BY SamePlace DEF TypeOK
  <2>5. checkAt = firstAt /\ firstAt.stage = first.stage
    <3>1. CASE l2 = active \/ checkAt = old
      BY <2>3, <3>1
    <3>2. CASE l2 = old /\ checkAt = active
      BY <2>3, <2>4, <3>2
    <3> QED
      BY <2>3, <3>1, <3>2
  <2>6. Placed(old, l2, l8)'
    BY <1>2, <1>3, <1>5, <1>6, <1>13, <1>17, <2>1, <2>5 DEF Placed
  <2> QED
    BY <2>6
<1>14. CASE mode = "sens" /\ step = 8
  <2>1. /\ UNCHANGED <<first, now, target, firstAt, checkAt>>
        /\ ~Refused \/ Finish("failed")
    BY <1>14, <1>16 DEF Take, Taken, TakeOnline, TakeBattery, TakeConfig, TakeProfile,
                        TakeWord, TakeEcho, seen
  <2>2. Answer.word = want
    BY <1>5, <1>14, <2>1 DEF Refused, Finish
  <2>3. stale' \subseteq {1, 2} => Answer.mine /\ stale' = stale
    BY <1>2, <1>14
  <2>4. stale' \subseteq {1, 2} => regs[at.profile][StageAt(target)] = want
    BY <1>0, <1>2, <1>14, <2>2, <2>3 DEF StoredInv
  <2>5. ReadAt(checkAt, old) /\ (checkAt = active => at = active)
    BY <1>3, <1>14, <1>17 DEF Placed
  <2>6. Placed(old, l2, at)'
    BY <1>2, <1>3, <1>4, <1>5, <1>6, <1>14, <1>17, <2>1, <2>4, <2>5 DEF Placed
  <2> QED
    BY <1>4, <2>6
<1>15. CASE mode = "sens" /\ step = 9
  <2>1. UNCHANGED <<first, target, firstAt, checkAt>>
    BY <1>15, <1>16 DEF Take, Taken, TakeOnline, TakeBattery, TakeConfig, TakeProfile,
                        TakeWord, TakeEcho
  <2>2. stale' \subseteq {1, 2} => stale = stale'
    BY <1>2, <1>15
  <2>3. Placed(old, l2, l8)'
    BY <1>2, <1>3, <1>5, <1>6, <1>15, <1>17, <2>1, <2>2 DEF Placed
  <2> QED
    BY <2>3
<1> QED
  BY <1>5, <1>7, <1>8, <1>9, <1>10, <1>11, <1>12, <1>13, <1>14, <1>15
LEMMA PlaceStep ==
  TypeOK /\ AddressInv /\ LinkInv /\ StoredInv /\ PlaceInv /\ [Next]_vars => PlaceInv'
<1> SUFFICES ASSUME TypeOK, AddressInv, LinkInv, StoredInv, PlaceInv, [Next]_vars PROVE PlaceInv'
  OBVIOUS
<1>1. CASE Start
  <2>1. /\ active \in Places /\ active' = active /\ changes' = 0 /\ pc' = "drain" /\ step' = 1
    BY <1>1 DEF Start, TypeOK
  <2>2. \E old \in Places, l2 \in Places, l8 \in Places : Placed(old, l2, l8)'
    <3>1. PICK here \in Places : here = active'
      BY <2>1
    <3>2. Placed(here, here, here)'
      BY <2>1, <3>1 DEF Placed, Ordered
    <3> QED
      BY <3>2
  <2> QED
    BY <2>2 DEF PlaceInv
<1>2. CASE Take
  BY <1>2, PlaceTake
<1>3. CASE pc' = "idle"
  BY <1>3 DEF PlaceInv
<1>4. CASE Change
  <2>1. pc' = pc
    BY <1>4 DEF Change
  <2> QED
    BY <1>3, <1>4, <2>1, PlaceChange DEF TypeOK
<1>5. CASE /\ pc # "idle"
           /\ \/ Drain \/ Send \/ Ignore \/ Serve \/ Lose
              \/ (Timeout /\ attempt < Attempts) \/ UNCHANGED vars
  <2>1. changes' = changes
    BY <1>5 DEF Drain, Send, Ignore, Serve, Lose, Timeout, vars, mouse
  <2>2. ASSUME changes < 2
        PROVE  \E old \in Places, l2 \in Places, l8 \in Places : Placed(old, l2, l8)'
    <3>1. PICK old \in Places, l2 \in Places, l8 \in Places : Placed(old, l2, l8)
      BY <1>5, <2>2 DEF PlaceInv
    <3>2. Placed(old, l2, l8)'
      BY <1>5, <3>1, PlaceQuiet
    <3> QED
      BY <3>2
  <2> QED
    BY <2>1, <2>2 DEF PlaceInv
<1>6. CASE (Timeout /\ ~(attempt < Attempts)) \/ ExchangeFails \/ Killed
  BY <1>3, <1>6 DEF Timeout, ExchangeFails, Killed, Finish
<1>7. ASSUME pc = "idle", Drain \/ Send \/ Ignore \/ Timeout \/ Serve \/ Lose \/ UNCHANGED vars
      PROVE  pc' = "idle"
  BY <1>7 DEF Drain, Send, Ignore, Timeout, Serve, Lose, vars
<1> QED
  BY <1>1, <1>2, <1>3, <1>4, <1>5, <1>6, <1>7 DEF Next, Run

\* What the readback says, and what the end of the run finds, is stored.
LEMMA StoredStep ==
  TypeOK /\ AddressInv /\ LinkInv /\ StoredInv /\ [Next]_vars => StoredInv'
<1> SUFFICES ASSUME TypeOK, AddressInv, LinkInv, StoredInv, [Next]_vars PROVE StoredInv'
  OBVIOUS
<1> USE DEF mouse, link, args, seen, ghosts
<1> DEFINE Sure == \A i \in 1 .. Len(queue) :
                     queue[i].mine => queue[i].word = regs[queue[i].at.profile][StageAt(target)]
           Silent == \A i \in 1 .. Len(radio) : radio[i].code # "write"
<1>1. CASE Start
  BY <1>1 DEF Start, StoredInv
<1>2. CASE Take
  <2>1. PICK ask : Taken(ask)
    BY <1>2 DEF Take, TakeOnline, TakeBattery, TakeConfig, TakeProfile, TakeWord, TakeEcho
  <2>2. /\ NoneMine(queue') /\ pc = "wait" /\ mode' = mode
        /\ Len(radio) \in Nat /\ Len(radio') = Len(radio)
        /\ \A i \in 1 .. Len(radio) : radio'[i].code = radio[i].code
        /\ stale' = IF Answer.mine THEN stale ELSE stale \cup {step}
    BY <2>1, TakenLink DEF Taken
  <2>3. Proceed \/ Finish("failed")
    BY <1>2 DEF Take, TakeOnline, TakeBattery, TakeConfig, TakeProfile, TakeWord, TakeEcho
  <2>4. ASSUME status' = "ok", mode = "sens", stale' \subseteq {1, 2} PROVE Silent'
    <3>1. step = 10
      BY <2>2, <2>3, <2>4, AskIs DEF TypeOK, AddressInv, Proceed, Finish
    <3>2. Answer.mine
      BY <2>2, <2>4, <3>1
    <3>3. \A i \in 1 .. Len(radio) : radio[i].code = CodeOf(10)
      BY <2>1, <3>1, <3>2, OwnRest DEF Of
    <3> QED
      BY <2>2, <2>4, <3>3, CodeIs
  <2> QED
    BY <2>2, <2>4 DEF StoredInv, NoneMine
<1>3. CASE Drain
  BY <1>3 DEF Drain, StoredInv
<1>4. CASE Ignore
  <2>1. /\ Len(queue') = Len(queue) - 1 /\ Len(queue) \in Nat
        /\ \A i \in 1 .. Len(queue') : i + 1 \in 1 .. Len(queue) /\ queue'[i] = queue[i + 1]
    BY <1>4, TailIs DEF Ignore, TypeOK
  <2> QED
    BY <1>4, <2>1 DEF Ignore, StoredInv
<1>5. CASE Timeout \/ ExchangeFails \/ Killed
  BY <1>5 DEF Timeout, ExchangeFails, Killed, Finish, AddressInv, StoredInv
<1>6. CASE Send
  BY <1>6 DEF Send, AddressInv, StoredInv
<1>7. CASE Lose
  <2>1. /\ Len(radio') = Len(radio) - 1 /\ Len(radio) \in Nat
        /\ \A i \in 1 .. Len(radio') : i + 1 \in 1 .. Len(radio) /\ radio'[i] = radio[i + 1]
    BY <1>7, TailIs DEF Lose, TypeOK
  <2> QED
    BY <1>7, <2>1 DEF Lose, StoredInv
<1>8. CASE Serve
  <2>1. UNCHANGED <<pc, mode, step, stale, target, status>>
    BY <1>8 DEF Serve
  <2>2. /\ Len(radio) \in Nat \ {0} /\ radio[1] \in Requests /\ 1 \in 1 .. Len(radio)
        /\ radio[1].code # "write" => regs' = regs
    BY <1>8, ServeIs
  <2>3. ASSUME Silent PROVE Silent'
    <3>1. CASE radio' = radio
      BY <2>3, <3>1
    <3>2. CASE radio' = Tail(radio)
      <4>1. \A i \in 1 .. Len(radio') : i + 1 \in 1 .. Len(radio) /\ radio'[i] = radio[i + 1]
        BY <1>8, <2>2, <3>2, TailIs DEF TypeOK
      <4> QED
        BY <2>3, <4>1
    <3> QED
      BY <1>8, <3>1, <3>2 DEF Serve
  <2>4. ASSUME pc # "idle", mode = "sens", step = 8, Sure PROVE Sure'
    <3>1. CASE ~radio[1].mine
      <4>1. NoneMine(queue)
        BY <2>2, <3>1 DEF LinkInv, MineInv, AllMine
      <4>2. \A i \in 1 .. Len(queue') : ~queue'[i].mine
        <5>1. CASE queue' = queue
          BY <4>1, <5>1 DEF NoneMine
        <5>2. CASE queue' # queue
          <6>1. PICK r : /\ r.mine = radio[1].mine
                         /\ Len(queue') = Len(queue) + 1 /\ queue'[Len(queue) + 1] = r
                         /\ \A i \in 1 .. Len(queue) : queue'[i] = queue[i]
            BY <1>8, <5>2, ServeIs
          <6>2. Len(queue) \in Nat
            BY InSeq DEF TypeOK
          <6>3. \A i \in 1 .. Len(queue') : i \in 1 .. Len(queue) \/ queue'[i] = r
            BY <6>1, <6>2
          <6> QED
            BY <3>1, <4>1, <6>1, <6>3 DEF NoneMine
        <5> QED
          BY <5>1, <5>2
      <4> QED
        BY <4>2
    <3>2. CASE radio[1].mine
      <4>1. radio[1].code = "read" /\ radio[1].address = target
        <5>1. Of(radio[1], 8)
          BY <2>2, <2>4, <3>2 DEF LinkInv, MineInv, MineOf
        <5> QED
          BY <2>4, <5>1, CodeIs DEF Of
      <4>2. target # 0 /\ regs' = regs /\ target' = target
        BY <2>1, <2>2, <2>4, <4>1 DEF AddressInv, TypeOK
      <4>3. CASE queue' = queue
        BY <2>4, <4>2, <4>3
      <4>4. CASE queue' # queue
        <5>1. PICK r : /\ r.at = active /\ r.word = regs[active.profile][StageAt(target)]
                       /\ Len(queue') = Len(queue) + 1 /\ queue'[Len(queue) + 1] = r
                       /\ \A i \in 1 .. Len(queue) : queue'[i] = queue[i]
          BY <1>8, <4>1, <4>2, <4>4, ServeIs
        <5>2. Len(queue) \in Nat
          BY InSeq DEF TypeOK
        <5>3. \A i \in 1 .. Len(queue') :
                (i \in 1 .. Len(queue) /\ queue'[i] = queue[i]) \/ queue'[i] = r
          BY <5>1, <5>2
        <5> QED
          BY <2>4, <4>2, <5>1, <5>3
      <4> QED
        BY <4>3, <4>4
    <3> QED
      BY <3>1, <3>2
  <2> QED
    BY <2>1, <2>3, <2>4 DEF StoredInv
<1>9. CASE Change \/ UNCHANGED vars
  BY <1>9 DEF Change, vars, StoredInv
<1> QED
  BY <1>1, <1>2, <1>3, <1>4, <1>5, <1>6, <1>7, <1>8, <1>9 DEF Next, Run

LEMMA SuccessStep ==
  /\ TypeOK /\ AddressInv /\ LinkInv /\ StoredInv /\ PlaceInv /\ SuccessSound /\ [Next]_vars
  => SuccessSound'
<1> SUFFICES ASSUME TypeOK, AddressInv, LinkInv, StoredInv, PlaceInv, SuccessSound, [Next]_vars,
                    status' = "ok", mode' = "sens", changes' < 2, stale' \subseteq {1, 2}
             PROVE  /\ regs'[firstAt'.profile][StageAt(target')] = want'
                    /\ override' = 0 => StageAt(target') = firstAt'.stage
  BY DEF SuccessSound
<1> USE DEF mouse, link, args, seen, ghosts
<1>1. CASE UNCHANGED <<regs, status, mode, want, override, target, firstAt, stale>>
           /\ (changes' = changes \/ changes' = changes + 1)
  <2>1. changes < 2
    BY <1>1 DEF TypeOK
  <2> QED
    BY <1>1, <2>1 DEF SuccessSound
<1>2. CASE Take
  <2>1. PICK ask : Taken(ask)
    BY <1>2 DEF Take, TakeOnline, TakeBattery, TakeConfig, TakeProfile, TakeWord, TakeEcho
  <2>2. /\ pc = "wait" /\ Ask = ask /\ Answer = queue[1] /\ Answer \in Replies
        /\ Len(queue) \in Nat \ {0} /\ 1 \in 1 .. Len(queue)
        /\ UNCHANGED <<active, regs, changes, mode, want, override>>
        /\ stale' = IF Answer.mine THEN stale ELSE stale \cup {step}
    BY <2>1, TakenLink DEF Taken
  <2>3. step = 10
    <3>1. Proceed \/ Finish("failed")
      BY <1>2 DEF Take, TakeOnline, TakeBattery, TakeConfig, TakeProfile, TakeWord, TakeEcho
    <3> QED
      BY <2>2, <3>1, AskIs DEF TypeOK, AddressInv, Proceed, Finish
  <2>4. stale \subseteq {1, 2}
    BY <2>2
  <2>5. TakeProfile
    BY <1>2, <2>3, AskIs DEF TypeOK, Take, Taken, TakeOnline, TakeBattery, TakeConfig,
                             TakeProfile, TakeWord, TakeEcho
  <2>6. /\ UNCHANGED <<first, target, firstAt>>
        /\ now' = ProfileOf(now, Answer.at) /\ SameState(first, now')
    BY <2>3, <2>5 DEF TakeProfile, Finish
  <2>7. first.profile = Answer.at.profile
    BY <2>2, <2>6, ReadingsTyped DEF SameState, TypeOK, Replies
  <2>8. PICK old \in Places, l2 \in Places, l8 \in Places : Placed(old, l2, l8)
    BY <2>2 DEF PlaceInv
  <2>9. /\ Ordered(old) /\ first.profile = firstAt.profile
        /\ checkAt = firstAt /\ firstAt.stage = first.stage
        /\ checkAt \in {old, active}
        /\ ReadAt(l8, old) /\ (checkAt = active => l8 = active)
        /\ regs[l8.profile][StageAt(target)] = want
        /\ override = 0 => StageAt(target) = first.stage
    BY <2>2, <2>3, <2>4, <2>8 DEF Placed, ReadAt
  <2>10. l8 = active => Answer.at = active
    BY <2>2, <2>9 DEF ReadAt, Current
  <2>11. l8.profile = firstAt.profile
    BY <2>7, <2>9, <2>10 DEF ReadAt
  <2> QED
    BY <2>2, <2>6, <2>9, <2>11
<1>3. CASE Serve
  <2>1. /\ UNCHANGED <<status, mode, want, override, target, firstAt, stale, changes>>
    BY <1>3 DEF Serve
  <2>2. regs' = regs
    BY <1>3, <2>1, ServeIs DEF StoredInv
  <2> QED
    BY <1>1, <2>1, <2>2
<1>4. CASE Drain \/ Send \/ Ignore \/ Lose \/ UNCHANGED vars
  BY <1>1, <1>4 DEF Drain, Send, Ignore, Lose, vars
<1>5. CASE Start
  BY <1>5 DEF Start
<1>6. CASE Timeout \/ ExchangeFails \/ Killed
  BY <1>6 DEF Timeout, ExchangeFails, Killed, Finish, AddressInv
<1>7. CASE Change
  BY <1>1, <1>7 DEF Change
<1> QED
  BY <1>2, <1>3, <1>4, <1>5, <1>6, <1>7 DEF Next, Run

LEMMA InitInv == Init => IInv
<1> SUFFICES ASSUME Init PROVE IInv
  OBVIOUS
<1>1. TypeOK
  <2>1. step \in DOMAIN Script[mode]
    BY ScriptIs DEF Init
  <2>2. regs \in [Profiles -> [Stages -> Words \cup {Corrupt}]]
    BY DriverAssumption DEF Init, Stages
  <2>3. NoState \in Readings
    BY DriverAssumption DEF NoState, Readings, Stages
  <2>4. Len(<<>>) = 0 /\ <<>> \in Seq(Requests) /\ <<>> \in Seq(Replies)
    BY EmptySeq
  <2> QED
    BY <2>1, <2>2, <2>3, <2>4, DriverAssumption DEF Init, TypeOK
<1>2. AddressInv /\ LinkInv /\ PlaceInv /\ StoredInv /\ SuccessSound
  BY DEF Init, AddressInv, LinkInv, MineInv, MineLast, NoneMine, AllMine, FlushInv, OnceInv,
         LeftInv, LeadsOn, Leads, FreshInv, PlaceInv, StoredInv, SuccessSound
<1> QED
  BY <1>1, <1>2 DEF IInv, LinkInv

\* Every behaviour keeps the inductive invariant: the types and addresses of
\* the link, the order of what it holds, the order of the readings.
THEOREM Invariant == Spec => []IInv
<1>1. IInv /\ [Next]_vars => IInv'
  BY TypeStep, LinkStep, PlaceStep, StoredStep, SuccessStep DEF IInv, LinkInv
<1> QED
  BY <1>1, InitInv, PTL DEF Spec

\* Every request and reply under way, every reading of the run and the target
\* it resolves are in range, whatever the link does to them.
THEOREM TypeCorrect == Spec => []TypeOK
<1>1. IInv => TypeOK
  BY DEF IInv
<1> QED
  BY <1>1, Invariant, PTL

\* No transaction identifiers, and yet: on a link that repeats nothing a run
\* takes a late reply for its own only if its very first answer was one; after
\* one earlier run, for its first two exchanges at most (exchange and
\* wait_for_reply of src/driver.c).
THEOREM AnswersFresh == Spec => []ChecksFresh
<1>1. IInv => ChecksFresh
  <2> SUFFICES ASSUME IInv PROVE ChecksFresh
    OBVIOUS
  <2>1. TypeOK /\ FreshInv
    BY DEF IInv
  <2> QED
    BY <2>1 DEF FreshInv, ChecksFresh
<1> QED
  BY <1>1, Invariant, PTL

\* No write goes out when the user's one change came between the first reading
\* and the check before the write (set_sensitivity of src/driver.c), whatever
\* the link loses, repeats or delays.
THEOREM WritesStable == Spec => []StableBeforeWrite
<1>1. IInv => StableBeforeWrite
  <2> SUFFICES ASSUME IInv, pc # "idle", mode = "sens", step >= 7, changes < 2
               PROVE  checkAt = firstAt
    BY DEF StableBeforeWrite
  <2>1. PICK old \in Places, l2 \in Places, l8 \in Places : Placed(old, l2, l8)
    BY DEF IInv, PlaceInv
  <2>2. step \in 1 .. 10
    BY StepTyped DEF IInv
  <2> QED
    BY <2>1, <2>2 DEF Placed
<1> QED
  BY <1>1, Invariant, PTL

\* Exit status 0 of set_sensitivity means that the requested word is stored in
\* the stage that was reported, as long as the user changes stage or profile at
\* most once and nothing late was taken from the third exchange on.
THEOREM SuccessMeansStored == Spec => []SuccessSound
<1>1. IInv => SuccessSound
  BY DEF IInv
<1> QED
  BY <1>1, Invariant, PTL
\* The two together: on a link that repeats nothing, and with one earlier run
\* killed or failed anywhere, exit status 0 needs no further condition.
THEOREM SuccessAfterOneRun ==
  Spec => [](/\ repeats = 0 /\ runs <= 2
             /\ status = "ok" /\ mode = "sens" /\ changes < 2
             => /\ regs[firstAt.profile][StageAt(target)] = want
                /\ override = 0 => StageAt(target) = firstAt.stage)
<1>1. IInv => (/\ repeats = 0 /\ runs <= 2
               /\ status = "ok" /\ mode = "sens" /\ changes < 2
               => /\ regs[firstAt.profile][StageAt(target)] = want
                  /\ override = 0 => StageAt(target) = firstAt.stage)
  BY DEF IInv, FreshInv, SuccessSound
<1> QED
  BY <1>1, Invariant, PTL
=============================================================================
