------------------------------- MODULE Driver -------------------------------
(***************************************************************************)
(* The runs of the driver against a mouse that somebody is using:          *)
(* set_sensitivity and run_battery of src/driver.c as the script of        *)
(* exchanges they are, each exchange with its drain, its request, its wait *)
(* and its retries (module Exchange has their transfers and clocks), and a *)
(* mouse behind a first-in-first-out link that may lose a request or a     *)
(* reply, answer late or twice, acknowledge a write it does not apply, and *)
(* whose profile and stage change under the user's fingers.  A run may be  *)
(* killed at any point; the next one finds what it left in the link.       *)
(*                                                                         *)
(* Addresses count four-byte words: the configuration is at 0, the DPI     *)
(* word of stage s at 3 + s (0x0c + 4 * s in bytes).                       *)
(***************************************************************************)
EXTENDS Naturals, Sequences

CONSTANTS
  Profiles,    \* profile indexes of the mouse
  MaxStages,   \* 8 in the code
  Count,       \* Count[p]: the DPI stages configured in profile p
  Words,       \* the DPI words the driver encodes and decodes
  Corrupt,     \* a stored word it refuses
  Stored,      \* what the registers of the mouse may hold at first
  ReadAttempts,\* 3 in the code
  LinkCap,     \* bound: requests, and replies, under way at once
  MaxChanges,  \* bound: changes of the active stage or profile in one run
  MaxRepeats,  \* bound: requests the link brings twice
  MaxRuns      \* bound: runs of the program

ASSUME DriverAssumption ==
  /\ MaxStages \in Nat \ {0}
  /\ Count \in [Profiles -> 1 .. MaxStages]
  /\ Corrupt \notin Words
  /\ Stored \subseteq [Profiles -> [0 .. (MaxStages - 1) -> Words \cup {Corrupt}]]
  /\ ReadAttempts \in Nat \ {0}
  /\ LinkCap \in Nat \ {0}
  /\ MaxChanges \in Nat /\ MaxRepeats \in Nat /\ MaxRuns \in Nat

Stages == 0 .. (MaxStages - 1)
Places == {a \in [profile : Profiles, stage : Stages] : a.stage < Count[a.profile]}
Address(stage) == 3 + stage
StageAt(address) == address - 3

VARIABLES
  active, regs,             \* the mouse: where it is, and regs[profile][stage]
  radio, queue,             \* requests on their way, replies to be read
  pc, mode, step, attempt,  \* the run, and the exchange it is in
  want, override, target,   \* sens, dpi_address (0: none), address
  first, now,               \* "initial"; "before", then "after"
  status,                   \* of the last run
  runs, changes, repeats,   \* counters for the bounds
  firstAt, checkAt,         \* ghosts: where the mouse was when it answered the
                            \* first profile query, the second config read
  stale, readback           \* ghosts: the steps of the run that took a reply to
                            \* the request of an earlier exchange; the command
                            \* byte of the reply taken as the readback

mouse == <<active, regs, changes, repeats>>
link == <<radio, queue>>
args == <<mode, want, override>>
seen == <<first, now, target>>
ghosts == <<firstAt, checkAt, stale, readback>>
vars == <<mouse, link, args, seen, ghosts, pc, step, attempt, status, runs>>

-----------------------------------------------------------------------------
(* The script: what each step asks, and which reply answers it. *)

Script == [sens |-> <<"online", "config", "profile", "word", "config", "profile",
                      "write", "word", "config", "profile">>,
           battery |-> <<"online", "battery">>]

Ask == Script[mode][step]

\* Command byte and address: configuration and DPI words are register reads.
Code == IF Ask \in {"config", "word"} THEN "read" ELSE Ask
Place == IF Ask \in {"word", "write"} THEN target ELSE 0

Attempts == IF Ask \in {"write", "battery"} THEN 1 ELSE ReadAttempts

\* Mutants, here and below: a plausible slip in the definition that follows.
MatchesAnyCommand(reply) ==
  reply.address = Place /\ (Ask = "write" => reply.word = want)

\* wait_for_reply's test of a reply: a register read may also be answered
\* under the write command's byte, a write only by its exact echo.
Matches(reply) ==
  /\ reply.address = Place
  /\ reply.code = Code \/ (Code = "read" /\ reply.code = "write")
  /\ Ask = "write" => reply.word = want

\* What a configuration read and a profile query tell of the mouse.
ConfigOf(state, place) == [state EXCEPT !.stage = place.stage, !.count = Count[place.profile]]
ProfileOf(state, place) == [state EXCEPT !.profile = place.profile]
NoState == [profile |-> 0, stage |-> 0, count |-> 0]

SameStateStageOnly(a, b) == a.stage = b.stage

SameState(a, b) == a.profile = b.profile /\ a.count = b.count /\ a.stage = b.stage

-----------------------------------------------------------------------------
Init ==
  /\ active \in Places
  /\ regs \in Stored
  /\ radio = <<>> /\ queue = <<>>
  /\ pc = "idle" /\ mode = "sens" /\ step = 1 /\ attempt = 1
  /\ want \in Words /\ override = 0 /\ target = 0
  /\ first = NoState /\ now = NoState
  /\ status = "none" /\ runs = 0 /\ changes = 0 /\ repeats = 0
  /\ firstAt = active /\ checkAt = active /\ stale = {} /\ readback = "none"

\* What is under way when an exchange begins does not belong to it.
Disown(s) == [i \in DOMAIN s |-> [s[i] EXCEPT !.mine = FALSE]]

Start ==
  /\ pc = "idle" /\ runs < MaxRuns
  /\ runs' = runs + 1 /\ status' = "running" /\ changes' = 0
  /\ mode' \in {"sens", "battery"} /\ want' \in Words
  /\ override' \in IF mode' = "sens" THEN {0} \cup {Address(s) : s \in Stages} ELSE {0}
  /\ pc' = "drain" /\ step' = 1 /\ attempt' = 1
  /\ radio' = Disown(radio) /\ queue' = Disown(queue)
  /\ stale' = {} /\ readback' = "none"
  /\ UNCHANGED <<active, regs, repeats, seen, firstAt, checkAt>>

\* discard_pending_replies
Drain ==
  /\ pc = "drain"
  /\ pc' = "send" /\ queue' = <<>>
  /\ UNCHANGED <<mouse, radio, args, seen, ghosts, step, attempt, status, runs>>

\* The bound on the link loses a request as the air may.
Send ==
  /\ pc = "send"
  /\ pc' = "wait"
  /\ radio' = IF Len(radio) < LinkCap
              THEN Append(radio, [code |-> Code, address |-> Place,
                                  word |-> want, mine |-> TRUE])
              ELSE radio
  /\ UNCHANGED <<mouse, queue, args, seen, ghosts, step, attempt, status, runs>>

Ignore ==
  /\ pc = "wait" /\ queue # <<>> /\ ~Matches(Head(queue))
  /\ queue' = Tail(queue)
  /\ UNCHANGED <<mouse, radio, args, seen, ghosts, pc, step, attempt, status, runs>>

Finish(result) ==
  /\ pc' = "idle" /\ status' = result
  /\ step' = 1 /\ attempt' = 1

Proceed ==
  IF step = Len(Script[mode]) THEN Finish("ok")
  ELSE pc' = "drain" /\ step' = step + 1 /\ attempt' = 1 /\ UNCHANGED status

\* exchange returns 0, response holding this reply.
Answer == Head(queue)

Taken(ask) ==
  /\ pc = "wait" /\ queue # <<>> /\ Ask = ask /\ Matches(Answer)
  /\ queue' = Disown(Tail(queue)) /\ radio' = Disown(radio)
  /\ stale' = IF Answer.mine THEN stale ELSE stale \cup {step}
  /\ UNCHANGED <<mouse, args, runs>>

\* The online flag is advisory for a DPI change, required for the battery.
TakeOnline ==
  /\ Taken("online")
  /\ IF mode = "battery" /\ ~Answer.online THEN Finish("failed") ELSE Proceed
  /\ UNCHANGED <<seen, firstAt, checkAt, readback>>

TakeBattery ==
  /\ Taken("battery") /\ Proceed
  /\ UNCHANGED <<seen, firstAt, checkAt, readback>>

TakeConfig ==
  /\ Taken("config") /\ Proceed
  /\ IF step = 2
     THEN first' = ConfigOf(first, Answer.at) /\ UNCHANGED <<now, checkAt>>
     ELSE /\ now' = ConfigOf(now, Answer.at)
          /\ checkAt' = (IF step = 5 THEN Answer.at ELSE checkAt)
          /\ UNCHANGED first
  /\ UNCHANGED <<target, firstAt, readback>>

\* The first profile completes the state the target is resolved from; the
\* later ones are compared with it, before and after the write.
TakeProfile ==
  /\ Taken("profile")
  /\ IF step = 3
     THEN /\ first' = ProfileOf(first, Answer.at)
          /\ target' = IF override # 0 THEN override ELSE Address(first.stage)
          /\ IF StageAt(target') >= first.count THEN Finish("failed") ELSE Proceed
          /\ firstAt' = Answer.at
          /\ UNCHANGED now
     ELSE /\ now' = ProfileOf(now, Answer.at)
          /\ IF SameState(first, now') THEN Proceed ELSE Finish("failed")
          /\ UNCHANGED <<first, target, firstAt>>
  /\ UNCHANGED <<checkAt, readback>>

RefusedBeforeOnly == step = 4 /\ Answer.word = Corrupt

\* The stored word must be one the driver understands before the write, and
\* the requested one after it.
Refused == (step = 4 /\ Answer.word = Corrupt) \/ (step = 8 /\ Answer.word # want)

TakeWord ==
  /\ Taken("word")
  /\ IF Refused THEN Finish("failed") ELSE Proceed
  /\ readback' = IF step = 8 THEN Answer.code ELSE readback
  /\ UNCHANGED <<seen, firstAt, checkAt>>

TakeEcho ==
  /\ Taken("write") /\ Proceed
  /\ UNCHANGED <<seen, firstAt, checkAt, readback>>

TimeoutUncounted ==
  /\ pc = "wait" /\ pc' = "drain"
  /\ UNCHANGED <<mouse, link, args, seen, ghosts, step, attempt, status, runs>>

\* No answer in time: a read is sent again.
Timeout ==
  /\ pc = "wait"
  /\ IF attempt < Attempts
     THEN pc' = "drain" /\ attempt' = attempt + 1 /\ UNCHANGED <<step, status>>
     ELSE Finish("failed")
  /\ UNCHANGED <<mouse, link, args, seen, ghosts, runs>>

\* A busy queue, a USB error, or a reply that fails its checks.
ExchangeFails ==
  /\ pc # "idle" /\ Finish("failed")
  /\ UNCHANGED <<mouse, link, args, seen, ghosts, runs>>

Killed ==
  /\ pc # "idle" /\ Finish("killed")
  /\ UNCHANGED <<mouse, link, args, seen, ghosts, runs>>

-----------------------------------------------------------------------------
(* The mouse. *)

\* It serves the oldest request, which the link may bring to it again: a
\* write is applied to the profile that is active now, or only echoed; the
\* reply may be lost.
Serve ==
  /\ radio # <<>>
  /\ \/ radio' = Tail(radio) /\ UNCHANGED repeats
     \/ repeats < MaxRepeats /\ repeats' = repeats + 1 /\ UNCHANGED radio
  /\ LET req == Head(radio)
         stage == StageAt(req.address)
         word == IF req.code = "read" /\ req.address # 0
                 THEN regs[active.profile][stage] ELSE req.word
     IN  /\ \/ UNCHANGED regs
            \/ /\ req.code = "write"
               /\ regs' = [regs EXCEPT ![active.profile][stage] = req.word]
         /\ \/ UNCHANGED queue
            \/ /\ Len(queue) < LinkCap
               /\ \E online \in IF req.code = "online" THEN BOOLEAN ELSE {TRUE} :
                    queue' = Append(queue,
                      [code |-> req.code, address |-> req.address, word |-> word,
                       online |-> online, at |-> active, mine |-> req.mine])
  /\ UNCHANGED <<active, changes, args, seen, ghosts, pc, step, attempt, status, runs>>

\* It sleeps through a request.
Lose ==
  /\ radio # <<>> /\ radio' = Tail(radio)
  /\ UNCHANGED <<mouse, queue, args, seen, ghosts, pc, step, attempt, status, runs>>

\* Somebody presses the stage or the profile button.
Change ==
  /\ changes < MaxChanges /\ changes' = changes + 1
  /\ active' \in Places \ {active}
  /\ UNCHANGED <<regs, repeats, link, args, seen, ghosts, pc, step, attempt, status, runs>>

-----------------------------------------------------------------------------
Take ==
  TakeOnline \/ TakeBattery \/ TakeConfig \/ TakeProfile \/ TakeWord \/ TakeEcho

Run == Drain \/ Send \/ Ignore \/ Take \/ Timeout \/ ExchangeFails

Next == Start \/ Run \/ Killed \/ Serve \/ Lose \/ Change

Spec == Init /\ [][Next]_vars /\ WF_vars(Run)

-----------------------------------------------------------------------------
(* Properties *)

Commands == {"online", "read", "profile", "write", "battery"}
Requests == [code : Commands, address : 0 .. (2 + MaxStages), word : Words, mine : BOOLEAN]
Replies == [code : Commands, address : 0 .. (2 + MaxStages), word : Words \cup {Corrupt},
            online : BOOLEAN, at : Places, mine : BOOLEAN]
Readings == [profile : Profiles \cup {0}, stage : Stages, count : 0 .. MaxStages]

TypeOK ==
  /\ active \in Places
  /\ regs \in [Profiles -> [Stages -> Words \cup {Corrupt}]]
  /\ radio \in Seq(Requests) /\ Len(radio) <= LinkCap
  /\ queue \in Seq(Replies) /\ Len(queue) <= LinkCap
  /\ pc \in {"idle", "drain", "send", "wait"}
  /\ mode \in {"sens", "battery"} /\ step \in DOMAIN Script[mode]
  /\ attempt \in 1 .. ReadAttempts
  /\ want \in Words /\ override \in {0} \cup {Address(s) : s \in Stages}
  /\ target \in 0 .. (2 + MaxStages)
  /\ first \in Readings /\ now \in Readings
  /\ status \in {"none", "running", "ok", "failed", "killed"}
  /\ runs \in 0 .. MaxRuns /\ changes \in 0 .. MaxChanges
  /\ repeats \in 0 .. MaxRepeats
  /\ firstAt \in Places /\ checkAt \in Places
  /\ stale \subseteq 1 .. 10 /\ readback \in {"none"} \cup Commands

\* The protocol has no transaction identifiers.  On a link that keeps the
\* order, and has brought no request twice, a run takes no reply to an earlier
\* request for the answer to its own unless its very first answer, to the
\* online query, was such a reply: the alternation of the script flushes
\* whatever else is late.  After one earlier run, killed or failed anywhere,
\* its leftovers answer at most the online query and the first configuration
\* read: the check before the write, the readback and the check after it are
\* of this run.  Whatever is taken, the run's readings and target stay in
\* range (TypeOK).
ChecksFresh ==
  /\ TypeOK
  /\ repeats = 0 => /\ stale # {} => 1 \in stale
                    /\ runs <= 2 => stale \subseteq {1, 2}

\* Exit status 0 means that the requested word is stored in the stage that
\* was reported, in the profile the mouse was in, although the user could
\* change stage or profile once at any moment, echoes may lie, and earlier
\* runs were killed with writes under way: as long as nothing late was taken
\* but for the answers to the first two exchanges (ChecksFresh).
SuccessSound ==
  status = "ok" /\ mode = "sens" /\ changes < 2 /\ stale \subseteq {1, 2} =>
    /\ regs[firstAt.profile][StageAt(target)] = want
    /\ override = 0 => StageAt(target) = firstAt.stage

\* No write goes out when the one change of stage or profile came between
\* the first reading and the check that precedes the write.
StableBeforeWrite ==
  pc # "idle" /\ mode = "sens" /\ step >= 7 /\ changes < 2 => checkAt = firstAt

\* docs/dpi-target-resolver.md:17: "It never infers active-stage correctness
\* from an ACK."
ReadbackIsNoEcho == status = "ok" /\ mode = "sens" => readback = "read"
=============================================================================
