-------------------------- MODULE ExchangePromise --------------------------
(***************************************************************************)
(* What "exchange" in src/driver.c promises its callers, with no transfer, *)
(* queue or clock in sight: a request goes out at most as often as its     *)
(* kind allows, success means it went out, and a timeout is reported only  *)
(* when every permitted attempt went out and none was answered.            *)
(***************************************************************************)
EXTENDS Naturals

CONSTANT ReadAttempts

VARIABLES phase, request, sends, verdict

avars == <<phase, request, sends, verdict>>

Commands == {"read", "write"}
Limit(c) == IF c = "read" THEN ReadAttempts ELSE 1

AInit ==
  /\ phase = "idle" /\ request \in Commands
  /\ sends = 0 /\ verdict = "none"

ACall ==
  /\ phase = "idle" /\ phase' = "busy"
  /\ request' \in Commands /\ sends' = 0 /\ verdict' = "none"

ASend ==
  /\ phase = "busy" /\ sends < Limit(request)
  /\ sends' = sends + 1
  /\ UNCHANGED <<phase, request, verdict>>

AReturn ==
  /\ phase = "busy" /\ phase' = "idle"
  /\ \/ verdict' = "ok" /\ sends > 0
     \/ verdict' = "timeout" /\ sends = Limit(request)
     \/ verdict' = "error"
  /\ UNCHANGED <<request, sends>>

ANext == ACall \/ ASend \/ AReturn

\* A call that has begun returns.
ASpec == AInit /\ [][ANext]_avars /\ WF_avars(AReturn)
=============================================================================
