---------------------------- MODULE ProgramProofs ----------------------------
(***************************************************************************)
(* What TLAPS proves of the program around the exchanges:                  *)
(*                                                                         *)
(* Session, for any set of processes, any number of runs and any number of *)
(* cables pulled;                                                          *)
(*                                                                         *)
(* Reports, for all levels, bytes and addresses: the two pieces of         *)
(* arithmetic that write and read a DPI word are inverse to each other,    *)
(* every report that is built closes its sum, and the resolved target is   *)
(* usable.  Products with 256, 68 and 50 are kept away from quotients by   *)
(* hiding the definitions of the fields once their ranges are known;       *)
(*                                                                         *)
(* Presets, for any names, levels and number of entries, and Cli, for any  *)
(* arguments.  What the parser, a recursive function, makes of a file      *)
(* follows from the least number of entries for which it would be          *)
(* something else.                                                         *)
(***************************************************************************)
EXTENDS Session, Reports, Cli, SequenceTheorems, WellFoundedInduction, TLAPS

-----------------------------------------------------------------------------
(* Session. *)

\* A handle is open in these phases only, and alive only on a connected mouse.
HandleInv ==
  /\ \A p \in Procs :
       /\ device[p] = "none" <=> pc[p] \in {"idle", "init", "wired", "wireless", "exit"}
       /\ live[p] => device[p] \in plugged
       /\ context[p] => pc[p] \notin {"idle", "init"}
  /\ \A d \in Devices \ plugged : bound[d] = "none"

\* libusb's record of the claim against the kernel's.
ClaimInv ==
  /\ \A p \in Procs : claimed[p] => pc[p] \in {"work", "release", "close"}
  /\ \A p \in Procs : \A d \in Devices :
       bound[d] = p => device[p] = d /\ live[p] /\ claimed[p]

\* Only old kernels ask before they disconnect; who claims in between is
\* contested from then on.
ContestInv ==
  /\ \A p \in Procs : contested[p] \/ pc[p] \in {"detach", "disconnect", "plain"} => oldKernel
  /\ \A p, q \in Procs :
       pc[q] = "disconnect" /\ live[q] /\ bound[device[q]] = p => contested[p]

IInv == TypeOK /\ HandleInv /\ ClaimInv /\ ContestInv /\ WorksAlone /\ OrphanExcused

\* Every step of the specification preserves the invariant.
LEMMA StepInv == IInv /\ [Next]_vars => IInv'
<1> SUFFICES ASSUME IInv, [Next]_vars PROVE IInv'
  OBVIOUS
<1> USE DEF IInv, At, Go, world, given, local, handle
<1>1. ASSUME NEW q \in Procs, Start(q) PROVE IInv'
  <2> USE <1>1 DEF Start
  <2>1. TypeOK'
    BY SessionAssumption DEF TypeOK, Phases, Reasons, HandleInv
  <2>2. HandleInv'
    BY DEF TypeOK, HandleInv, ClaimInv
  <2>3. ClaimInv'
    BY DEF TypeOK, HandleInv, ClaimInv, WorksAlone
  <2>4. WorksAlone'
    BY DEF TypeOK, HandleInv, ClaimInv, WorksAlone
  <2>5. OrphanExcused'
    BY DEF TypeOK, HandleInv, ClaimInv, WorksAlone, OrphanExcused
  <2>6. ContestInv'
    BY DEF TypeOK, HandleInv, ClaimInv, WorksAlone, ContestInv
  <2> QED
    BY <2>1, <2>2, <2>3, <2>4, <2>5, <2>6
<1>2. ASSUME NEW q \in Procs, InitLibusb(q) PROVE IInv'
  <2> USE <1>2 DEF InitLibusb
  <2>1. TypeOK'
    BY DEF TypeOK, Phases, Reasons, HandleInv
  <2>2. HandleInv'
    BY DEF TypeOK, HandleInv, ClaimInv
  <2>3. ClaimInv'
    BY DEF TypeOK, HandleInv, ClaimInv, WorksAlone
  <2>4. WorksAlone'
    BY DEF TypeOK, HandleInv, ClaimInv, WorksAlone
  <2>5. OrphanExcused'
    BY DEF TypeOK, HandleInv, ClaimInv, WorksAlone, OrphanExcused
  <2>6. ContestInv'
    BY DEF TypeOK, HandleInv, ClaimInv, WorksAlone, ContestInv
  <2> QED
    BY <2>1, <2>2, <2>3, <2>4, <2>5, <2>6
<1>3. ASSUME NEW q \in Procs, OpenWired(q) PROVE IInv'
  <2> USE <1>3 DEF OpenWired, Opened
  <2>1. TypeOK'
    <3>1. pc' \in [Procs -> Phases]
      BY DEF TypeOK, Phases
    <3>2. CASE Opened(q, "wired")
      <4>1. device' \in [Procs -> Devices \cup {"none"}]
        BY <3>2 DEF TypeOK, Devices
      <4>2. live' \in [Procs -> BOOLEAN]
        BY <3>2 DEF TypeOK
      <4> QED
        BY <3>1, <4>1, <4>2 DEF TypeOK
    <3>3. CASE UNCHANGED <<device, live>>
      BY <3>1, <3>3 DEF TypeOK
    <3> QED
      BY <3>2, <3>3
  <2>2. HandleInv'
    BY DEF TypeOK, HandleInv, ClaimInv
  <2>3. ClaimInv'
    BY DEF TypeOK, HandleInv, ClaimInv, WorksAlone
  <2>4. WorksAlone'
    BY DEF TypeOK, HandleInv, ClaimInv, WorksAlone
  <2>5. OrphanExcused'
    BY DEF TypeOK, HandleInv, ClaimInv, WorksAlone, OrphanExcused
  <2>6. ContestInv'
    BY DEF TypeOK, HandleInv, ClaimInv, WorksAlone, ContestInv
  <2> QED
    BY <2>1, <2>2, <2>3, <2>4, <2>5, <2>6
<1>4. ASSUME NEW q \in Procs, OpenWireless(q) PROVE IInv'
  <2> USE <1>4 DEF OpenWireless, Opened
  <2>1. TypeOK'
    <3>1. pc' \in [Procs -> Phases]
      BY DEF TypeOK, Phases
    <3>2. CASE Opened(q, "wireless")
      <4>1. device' \in [Procs -> Devices \cup {"none"}]
        BY <3>2 DEF TypeOK, Devices
      <4>2. live' \in [Procs -> BOOLEAN]
        BY <3>2 DEF TypeOK
      <4> QED
        BY <3>1, <4>1, <4>2 DEF TypeOK
    <3>3. CASE UNCHANGED <<device, live>>
      BY <3>1, <3>3 DEF TypeOK
    <3> QED
      BY <3>2, <3>3
  <2>2. HandleInv'
    BY DEF TypeOK, HandleInv, ClaimInv
  <2>3. ClaimInv'
    BY DEF TypeOK, HandleInv, ClaimInv, WorksAlone
  <2>4. WorksAlone'
    BY DEF TypeOK, HandleInv, ClaimInv, WorksAlone
  <2>5. OrphanExcused'
    BY DEF TypeOK, HandleInv, ClaimInv, WorksAlone, OrphanExcused
  <2>6. ContestInv'
    BY DEF TypeOK, HandleInv, ClaimInv, WorksAlone, ContestInv
  <2> QED
    BY <2>1, <2>2, <2>3, <2>4, <2>5, <2>6
<1>5. ASSUME NEW q \in Procs, Claim(q) PROVE IInv'
  <2> USE <1>5 DEF Claim, Claimable, Claimed, Bind
  <2>1. TypeOK'
    BY DEF TypeOK, Phases, Reasons, HandleInv
  <2>2. HandleInv'
    BY DEF TypeOK, HandleInv, ClaimInv
  <2>3. ClaimInv'
    BY SessionAssumption DEF TypeOK, HandleInv, ClaimInv, WorksAlone, Nobody
  <2>4. WorksAlone'
    BY SessionAssumption DEF TypeOK, HandleInv, ClaimInv, WorksAlone, Nobody
  <2>5. OrphanExcused'
    BY SessionAssumption DEF TypeOK, HandleInv, ClaimInv, WorksAlone, OrphanExcused, Nobody
  <2>6. ContestInv'
    BY SessionAssumption DEF TypeOK, HandleInv, ClaimInv, WorksAlone, Nobody, ContestInv
  <2> QED
    BY <2>1, <2>2, <2>3, <2>4, <2>5, <2>6
<1>6. ASSUME NEW q \in Procs, ClaimFails(q) PROVE IInv'
  <2> USE <1>6 DEF ClaimFails
  <2>1. TypeOK'
    BY DEF TypeOK, Phases, Reasons, HandleInv
  <2>2. HandleInv'
    BY DEF TypeOK, HandleInv, ClaimInv
  <2>3. ClaimInv'
    BY DEF TypeOK, HandleInv, ClaimInv, WorksAlone
  <2>4. WorksAlone'
    BY DEF TypeOK, HandleInv, ClaimInv, WorksAlone
  <2>5. OrphanExcused'
    BY DEF TypeOK, HandleInv, ClaimInv, WorksAlone, OrphanExcused
  <2>6. ContestInv'
    BY DEF TypeOK, HandleInv, ClaimInv, WorksAlone, ContestInv
  <2> QED
    BY <2>1, <2>2, <2>3, <2>4, <2>5, <2>6
<1>7. ASSUME NEW q \in Procs, Detach(q) PROVE IInv'
  <2> USE <1>7 DEF Detach, UsedByRun
  <2>1. TypeOK'
    BY DEF TypeOK, Phases, Reasons, HandleInv
  <2>2. HandleInv'
    BY DEF TypeOK, HandleInv, ClaimInv
  <2>3. ClaimInv'
    BY SessionAssumption DEF TypeOK, HandleInv, ClaimInv, WorksAlone, Nobody
  <2>4. WorksAlone'
    BY SessionAssumption DEF TypeOK, HandleInv, ClaimInv, WorksAlone, Nobody
  <2>5. OrphanExcused'
    BY DEF TypeOK, HandleInv, ClaimInv, WorksAlone, OrphanExcused
  <2>6. ContestInv'
    BY SessionAssumption DEF TypeOK, HandleInv, ClaimInv, WorksAlone, Nobody, ContestInv
  <2> QED
    BY <2>1, <2>2, <2>3, <2>4, <2>5, <2>6
<1>8. ASSUME NEW q \in Procs, ClaimPlain(q) PROVE IInv'
  <2> USE <1>8 DEF ClaimPlain, Claimed, Bind, Orphan
  <2>1. TypeOK'
    BY DEF TypeOK, Phases, Reasons, HandleInv
  <2>2. HandleInv'
    BY DEF TypeOK, HandleInv, ClaimInv
  <2>3. ClaimInv'
    BY SessionAssumption DEF TypeOK, HandleInv, ClaimInv, WorksAlone, Nobody
  <2>4. WorksAlone'
    BY SessionAssumption DEF TypeOK, HandleInv, ClaimInv, WorksAlone, Nobody
  <2>5. OrphanExcused'
    BY DEF TypeOK, HandleInv, ClaimInv, WorksAlone, OrphanExcused
  <2>6. ContestInv'
    BY SessionAssumption DEF TypeOK, HandleInv, ClaimInv, WorksAlone, Nobody, ContestInv
  <2> QED
    BY <2>1, <2>2, <2>3, <2>4, <2>5, <2>6
<1>9. ASSUME NEW q \in Procs, ClaimPlainFails(q) PROVE IInv'
  <2> USE <1>9 DEF ClaimPlainFails
  <2>1. TypeOK'
    BY DEF TypeOK, Phases, Reasons, HandleInv, Blame, Orphan
  <2>2. HandleInv'
    BY DEF TypeOK, HandleInv, ClaimInv
  <2>3. ClaimInv'
    BY DEF TypeOK, HandleInv, ClaimInv, WorksAlone
  <2>4. WorksAlone'
    BY DEF TypeOK, HandleInv, ClaimInv, WorksAlone
  <2>5. OrphanExcused'
    <3> SUFFICES ASSUME NEW e \in plugged', bound'[e] = "none"
                 PROVE  \/ excuse'[e] # {}
                        \/ \E p \in Procs : device'[p] = e /\ live'[p] /\ pc'[p] \in {"plain", "attach"}
      BY DEF OrphanExcused
    <3> USE DEF TypeOK, Devices, Orphan, Blame
    <3>1. excuse[e] \subseteq excuse'[e]
      OBVIOUS
    <3>2. CASE device[q] = e /\ live[q] /\ pc[q] \in {"plain", "attach"}
      <4>1. excuse'[e] = excuse[e] \cup {"unclaimed"}
        BY <3>2
      <4> QED
        BY <4>1
    <3>3. CASE ~(device[q] = e /\ live[q] /\ pc[q] \in {"plain", "attach"})
      <4>1. bound[e] = "none"
        BY <3>3
      <4>2. CASE excuse[e] # {}
        BY <3>1, <4>2
      <4>3. CASE \E p \in Procs : device[p] = e /\ live[p] /\ pc[p] \in {"plain", "attach"}
        BY <3>3, <4>3
      <4> QED
        BY <4>1, <4>2, <4>3 DEF OrphanExcused
    <3> QED
      BY <3>2, <3>3
  <2>6. ContestInv'
    BY DEF TypeOK, HandleInv, ClaimInv, WorksAlone, ContestInv
  <2> QED
    BY <2>1, <2>2, <2>3, <2>4, <2>5, <2>6
<1>10. ASSUME NEW q \in Procs, Work(q) PROVE IInv'
  <2> USE <1>10 DEF Work
  <2>1. TypeOK'
    BY DEF TypeOK, Phases, Reasons, HandleInv
  <2>2. HandleInv'
    BY DEF TypeOK, HandleInv, ClaimInv
  <2>3. ClaimInv'
    BY DEF TypeOK, HandleInv, ClaimInv, WorksAlone
  <2>4. WorksAlone'
    BY DEF TypeOK, HandleInv, ClaimInv, WorksAlone
  <2>5. OrphanExcused'
    BY DEF TypeOK, HandleInv, ClaimInv, WorksAlone, OrphanExcused
  <2>6. ContestInv'
    BY DEF TypeOK, HandleInv, ClaimInv, WorksAlone, ContestInv
  <2> QED
    BY <2>1, <2>2, <2>3, <2>4, <2>5, <2>6
<1>11. ASSUME NEW q \in Procs, Release(q) PROVE IInv'
  <2> USE <1>11 DEF Release, Bind
  <2>1. TypeOK'
    BY DEF TypeOK, Phases, Reasons, HandleInv
  <2>2. HandleInv'
    BY DEF TypeOK, HandleInv, ClaimInv
  <2>3. ClaimInv'
    BY SessionAssumption DEF TypeOK, HandleInv, ClaimInv, WorksAlone, Nobody
  <2>4. WorksAlone'
    BY SessionAssumption DEF TypeOK, HandleInv, ClaimInv, WorksAlone, Nobody
  <2>5. OrphanExcused'
    BY DEF TypeOK, HandleInv, ClaimInv, WorksAlone, OrphanExcused
  <2>6. ContestInv'
    BY SessionAssumption DEF TypeOK, HandleInv, ClaimInv, WorksAlone, Nobody, ContestInv
  <2> QED
    BY <2>1, <2>2, <2>3, <2>4, <2>5, <2>6
<1>12. ASSUME NEW q \in Procs, ReleaseFails(q) PROVE IInv'
  <2> USE <1>12 DEF ReleaseFails
  <2>1. TypeOK'
    BY DEF TypeOK, Phases, Reasons, HandleInv
  <2>2. HandleInv'
    BY DEF TypeOK, HandleInv, ClaimInv
  <2>3. ClaimInv'
    BY DEF TypeOK, HandleInv, ClaimInv, WorksAlone
  <2>4. WorksAlone'
    BY DEF TypeOK, HandleInv, ClaimInv, WorksAlone
  <2>5. OrphanExcused'
    BY DEF TypeOK, HandleInv, ClaimInv, WorksAlone, OrphanExcused
  <2>6. ContestInv'
    BY DEF TypeOK, HandleInv, ClaimInv, WorksAlone, ContestInv
  <2> QED
    BY <2>1, <2>2, <2>3, <2>4, <2>5, <2>6
<1>13. ASSUME NEW q \in Procs, Attach(q) PROVE IInv'
  <2> USE <1>13 DEF Attach, Bind, Orphan
  <2>1. TypeOK'
    BY DEF TypeOK, Phases, Reasons, HandleInv
  <2>2. HandleInv'
    BY DEF TypeOK, HandleInv, ClaimInv
  <2>3. ClaimInv'
    BY SessionAssumption DEF TypeOK, HandleInv, ClaimInv, WorksAlone, Nobody
  <2>4. WorksAlone'
    BY SessionAssumption DEF TypeOK, HandleInv, ClaimInv, WorksAlone, Nobody
  <2>5. OrphanExcused'
    BY DEF TypeOK, HandleInv, ClaimInv, WorksAlone, OrphanExcused
  <2>6. ContestInv'
    BY SessionAssumption DEF TypeOK, HandleInv, ClaimInv, WorksAlone, Nobody, ContestInv
  <2> QED
    BY <2>1, <2>2, <2>3, <2>4, <2>5, <2>6
<1>14. ASSUME NEW q \in Procs, AttachRefused(q) PROVE IInv'
  <2> USE <1>14 DEF AttachRefused
  <2>1. TypeOK'
    BY DEF TypeOK, Phases, Reasons, HandleInv, Blame, Orphan
  <2>2. HandleInv'
    BY DEF TypeOK, HandleInv, ClaimInv
  <2>3. ClaimInv'
    BY DEF TypeOK, HandleInv, ClaimInv, WorksAlone
  <2>4. WorksAlone'
    BY DEF TypeOK, HandleInv, ClaimInv, WorksAlone
  <2>5. OrphanExcused'
    <3> SUFFICES ASSUME NEW e \in plugged', bound'[e] = "none"
                 PROVE  \/ excuse'[e] # {}
                        \/ \E p \in Procs : device'[p] = e /\ live'[p] /\ pc'[p] \in {"plain", "attach"}
      BY DEF OrphanExcused
    <3> USE DEF TypeOK, Devices, Orphan, Blame
    <3>1. excuse[e] \subseteq excuse'[e]
      OBVIOUS
    <3>2. CASE device[q] = e /\ live[q] /\ pc[q] \in {"plain", "attach"}
      <4>1. excuse'[e] = excuse[e] \cup {"refused"}
        BY <3>2
      <4> QED
        BY <4>1
    <3>3. CASE ~(device[q] = e /\ live[q] /\ pc[q] \in {"plain", "attach"})
      <4>1. bound[e] = "none"
        BY <3>3
      <4>2. CASE excuse[e] # {}
        BY <3>1, <4>2
      <4>3. CASE \E p \in Procs : device[p] = e /\ live[p] /\ pc[p] \in {"plain", "attach"}
        BY <3>3, <4>3
      <4> QED
        BY <4>1, <4>2, <4>3 DEF OrphanExcused
    <3> QED
      BY <3>2, <3>3
  <2>6. ContestInv'
    BY DEF TypeOK, HandleInv, ClaimInv, WorksAlone, ContestInv
  <2> QED
    BY <2>1, <2>2, <2>3, <2>4, <2>5, <2>6
<1>15. ASSUME NEW q \in Procs, Close(q) PROVE IInv'
  <2> USE <1>15 DEF Close, Drop, Orphan
  <2>1. TypeOK'
    BY DEF TypeOK, Phases, Reasons, HandleInv
  <2>2. HandleInv'
    BY DEF TypeOK, HandleInv, ClaimInv
  <2>3. ClaimInv'
    BY SessionAssumption DEF TypeOK, HandleInv, ClaimInv, WorksAlone, Nobody
  <2>4. WorksAlone'
    BY SessionAssumption DEF TypeOK, HandleInv, ClaimInv, WorksAlone, Nobody
  <2>5. OrphanExcused'
    <3> SUFFICES ASSUME NEW e \in plugged', bound'[e] = "none"
                 PROVE  \/ excuse'[e] # {}
                        \/ \E p \in Procs : device'[p] = e /\ live'[p] /\ pc'[p] \in {"plain", "attach"}
      BY DEF OrphanExcused
    <3> USE DEF TypeOK, Devices, Orphan
    <3>1. excuse[e] \subseteq excuse'[e]
      OBVIOUS
    <3>2. CASE (device[q] = e /\ live[q] /\ pc[q] \in {"plain", "attach"}) \/ bound[e] = q
      <4>1. excuse'[e] = excuse[e] \cup {"unreleased"}
        BY <3>2
      <4> QED
        BY <4>1
    <3>3. CASE ~(device[q] = e /\ live[q] /\ pc[q] \in {"plain", "attach"}) /\ bound[e] # q
      <4>1. bound[e] = "none"
        BY <3>3
      <4>2. CASE excuse[e] # {}
        BY <3>1, <4>2
      <4>3. CASE \E p \in Procs : device[p] = e /\ live[p] /\ pc[p] \in {"plain", "attach"}
        BY <3>3, <4>3
      <4> QED
        BY <4>1, <4>2, <4>3 DEF OrphanExcused
    <3> QED
      BY <3>2, <3>3
  <2>6. ContestInv'
    BY SessionAssumption DEF TypeOK, HandleInv, ClaimInv, WorksAlone, Nobody, ContestInv
  <2> QED
    BY <2>1, <2>2, <2>3, <2>4, <2>5, <2>6
<1>16. ASSUME NEW q \in Procs, Exit(q) PROVE IInv'
  <2> USE <1>16 DEF Exit
  <2>1. TypeOK'
    BY DEF TypeOK, Phases, Reasons, HandleInv
  <2>2. HandleInv'
    BY DEF TypeOK, HandleInv, ClaimInv
  <2>3. ClaimInv'
    BY DEF TypeOK, HandleInv, ClaimInv, WorksAlone
  <2>4. WorksAlone'
    BY DEF TypeOK, HandleInv, ClaimInv, WorksAlone
  <2>5. OrphanExcused'
    BY DEF TypeOK, HandleInv, ClaimInv, WorksAlone, OrphanExcused
  <2>6. ContestInv'
    BY DEF TypeOK, HandleInv, ClaimInv, WorksAlone, ContestInv
  <2> QED
    BY <2>1, <2>2, <2>3, <2>4, <2>5, <2>6
<1>17. ASSUME NEW q \in Procs, Killed(q) PROVE IInv'
  <2> USE <1>17 DEF Killed, Drop, Orphan
  <2>1. TypeOK'
    BY DEF TypeOK, Phases, Reasons, HandleInv
  <2>2. HandleInv'
    BY DEF TypeOK, HandleInv, ClaimInv
  <2>3. ClaimInv'
    BY SessionAssumption DEF TypeOK, HandleInv, ClaimInv, WorksAlone, Nobody
  <2>4. WorksAlone'
    BY SessionAssumption DEF TypeOK, HandleInv, ClaimInv, WorksAlone, Nobody
  <2>5. OrphanExcused'
    <3> SUFFICES ASSUME NEW e \in plugged', bound'[e] = "none"
                 PROVE  \/ excuse'[e] # {}
                        \/ \E p \in Procs : device'[p] = e /\ live'[p] /\ pc'[p] \in {"plain", "attach"}
      BY DEF OrphanExcused
    <3> USE DEF TypeOK, Devices, Orphan
    <3>1. excuse[e] \subseteq excuse'[e]
      OBVIOUS
    <3>2. CASE (device[q] = e /\ live[q] /\ pc[q] \in {"plain", "attach"}) \/ bound[e] = q
      <4>1. excuse'[e] = excuse[e] \cup {"killed"}
        BY <3>2
      <4> QED
        BY <4>1
    <3>3. CASE ~(device[q] = e /\ live[q] /\ pc[q] \in {"plain", "attach"}) /\ bound[e] # q
      <4>1. bound[e] = "none"
        BY <3>3
      <4>2. CASE excuse[e] # {}
        BY <3>1, <4>2
      <4>3. CASE \E p \in Procs : device[p] = e /\ live[p] /\ pc[p] \in {"plain", "attach"}
        BY <3>3, <4>3
      <4> QED
        BY <4>1, <4>2, <4>3 DEF OrphanExcused
    <3> QED
      BY <3>2, <3>3
  <2>6. ContestInv'
    BY SessionAssumption DEF TypeOK, HandleInv, ClaimInv, WorksAlone, Nobody, ContestInv
  <2> QED
    BY <2>1, <2>2, <2>3, <2>4, <2>5, <2>6
<1>18. ASSUME NEW d \in Devices, Unplug(d) PROVE IInv'
  <2> USE <1>18 DEF Unplug
  <2>1. TypeOK'
    BY DEF TypeOK, Phases, Reasons, HandleInv
  <2>2. HandleInv'
    <3>1. \A p \in Procs :
            /\ device'[p] = "none" <=> pc'[p] \in {"idle", "init", "wired", "wireless", "exit"}
            /\ context'[p] => pc'[p] \notin {"idle", "init"}
      BY DEF HandleInv
    <3>2. \A p \in Procs : live'[p] => device'[p] \in plugged'
      BY DEF HandleInv
    <3>3. \A e \in Devices \ plugged' : bound'[e] = "none"
      BY DEF HandleInv, TypeOK
    <3> QED
      BY <3>1, <3>2, <3>3 DEF HandleInv
  <2>3. ClaimInv'
    BY SessionAssumption DEF TypeOK, HandleInv, ClaimInv, WorksAlone, Nobody
  <2>4. WorksAlone'
    BY SessionAssumption DEF TypeOK, HandleInv, ClaimInv, WorksAlone, Nobody
  <2>5. OrphanExcused'
    BY DEF TypeOK, HandleInv, ClaimInv, WorksAlone, OrphanExcused
  <2>6. ContestInv'
    BY SessionAssumption DEF TypeOK, HandleInv, ClaimInv, WorksAlone, Nobody, ContestInv
  <2> QED
    BY <2>1, <2>2, <2>3, <2>4, <2>5, <2>6
<1>19. ASSUME NEW d \in Devices, Plug(d) PROVE IInv'
  <2> USE <1>19 DEF Plug
  <2>1. TypeOK'
    BY SessionAssumption DEF TypeOK, Phases, Reasons, HandleInv
  <2>2. HandleInv'
    BY DEF TypeOK, HandleInv, ClaimInv
  <2>3. ClaimInv'
    BY SessionAssumption DEF TypeOK, HandleInv, ClaimInv, WorksAlone, Nobody
  <2>4. WorksAlone'
    BY SessionAssumption DEF TypeOK, HandleInv, ClaimInv, WorksAlone, Nobody
  <2>5. OrphanExcused'
    BY DEF TypeOK, HandleInv, ClaimInv, WorksAlone, OrphanExcused
  <2>6. ContestInv'
    BY SessionAssumption DEF TypeOK, HandleInv, ClaimInv, WorksAlone, Nobody, ContestInv
  <2> QED
    BY <2>1, <2>2, <2>3, <2>4, <2>5, <2>6
<1>20. ASSUME NEW q \in Procs, Disconnect(q) PROVE IInv'
  <2> USE <1>20 DEF Disconnect, Bind
  <2>1. TypeOK'
    BY DEF TypeOK, Phases, Reasons, HandleInv
  <2>2. HandleInv'
    BY DEF TypeOK, HandleInv, ClaimInv
  <2>3. ClaimInv'
    BY SessionAssumption DEF TypeOK, HandleInv, ClaimInv, WorksAlone, Nobody
  <2>4. WorksAlone'
    BY SessionAssumption DEF TypeOK, HandleInv, ClaimInv, ContestInv, WorksAlone, Nobody
  <2>5. OrphanExcused'
    BY DEF TypeOK, HandleInv, ClaimInv, WorksAlone, OrphanExcused
  <2>6. ContestInv'
    BY SessionAssumption DEF TypeOK, HandleInv, ClaimInv, WorksAlone, Nobody, ContestInv
  <2> QED
    BY <2>1, <2>2, <2>3, <2>4, <2>5, <2>6
<1>21. CASE UNCHANGED vars
  BY <1>21 DEF vars, TypeOK, HandleInv, ClaimInv, ContestInv, WorksAlone, OrphanExcused
<1> QED
  BY <1>1, <1>2, <1>3, <1>4, <1>5, <1>6, <1>7, <1>8, <1>9, <1>10, <1>11, <1>12, <1>13, <1>14, <1>15, <1>16, <1>17, <1>18, <1>19, <1>20, <1>21
  DEF Next, Step

LEMMA InitInv == Init => IInv
<1> SUFFICES ASSUME Init PROVE IInv
  OBVIOUS
<1> USE SessionAssumption DEF Init, IInv, Devices, Nobody, Phases, Reasons, At
<1>1. TypeOK
  BY DEF TypeOK
<1>2. HandleInv /\ ClaimInv /\ ContestInv /\ WorksAlone /\ OrphanExcused
  BY DEF HandleInv, ClaimInv, ContestInv, WorksAlone, OrphanExcused
<1> QED
  BY <1>1, <1>2

LEMMA SpecInv == Spec => []IInv
BY InitInv, StepInv, PTL DEF Spec

\* Every variable keeps its type.
THEOREM TypeCorrect == Spec => []TypeOK
BY SpecInv, PTL DEF IInv

\* However many runs compete for a mouse, are killed, or lose it to the cable,
\* one at a time talks to it; on old kernels a run may be thrown off, but by
\* none that asked for the driver after it had claimed.
THEOREM Exclusion == Spec => []WorksAlone
BY SpecInv, PTL DEF IInv

\* A run that is over keeps nothing, on any of its paths.
THEOREM NoLeak == Spec => []NothingKept
<1>1. IInv => NothingKept
  BY DEF IInv, TypeOK, HandleInv, ClaimInv, NothingKept, At
<1> QED
  BY <1>1, SpecInv, PTL

\* A mouse is without a driver only in the cases OrphanExcused lists.
THEOREM OrphansExcused == Spec => []OrphanExcused
BY SpecInv, PTL DEF IInv

-----------------------------------------------------------------------------
(* Reports: the arithmetic. *)

\* The sum of a report's bytes is a number.
LEMMA HeadInt == ASSUME NEW r \in Report PROVE LeadingSum(r) \in Int
<1>1. \A i \in 0 .. 16 : r[i] \in Int
  BY SMT DEF Report, Size, Byte
<1>2. /\ r[0] \in Int /\ r[1] \in Int /\ r[2] \in Int /\ r[3] \in Int
      /\ r[4] \in Int /\ r[5] \in Int /\ r[6] \in Int /\ r[7] \in Int
      /\ r[8] \in Int /\ r[9] \in Int /\ r[10] \in Int /\ r[11] \in Int
      /\ r[12] \in Int /\ r[13] \in Int /\ r[14] \in Int /\ r[15] \in Int
  BY <1>1
<1> QED BY <1>2, SMT DEF LeadingSum

\* finish_report changes the last byte only, and makes all of them sum to 0x55.
LEMMA FinishSum ==
  ASSUME NEW r \in Report
  PROVE  SumOK(Finish(r)) /\ \A i \in 0 .. 15 : Finish(r)[i] = r[i]
<1>1. \A i \in 0 .. 15 : Finish(r)[i] = r[i]
  BY SMT DEF Finish, Report, Size
<1>2. LeadingSum(Finish(r)) = LeadingSum(r)
  BY <1>1 DEF LeadingSum
<1>3. Finish(r)[Size - 1] = (85 - LeadingSum(r)) % 256
  BY SMT DEF Finish, Report, Size
<1>4. (LeadingSum(r) + ((85 - LeadingSum(r)) % 256)) % 256 = 85
  BY HeadInt, SMT
<1>5. SumOK(Finish(r))
  BY <1>2, <1>3, <1>4, HeadInt DEF SumOK
<1> QED BY <1>1, <1>5

\* The byte that closes a sum to 0x55 is determined by the rest.
LEMMA Closes ==
  ASSUME NEW s \in Int, NEW d \in 0 .. 255, (s + d) % 256 = 85
  PROVE  (85 - s) % 256 = d
<1> DEFINE k == (s + d) \div 256
<1>1. k \in Int /\ s + d = 85 + 256 * k
  BY SMT
<1> HIDE DEF k
<1>2. 85 - s = d + 256 * (-k)
  BY <1>1, SMT
<1>3. (d + 256 * (-k)) % 256 = d
  BY <1>1, SMT
<1> QED BY <1>2, <1>3

\* A word that is read out as one value is the word get_payload writes for it.
LEMMA Decode ==
  ASSUME NEW w \in Word, Readable(w), XOf(w) = YOf(w)
  PROVE  w = WordOf(XOf(w))
<1> DEFINE a == w[0]
           b == w[1]
           c == w[2]
           d == w[3]
           p == (c \div 4) % 4
           q == (c \div 64) % 4
           value == XOf(w) \div 50 - 1
<1>1. \A i \in 0 .. 3 : w[i] \in 0 .. 255
  BY SMT DEF Word, Byte
<1>2. a \in 0 .. 255 /\ b \in 0 .. 255 /\ c \in 0 .. 255 /\ d \in 0 .. 255
  BY <1>1
<1>3. /\ (a + b + c + d) % 256 = 85 /\ c % 4 = 0 /\ (c \div 16) % 4 = 0
      /\ (a + p * 256 + 1) * 50 = (b + q * 256 + 1) * 50
      /\ value = ((a + p * 256 + 1) * 50) \div 50 - 1
  BY DEF Readable, XOf, YOf
<1> HIDE DEF a, b, c, d, value
<1>4. p \in 0 .. 3 /\ q \in 0 .. 3
  BY <1>2, SMT
<1>5. a = b /\ p = q
  <2> HIDE DEF p, q
  <2> QED BY <1>2, <1>3, <1>4, SMT
<1>6. c = 68 * p
  BY <1>2, <1>3, <1>5, SMT
<1> HIDE DEF p, q
<1>7. value = a + p * 256
  BY <1>2, <1>3, <1>4, SMT
<1>8. value % 256 = a /\ value \div 256 = p
  BY <1>2, <1>4, <1>7, SMT
<1>9. (p * 68) % 256 = c
  BY <1>2, <1>4, <1>6, SMT
<1>10. (85 - a - a - c) % 256 = d
  <2> DEFINE s == a + a + c
  <2>1. s \in Int /\ (s + d) % 256 = 85 /\ 85 - a - a - c = 85 - s
    BY <1>2, <1>3, <1>5, SMT
  <2> HIDE DEF s
  <2>2. (85 - s) % 256 = d
    BY <1>2, <2>1, Closes
  <2> QED BY <2>1, <2>2
<1>11. WordOf(XOf(w)) = [i \in 0 .. 3 |-> IF i <= 1 THEN a ELSE IF i = 2 THEN c ELSE d]
  BY <1>8, <1>9, <1>10 DEF WordOf, value
<1>12. \A i \in 0 .. 3 : (IF i <= 1 THEN a ELSE IF i = 2 THEN c ELSE d) = w[i]
  BY <1>5, SMT DEF a, b, c, d
<1>13. w = [i \in 0 .. 3 |-> w[i]]
  BY DEF Word
<1> QED BY <1>11, <1>12, <1>13

\* What get_payload writes for a level is read out as that level.
LEMMA Encode ==
  ASSUME NEW level \in Int, LevelOK(level)
  PROVE  /\ WordOf(level) \in Word /\ Readable(WordOf(level))
         /\ XOf(WordOf(level)) = level /\ YOf(WordOf(level)) = level
<1> DEFINE value == level \div 50 - 1
           low == value % 256
           high == ((value \div 256) * 68) % 256
           last == (85 - low - low - high) % 256
<1>1. value \in 0 .. 519 /\ level = (value + 1) * 50
  BY SMT DEF LevelOK
<1>2. WordOf(level) = [i \in 0 .. 3 |-> IF i <= 1 THEN low ELSE IF i = 2 THEN high ELSE last]
  BY DEF WordOf
<1> HIDE DEF value
<1>3. /\ value \div 256 \in 0 .. 2 /\ low \in 0 .. 255
      /\ value = low + (value \div 256) * 256
  BY <1>1, SMT
<1>4. high \in Byte /\ high % 4 = 0 /\ (high \div 16) % 4 = 0
  BY <1>3, SMT DEF Byte
<1>5. (high \div 4) % 4 = value \div 256 /\ (high \div 64) % 4 = value \div 256
  BY <1>3, SMT
<1> HIDE DEF low, high
<1>6. last \in Byte /\ (low + low + high + last) % 256 = 85
  BY <1>3, <1>4, SMT DEF Byte
<1> HIDE DEF last
<1>7. /\ WordOf(level) \in Word
      /\ WordOf(level)[0] = low /\ WordOf(level)[1] = low
      /\ WordOf(level)[2] = high /\ WordOf(level)[3] = last
  BY <1>2, <1>3, <1>4, <1>6, SMT DEF Word, Byte
<1>8. XOf(WordOf(level)) = level /\ YOf(WordOf(level)) = level
  BY <1>1, <1>3, <1>5, <1>7 DEF XOf, YOf
<1>9. level <= 26000
  BY DEF LevelOK
<1>10. Readable(WordOf(level))
  BY <1>4, <1>6, <1>7, <1>8, <1>9 DEF Readable
<1> QED BY <1>7, <1>8, <1>10

\* A word that is shown has two values get_payload would accept.
LEMMA Shown ==
  ASSUME NEW w \in Word, Readable(w)
  PROVE  LevelOK(XOf(w)) /\ LevelOK(YOf(w))
<1> DEFINE x == w[0] + ((w[2] \div 4) % 4) * 256
           y == w[1] + ((w[2] \div 64) % 4) * 256
<1>1. w[0] \in 0 .. 255 /\ w[1] \in 0 .. 255 /\ w[2] \in 0 .. 255
  BY SMT DEF Word, Byte
<1>2. x \in Nat /\ y \in Nat
  <2> DEFINE p == (w[2] \div 4) % 4
             q == (w[2] \div 64) % 4
  <2>1. p \in Nat /\ q \in Nat
    BY <1>1, SMT
  <2> HIDE DEF p, q
  <2>2. \A a, b \in Nat : a + b * 256 \in Nat
    BY SMT
  <2>3. w[0] \in Nat /\ w[1] \in Nat
    BY <1>1, SMT
  <2> QED BY <2>1, <2>2, <2>3 DEF p, q
<1>3. /\ XOf(w) = (x + 1) * 50 /\ XOf(w) <= 26000
      /\ YOf(w) = (y + 1) * 50 /\ YOf(w) <= 26000
  BY DEF XOf, YOf, Readable
<1> HIDE DEF x, y
<1> QED BY <1>2, <1>3, SMT DEF LevelOK

\* resolve_dpi_target yields the aligned address of a configured stage.
LEMMA ResolvedTarget ==
  ASSUME NEW c \in Config, Resolves(c)
  PROVE  /\ AddressOK(TargetOf(c)) /\ ReadOK(TargetOf(c), StageSize)
         /\ TargetOf(c) \in Byte
         /\ (TargetOf(c) - Base) \div StageSize = c[4]
         /\ (TargetOf(c) - Base) \div StageSize < c[2]
  BY SMT DEF Config, Byte, Resolves, TargetOf, AddressOK, ReadOK, StageSize, Base, MaxStages

\* What every report built has in common: report number, status and sum.
Framed(r) == r \in Report /\ r[0] = 8 /\ r[2] = 0 /\ SumOK(r)

\* Closing a report keeps its first bytes.
LEMMA FinishFrames ==
  ASSUME NEW r \in Report, r[0] = 8, r[2] = 0
  PROVE  Framed(Finish(r)) /\ \A i \in 0 .. 15 : Finish(r)[i] = r[i]
<1>1. Finish(r) \in Report
  <2>1. (85 - LeadingSum(r)) % 256 \in Byte
    BY HeadInt, SMT DEF Byte
  <2> QED BY <2>1 DEF Finish, Report
<1>2. Finish(r)[0] = 8 /\ Finish(r)[2] = 0
  BY FinishSum
<1> QED BY <1>1, <1>2, FinishSum DEF Framed

\* The requests the driver sends besides the write.
LEMMA BuiltReports ==
  /\ Framed(OnlineRequest) /\ Framed(BatteryRequest) /\ Framed(ProfilePayload)
  /\ \A address \in Byte, length \in Byte : Framed(ReadPayloadOf(address, length))
<1>1. Framed(OnlineRequest)
  BY SMT DEF Framed, SumOK, LeadingSum, OnlineRequest, Blank, Report, Byte, Size
<1>2. Framed(BatteryRequest)
  BY SMT DEF Framed, SumOK, LeadingSum, BatteryRequest, Blank, Report, Byte, Size
<1>3. Framed(ProfilePayload)
  <2> DEFINE r == [Blank EXCEPT ![0] = 8, ![1] = 14]
  <2>1. r \in Report /\ r[0] = 8 /\ r[2] = 0
    BY SMT DEF Blank, Report, Byte, Size
  <2> QED BY <2>1, FinishFrames DEF ProfilePayload
<1>4. ASSUME NEW address \in Byte, NEW length \in Byte
      PROVE  Framed(ReadPayloadOf(address, length))
  <2> DEFINE r == [Blank EXCEPT ![0] = 8, ![1] = 8, ![4] = address, ![5] = length]
  <2>1. r \in Report /\ r[0] = 8 /\ r[2] = 0
    BY SMT DEF Blank, Report, Byte, Size
  <2> QED BY <2>1, FinishFrames DEF ReadPayloadOf
<1> QED BY <1>1, <1>2, <1>3, <1>4

\* get_payload: the write carries the word of its level.
LEMMA BuiltPayload ==
  ASSUME NEW level \in Int, LevelOK(level), NEW address \in Byte
  PROVE  /\ Framed(PayloadOf(level, address))
         /\ [i \in 0 .. 3 |-> PayloadOf(level, address)[6 + i]] = WordOf(level)
<1> DEFINE word == WordOf(level)
           r == [Blank EXCEPT ![0] = 8, ![1] = 7, ![4] = address, ![5] = 4,
                   ![6] = word[0], ![7] = word[1], ![8] = word[2], ![9] = word[3]]
<1>1. word \in [0 .. 3 -> Byte]
  BY Encode DEF Word
<1> HIDE DEF word
<1>2. /\ r \in Report /\ r[0] = 8 /\ r[2] = 0
      /\ r[6] = word[0] /\ r[7] = word[1] /\ r[8] = word[2] /\ r[9] = word[3]
  <2>1. word[0] \in Byte /\ word[1] \in Byte /\ word[2] \in Byte /\ word[3] \in Byte
    BY <1>1
  <2>2. Blank \in [0 .. 16 -> Byte] /\ Blank[0] = 0 /\ Blank[2] = 0
    BY SMT DEF Blank, Byte, Size
  <2>3. 8 \in Byte /\ 7 \in Byte /\ 4 \in Byte
    BY SMT DEF Byte
  <2>4. r \in [0 .. 16 -> Byte]
    BY <2>1, <2>2, <2>3
  <2>5. /\ r[0] = 8 /\ r[2] = 0 /\ r[6] = word[0]
        /\ r[7] = word[1] /\ r[8] = word[2] /\ r[9] = word[3]
    BY <2>2, SMT
  <2> QED BY <2>4, <2>5, SMT DEF Report, Size
<1>3. PayloadOf(level, address) = Finish(r)
  BY DEF PayloadOf, word
<1> HIDE DEF r
<1>4. Framed(Finish(r)) /\ \A i \in 0 .. 15 : Finish(r)[i] = r[i]
  BY <1>2, FinishFrames
<1>5. \A i \in 0 .. 3 : Finish(r)[6 + i] = word[i]
  BY <1>2, <1>4, SMT
<1>6. word = [i \in 0 .. 3 |-> word[i]]
  BY <1>1
<1> QED BY <1>3, <1>4, <1>5, <1>6 DEF word

-----------------------------------------------------------------------------
(* Reports: the specification. *)

\* The inductive invariant.
CodecInv == CodecTypeOK /\ RoundTrip /\ Framed(request)

\* Every word and configuration a mouse may come with satisfies the invariant.
LEMMA CodecInitInv == CodecInit => CodecInv
<1> SUFFICES ASSUME CodecInit PROVE CodecInv
  OBVIOUS
<1> USE ReportsAssumption
<1>1. config \in Config
  BY SMT DEF CodecInit, ConfigFrom, Closing, Config, Byte, MaxStages
<1>2. stored \in Word
  <2>1. WordOf(400) \in Word
    BY Encode DEF LevelOK
  <2>2. \A x, y, z \in Byte, off \in {0, 1} : WordFrom(x, y, z, off) \in Word
    BY SMT DEF WordFrom, Closing, Word, Byte
  <2> QED BY <2>1, <2>2 DEF CodecInit
<1>3. Framed(request)
  BY BuiltReports DEF CodecInit
<1>4. wrote = 0
  BY DEF CodecInit
<1> QED BY <1>1, <1>2, <1>3, <1>4 DEF CodecInv, CodecTypeOK, RoundTrip, Framed

\* One case per action; only Write changes more than the request.
LEMMA CodecStepInv == CodecInv /\ [CodecNext]_reports => CodecInv'
<1> SUFFICES ASSUME CodecInv, [CodecNext]_reports PROVE CodecInv'
  OBVIOUS
<1> USE ReportsAssumption
<1>1. ASSUME Framed(request'), UNCHANGED <<config, stored, wrote>> PROVE CodecInv'
  BY <1>1 DEF CodecInv, CodecTypeOK, RoundTrip, Framed
<1>2. ASSUME NEW address \in Target PROVE address \in Byte /\ AddressOK(address)
  BY <1>2, ResolvedTarget DEF Target, CodecInv, CodecTypeOK
<1>3. CASE QueryOnline
  BY <1>1, <1>3, BuiltReports DEF QueryOnline
<1>4. CASE QueryBattery
  BY <1>1, <1>4, BuiltReports DEF QueryBattery
<1>5. CASE ReadConfig
  <2>1. 0 \in Byte /\ 6 \in Byte
    BY SMT DEF Byte
  <2> QED BY <1>1, <1>5, <2>1, BuiltReports DEF ReadConfig
<1>6. CASE QueryProfile
  BY <1>1, <1>6, BuiltReports DEF QueryProfile
<1>7. CASE ReadWord
  <2>1. StageSize \in Byte
    BY SMT DEF Byte, StageSize
  <2> QED BY <1>1, <1>2, <1>7, <2>1, BuiltReports DEF ReadWord
<1>8. CASE Write
  <2>1. PICK level \in Levels, address \in Target :
          /\ LevelOK(level)
          /\ request' = PayloadOf(level, address)
          /\ stored' = [i \in 0 .. 3 |-> request'[6 + i]]
          /\ wrote' = level
    BY <1>8 DEF Write
  <2>2. level \in Int /\ address \in Byte
    BY <1>2
  <2>3. Framed(request') /\ stored' = WordOf(level)
    BY <2>1, <2>2, BuiltPayload
  <2>4. RoundTrip'
    BY <2>1, <2>2, <2>3, Encode DEF RoundTrip
  <2>5. CodecTypeOK'
    BY <1>8, <2>1, <2>2, <2>3, Encode DEF Write, CodecTypeOK, CodecInv, Framed
  <2> QED BY <2>3, <2>4, <2>5 DEF CodecInv, Framed
<1>9. CASE UNCHANGED reports
  BY <1>1, <1>9 DEF reports, CodecInv, Framed
<1> QED BY <1>3, <1>4, <1>5, <1>6, <1>7, <1>8, <1>9 DEF CodecNext

\* The invariant holds throughout.
LEMMA CodecSpecInv == CodecSpec => []CodecInv
  BY CodecInitInv, CodecStepInv, PTL DEF CodecSpec

\* Every report, word and configuration of the mouse keeps its type.
THEOREM CodecTypeCorrect == CodecSpec => []CodecTypeOK
<1>1. CodecInv => CodecTypeOK BY DEF CodecInv
<1> QED BY CodecSpecInv, <1>1, PTL

\* Whatever level is written by get_payload is read out by set_sensitivity's
\* arithmetic as the same level on both axes.
THEOREM EncodeDecode == CodecSpec => []RoundTrip
<1>1. CodecInv => RoundTrip BY DEF CodecInv
<1> QED BY CodecSpecInv, <1>1, PTL

\* A word shown as one DPI value is the word that would be written for it, for
\* every word of four bytes the mouse may hold.
THEOREM DecodeEncode == CodecSpec => []Canonical
<1>1. CodecInv => Canonical BY Decode DEF CodecInv, CodecTypeOK, Canonical
<1> QED BY CodecSpecInv, <1>1, PTL

\* Both axes of a word that is shown are levels the driver could write.
THEOREM ShownLevels == CodecSpec => []ShownIsWritable
<1>1. CodecInv => ShownIsWritable BY Shown DEF CodecInv, CodecTypeOK, ShownIsWritable
<1> QED BY CodecSpecInv, <1>1, PTL

\* An exact echo of any report the driver builds passes wait_for_reply.
THEOREM EchoAccepted == CodecSpec => []EchoAnswers
<1>1. CodecInv => EchoAnswers BY DEF CodecInv, Framed, EchoAnswers, Answers
<1> QED BY CodecSpecInv, <1>1, PTL

\* Whatever configuration resolves leads to the aligned, readable address of a
\* stage that the mouse has configured.
THEOREM TargetSound == CodecSpec => []TargetUsable
<1>1. CodecInv => TargetUsable BY ResolvedTarget DEF CodecInv, CodecTypeOK, TargetUsable
<1> QED BY CodecSpecInv, <1>1, PTL

-----------------------------------------------------------------------------
(* Sequences and numbers. *)

\* A set of numbers has a least one.
LEMMA Least ==
  ASSUME NEW S \in SUBSET Nat, S # {}
  PROVE  \E x \in S : \A y \in S : x <= y
<1> DEFINE R == {ss \in Nat \X Nat : ss[1] < ss[2]}
<1>1. IsWellFoundedOn(R, Nat)
  BY NatLessThanWellFounded DEF OpToRel
<1>2. \A x, y \in Nat : x < y => <<x, y>> \in R
  OBVIOUS
<1> HIDE DEF R
<1>3. PICK x \in S : \A y \in S : ~(<<y, x>> \in R)
  BY <1>1, WFMin
<1>4. \A y \in S : ~(y < x)
  BY <1>2, <1>3
<1>5. x \in Nat /\ \A y \in S : y \in Nat
  OBVIOUS
<1>6. \A y \in S : x <= y
  BY <1>4, <1>5
<1> QED BY <1>6

\* The prefixes of a path are the path and those above it.
LEMMA PrefixIs ==
  ASSUME NEW p \in Seq(STRING), NEW q \in Seq(STRING), p # <<>>
  PROVE  IsPrefix(p, q) <=> p \in Above(q) \cup {q}
<1>1. ASSUME IsPrefix(p, q) PROVE p \in Above(q) \cup {q}
  <2>1. Len(p) \in 1 .. Len(q) /\ SubSeq(p, 1, Len(p)) = p /\ SubSeq(q, 1, Len(q)) = q
    BY <1>1 DEF IsPrefix
  <2>2. p = SubSeq(q, 1, Len(p))
    BY <1>1, <2>1 DEF IsPrefix
  <2>3. CASE Len(p) = Len(q)
    BY <2>1, <2>2, <2>3
  <2>4. CASE Len(p) # Len(q)
    <3>1. Len(p) \in Nat /\ Len(q) \in Nat
      OBVIOUS
    <3>4. Len(p) \in 1 .. Len(q) - 1
      <4>1. Len(p) >= 1 /\ Len(p) <= Len(q)
        BY <2>1
      <4> QED BY <2>4, <3>1, <4>1
    <3>2. p \in {SubSeq(q, 1, k) : k \in 1 .. Len(q) - 1}
      BY <2>2, <3>4
    <3> QED BY <3>2 DEF Above
  <2> QED BY <2>3, <2>4
<1>2. ASSUME p \in Above(q) PROVE IsPrefix(p, q)
  <2>1. PICK k \in 1 .. Len(q) - 1 : p = SubSeq(q, 1, k)
    BY <1>2 DEF Above
  <2>2. Len(p) = k /\ SubSeq(p, 1, Len(p)) = p
    BY <2>1
  <2> QED BY <2>1, <2>2 DEF IsPrefix
<1>3. ASSUME p = q PROVE IsPrefix(p, q)
  BY <1>3 DEF IsPrefix
<1> QED BY <1>1, <1>2, <1>3

-----------------------------------------------------------------------------
(* Presets: the parser. *)

Path(f, i) == Header[f[i].name]
Valued(f, n) == {i \in 1 .. n : f[i].part \notin Bare}

\* The entries of a file.
LEMMA FieldsOf ==
  ASSUME NEW e \in Entries
  PROVE  e.name \in Names /\ e.dpi \in Nat /\ e.part \in Parts
BY DEF Entries

LEMMA EntryOf ==
  ASSUME NEW f \in Seq(Entries), NEW i \in DOMAIN f
  PROVE  /\ i \in 1 .. Len(f) /\ f[i] \in Entries
         /\ f[i].name \in Names /\ f[i].dpi \in Nat /\ f[i].part \in Parts
<1>1. i \in 1 .. Len(f) /\ f[i] \in Entries
  OBVIOUS
<1> QED BY <1>1, FieldsOf

\* The documents after each entry up to n.
DocsOf(f, n, docs) ==
  docs = [m \in 0 .. n |->
            IF m = 0 THEN EmptyDoc ELSE ParseEntry(docs[m - 1], f[m], m = Len(f))]

\* They exist for every n.
LEMMA DocsExist == ASSUME NEW f, NEW n \in Nat PROVE \E docs : DocsOf(f, n, docs)
<1> DEFINE S == {m \in Nat : ~\E docs : DocsOf(f, m, docs)}
<1> SUFFICES ASSUME S # {} PROVE FALSE
  OBVIOUS
<1>1. PICK m \in S : \A k \in S : m <= k
  <2> HIDE DEF S
  <2>1. S \in SUBSET Nat
    BY DEF S
  <2> QED BY <2>1, Least
<1>2. CASE m = 0
  <2>1. DocsOf(f, 0, [k \in 0 .. 0 |-> EmptyDoc])
    BY DEF DocsOf
  <2> QED BY <1>1, <1>2, <2>1
<1>3. CASE m # 0
  <2>1. m - 1 \in Nat /\ m - 1 \notin S
    BY <1>1, <1>3
  <2>2. PICK docs : DocsOf(f, m - 1, docs)
    BY <2>1
  <2> DEFINE more == [k \in 0 .. m |-> IF k < m THEN docs[k]
                                       ELSE ParseEntry(docs[m - 1], f[m], m = Len(f))]
  <2>3. \A k \in 0 .. m :
          more[k] = IF k = 0 THEN EmptyDoc ELSE ParseEntry(more[k - 1], f[k], k = Len(f))
    <3> SUFFICES ASSUME NEW k \in 0 .. m
                 PROVE more[k] = IF k = 0 THEN EmptyDoc
                                 ELSE ParseEntry(more[k - 1], f[k], k = Len(f))
      OBVIOUS
    <3>1. CASE k = m
      <4>1. more[m] = ParseEntry(docs[m - 1], f[m], m = Len(f)) /\ more[m - 1] = docs[m - 1]
        BY <2>1
      <4> QED BY <1>3, <3>1, <4>1
    <3>2. CASE k # m /\ k = 0
      <4>1. more[0] = docs[0] /\ docs[0] = EmptyDoc
        BY <2>1, <2>2, <3>2 DEF DocsOf
      <4> QED BY <3>2, <4>1
    <3>3. CASE k # m /\ k # 0
      <4>1. more[k] = docs[k] /\ more[k - 1] = docs[k - 1]
        BY <3>3
      <4>2. docs[k] = ParseEntry(docs[k - 1], f[k], k = Len(f))
        BY <2>1, <2>2, <3>3 DEF DocsOf
      <4> QED BY <3>3, <4>1, <4>2
    <3> QED BY <3>1, <3>2, <3>3
  <2>4. DocsOf(f, m, more)
    <3>1. more = [k \in 0 .. m |-> more[k]]
      OBVIOUS
    <3> HIDE DEF more
    <3> QED BY <2>3, <3>1 DEF DocsOf
  <2> QED BY <1>1, <2>4
<1> QED BY <1>2, <1>3

\* Parsing is what its recursion says.
LEMMA ParsingIs ==
  ASSUME NEW f, Len(f) \in Nat
  PROVE  /\ Parsing(f)[0] = EmptyDoc
         /\ \A n \in 1 .. Len(f) :
              Parsing(f)[n] = ParseEntry(Parsing(f)[n - 1], f[n], n = Len(f))
<1>1. PICK docs : DocsOf(f, Len(f), docs)
  BY DocsExist
<1>2. Parsing(f) = CHOOSE docs_1 : DocsOf(f, Len(f), docs_1)
  BY DEF Parsing, DocsOf
<1>3. DocsOf(f, Len(f), Parsing(f))
  BY <1>1, <1>2
<1> QED BY <1>3 DEF DocsOf

\* Entry i may follow those before it.
Accepted(f, i) ==
  /\ Path(f, i) # <<>> /\ f[i].part \notin Unfinished
  /\ f[i].part \in Openended => i = Len(f)
  /\ \A j \in 1 .. i - 1 :
       /\ Path(f, j) # Path(f, i)
       /\ f[j].part \notin Bare => Append(Path(f, j), Dpi) \notin Above(Path(f, i)) \cup {Path(f, i)}
       /\ f[i].part \notin Bare => Append(Path(f, i), Dpi) \notin Above(Path(f, j)) \cup {Path(f, j)}

\* What the parser knows after n entries.
Known(f, n, d) ==
  /\ d.explicit = {Path(f, i) : i \in 1 .. n}
  /\ d.implicit = UNION {Above(Path(f, i)) : i \in 1 .. n}
  /\ DOMAIN d.dpi = {Path(f, i) : i \in Valued(f, n)}
  /\ d.ok <=> \A i \in 1 .. n : Accepted(f, i)
  /\ d.ok => \A i \in Valued(f, n) : d.dpi[Path(f, i)] = f[i].dpi

\* One more entry.
LEMMA KnownStep ==
  ASSUME NEW f \in Seq(Entries), NEW n \in 1 .. Len(f), NEW d, Known(f, n - 1, d)
  PROVE  Known(f, n, ParseEntry(d, f[n], n = Len(f)))
<1> DEFINE path == Path(f, n)
           next == ParseEntry(d, f[n], n = Len(f))
           valued == f[n].part \notin Bare
<1>1. /\ next.ok = (/\ d.ok /\ TableOK(d, path) /\ f[n].part \notin Unfinished
                    /\ f[n].part \in Openended => n = Len(f)
                    /\ valued => KeyOK(d, path))
      /\ next.explicit = d.explicit \cup {path}
      /\ next.implicit = d.implicit \cup Above(path)
      /\ next.dpi = IF f[n].part \in Bare THEN d.dpi ELSE WithNumber(d, path, f[n].dpi)
  BY DEF ParseEntry, Path
<1> HIDE DEF next
<1>2. 1 .. n = (1 .. n - 1) \cup {n} /\ n \notin 1 .. n - 1
  OBVIOUS
<1>3. Valued(f, n) = Valued(f, n - 1) \cup (IF valued THEN {n} ELSE {})
  BY <1>2 DEF Valued
<1>4. next.explicit = {Path(f, i) : i \in 1 .. n}
  BY <1>1, <1>2 DEF Known
<1>5. next.implicit = UNION {Above(Path(f, i)) : i \in 1 .. n}
  BY <1>1, <1>2 DEF Known
<1>6. DOMAIN next.dpi = {Path(f, i) : i \in Valued(f, n)}
  <2>1. DOMAIN d.dpi = {Path(f, i) : i \in Valued(f, n - 1)}
    BY DEF Known
  <2>2. CASE valued
    <3>1. DOMAIN next.dpi = DOMAIN d.dpi \cup {path}
      BY <1>1, <2>2 DEF WithNumber
    <3> QED BY <1>3, <2>1, <2>2, <3>1
  <2>3. CASE ~valued
    BY <1>1, <1>3, <2>1, <2>3
  <2> QED BY <2>2, <2>3
<1>7. (TableOK(d, path) /\ (valued => KeyOK(d, path))) <=>
        /\ path # <<>>
        /\ \A j \in 1 .. n - 1 :
             /\ Path(f, j) # path
             /\ f[j].part \notin Bare => Append(Path(f, j), Dpi) \notin Above(path) \cup {path}
             /\ valued => Append(path, Dpi) \notin Above(Path(f, j)) \cup {Path(f, j)}
  <2>1. /\ d.explicit = {Path(f, i) : i \in 1 .. n - 1}
        /\ d.implicit = UNION {Above(Path(f, i)) : i \in 1 .. n - 1}
        /\ DOMAIN d.dpi = {Path(f, i) : i \in Valued(f, n - 1)}
    BY DEF Known
  <2>2. path \notin d.explicit <=> \A j \in 1 .. n - 1 : Path(f, j) # path
    BY <2>1
  <2>3. path \notin d.explicit => path \notin DOMAIN d.dpi
    BY <2>1 DEF Valued
  <2>4. Numbers(d) = {Append(Path(f, i), Dpi) : i \in Valued(f, n - 1)}
    BY <2>1 DEF Numbers
  <2>5. ((Above(path) \cup {path}) \cap Numbers(d) = {}) <=>
          \A j \in 1 .. n - 1 :
            f[j].part \notin Bare => Append(Path(f, j), Dpi) \notin Above(path) \cup {path}
    <3> DEFINE up == Above(path) \cup {path}
    <3>1. (up \cap Numbers(d) = {}) <=> \A i \in Valued(f, n - 1) : Append(Path(f, i), Dpi) \notin up
      <4> HIDE DEF up
      <4> QED BY <2>4
    <3> QED BY <3>1 DEF Valued
  <2>6. (Append(path, Dpi) \notin d.explicit \cup d.implicit) <=>
          \A j \in 1 .. n - 1 : Append(path, Dpi) \notin Above(Path(f, j)) \cup {Path(f, j)}
    BY <2>1
  <2> HIDE DEF path, valued
  <2> QED BY <2>2, <2>3, <2>5, <2>6 DEF TableOK, KeyOK
<1>8. Accepted(f, n) <=>
        /\ TableOK(d, path) /\ f[n].part \notin Unfinished
        /\ f[n].part \in Openended => n = Len(f)
        /\ valued => KeyOK(d, path)
  BY <1>7 DEF Accepted
<1>9. next.ok <=> \A i \in 1 .. n : Accepted(f, i)
  <2>1. d.ok <=> \A i \in 1 .. n - 1 : Accepted(f, i)
    BY DEF Known
  <2> HIDE DEF path, valued
  <2> QED BY <1>1, <1>2, <1>8, <2>1
<1>10. ASSUME next.ok, NEW i \in Valued(f, n) PROVE next.dpi[Path(f, i)] = f[i].dpi
  <2>1. d.ok /\ TableOK(d, path) /\ (valued => KeyOK(d, path))
    BY <1>1, <1>10
  <2>2. \A j \in Valued(f, n - 1) : d.dpi[Path(f, j)] = f[j].dpi /\ Path(f, j) \in DOMAIN d.dpi
    BY <2>1 DEF Known
  <2>3. CASE ~valued
    BY <1>1, <1>3, <2>2, <2>3
  <2>4. CASE valued
    <3>1. path \notin DOMAIN d.dpi
      BY <2>1, <2>4 DEF KeyOK
    <3>2. /\ next.dpi[path] = f[n].dpi
          /\ \A p \in DOMAIN d.dpi : p # path => next.dpi[p] = d.dpi[p]
      BY <1>1, <2>4 DEF WithNumber
    <3> QED BY <1>3, <2>2, <2>4, <3>1, <3>2
  <2> QED BY <2>3, <2>4
<1> QED BY <1>4, <1>5, <1>6, <1>9, <1>10 DEF Known, next

\* What the parser knows in the end.
LEMMA KnownOf == ASSUME NEW f \in Seq(Entries) PROVE Known(f, Len(f), Parse(f))
<1> DEFINE S == {n \in 0 .. Len(f) : ~Known(f, n, Parsing(f)[n])}
<1>1. S = {}
  <2> SUFFICES ASSUME S # {} PROVE FALSE
    OBVIOUS
  <2>1. PICK n \in S : \A k \in S : n <= k
    <3>1. S \in SUBSET Nat
      OBVIOUS
    <3> HIDE DEF S
    <3> QED BY <3>1, Least
  <2>2. CASE n = 0
    <3>1. Parsing(f)[0] = EmptyDoc
      BY ParsingIs
    <3>2. Known(f, 0, EmptyDoc)
      BY DEF Known, EmptyDoc, Valued
    <3> QED BY <2>1, <2>2, <3>1, <3>2
  <2>3. CASE n # 0
    <3>1. n \in 1 .. Len(f) /\ n - 1 \in 0 .. Len(f) /\ n - 1 \notin S
      BY <2>1, <2>3
    <3>2. Known(f, n - 1, Parsing(f)[n - 1])
      BY <3>1
    <3>3. Parsing(f)[n] = ParseEntry(Parsing(f)[n - 1], f[n], n = Len(f))
      BY <3>1, ParsingIs
    <3>4. Known(f, n, Parsing(f)[n])
      BY <3>1, <3>2, <3>3, KnownStep
    <3> QED BY <2>1, <3>4
  <2> QED BY <2>2, <2>3
<1> QED BY <1>1 DEF Parse

\* A file can be read if its entries may follow each other.
LEMMA ReadableIs ==
  ASSUME NEW f \in Seq(Entries)
  PROVE  Parsable(f) <=> \A i \in 1 .. Len(f) : Accepted(f, i)
BY KnownOf DEF Parsable, Known

\* In a readable file every path has one entry.
LEMMA OnePath ==
  ASSUME NEW f \in Seq(Entries), Parsable(f), NEW i \in 1 .. Len(f), NEW j \in 1 .. Len(f),
         Path(f, i) = Path(f, j)
  PROVE  i = j
<1>1. Accepted(f, i) /\ Accepted(f, j)
  BY ReadableIs
<1>2. CASE i < j
  BY <1>1, <1>2 DEF Accepted
<1>3. CASE j < i
  BY <1>1, <1>3 DEF Accepted
<1> QED BY <1>2, <1>3

\* What is loaded is the value of an entry with that path, and the other way round.
LEMMA LoadIs ==
  ASSUME NEW f \in Seq(Entries), NEW name, Load(f, name) # 0
  PROVE  /\ Parsable(f) /\ Loadable(Load(f, name))
         /\ \E i \in Valued(f, Len(f)) : Path(f, i) = Seek[name] /\ f[i].dpi = Load(f, name)
<1>1. /\ Parse(f).ok /\ Loadable(Sought(Parse(f), Seek[name]))
      /\ Load(f, name) = Sought(Parse(f), Seek[name])
  BY DEF Load
<1>2. Seek[name] \in DOMAIN Parse(f).dpi /\ Load(f, name) = Parse(f).dpi[Seek[name]]
  BY <1>1 DEF Sought
<1>3. PICK i \in Valued(f, Len(f)) : Path(f, i) = Seek[name]
  BY <1>2, KnownOf DEF Known
<1>4. Parse(f).dpi[Path(f, i)] = f[i].dpi
  BY <1>1, KnownOf DEF Known
<1> QED BY <1>1, <1>2, <1>3, <1>4 DEF Parsable

LEMMA LoadFinds ==
  ASSUME NEW f \in Seq(Entries), Parsable(f), NEW name, NEW i \in Valued(f, Len(f)),
         Path(f, i) = Seek[name], Loadable(f[i].dpi)
  PROVE  Load(f, name) = f[i].dpi
<1>1. Parse(f).ok /\ Seek[name] \in DOMAIN Parse(f).dpi /\ Parse(f).dpi[Seek[name]] = f[i].dpi
  BY KnownOf DEF Known, Parsable
<1>2. Sought(Parse(f), Seek[name]) = f[i].dpi
  BY <1>1 DEF Sought
<1> QED BY <1>1, <1>2 DEF Load

-----------------------------------------------------------------------------
(* Presets: the file. *)

\* What the user was told is saved is in a whole entry, and of every name with
\* a whole entry the user was told so.
ToldInv ==
  /\ \A name \in Names :
       told[name] # 0 => \E i \in DOMAIN file : file[i] = Entry(name, told[name], "all")
  /\ \A i \in DOMAIN file :
       file[i].part = "all" => Typed(file[i].dpi) /\ told[file[i].name] # 0

FileInv == PresetsTypeOK /\ ToldInv

\* An empty file satisfies the invariant.
LEMMA FileInit == PresetsInit => FileInv
<1> SUFFICES ASSUME PresetsInit PROVE FileInv
  OBVIOUS
<1>1. PresetsTypeOK
  BY PresetsAssumption DEF PresetsInit, PresetsTypeOK
<1>2. ToldInv
  BY DEF PresetsInit, ToldInv
<1> QED BY <1>1, <1>2 DEF FileInv

\* An entry, whole or cut, is one.
LEMMA EntryIs ==
  ASSUME NEW name \in Names, NEW level \in Nat, level <= 26000, NEW part \in Parts
  PROVE  /\ Entry(name, level, part) \in Entries /\ Entry(name, level, part).dpi <= 26000
         /\ Entry(name, level, part).name = name /\ Entry(name, level, part).part = part
         /\ part = "all" => Entry(name, level, part).dpi = level
<1>1. (IF part \in Bare THEN 0 ELSE level) \in Nat /\ (IF part \in Bare THEN 0 ELSE level) <= 26000
  OBVIOUS
<1>2. "all" \notin Bare
  BY DEF Bare
<1> QED BY <1>1, <1>2 DEF Entry, Entries

\* What is left of a cut entry is one, and not whole.
LEMMA RemainsAre ==
  ASSUME NEW name \in Names, NEW level \in Nat, level <= 26000, NEW entry \in Remains(name, level)
  PROVE  entry \in Entries /\ entry.dpi <= 26000 /\ entry.part # "all"
<1>1. CASE entry \in {Entry(name, level, part) : part \in Bare \cup {"end"}}
  <2>1. PICK part \in Bare \cup {"end"} : entry = Entry(name, level, part)
    BY <1>1
  <2>2. part \in Parts /\ part # "all"
    BY DEF Bare, Parts, Openended, Unfinished
  <2> QED BY <2>1, <2>2, EntryIs
<1>2. CASE entry \in {Entry(name, digits, "value") : digits \in Digits(level)}
  <2>1. PICK digits \in Digits(level) : entry = Entry(name, digits, "value")
    BY <1>2
  <2>2. PICK cut \in {1, 10, 100, 1000, 10000} : digits = level \div cut
    BY DEF Digits
  <2>3. digits \in Nat /\ digits <= 26000
    BY <2>2
  <2>4. "value" \in Parts /\ "value" # "all"
    BY DEF Parts, Openended
  <2> QED BY <2>1, <2>3, <2>4, EntryIs
<1> QED BY <1>1, <1>2 DEF Remains

\* Every step preserves the invariant.
LEMMA FileStep == FileInv /\ [PresetsNext]_preset => FileInv'
<1> SUFFICES ASSUME FileInv, [PresetsNext]_preset PROVE FileInv'
  OBVIOUS
<1>1. /\ file \in Seq(Entries) /\ Len(file) <= MaxEntries
      /\ told \in [Names -> {0} \cup Entered] /\ MaxEntries \in Nat
      /\ \A i \in DOMAIN file : file[i].dpi <= 26000
  BY PresetsAssumption DEF FileInv, PresetsTypeOK
<1>2. ASSUME NEW level \in Saveable
      PROVE  level \in Nat /\ level \in Entered /\ level # 0 /\ level <= 26000 /\ Typed(level)
  <2>1. level \in Entered /\ Typed(level)
    BY DEF Saveable
  <2>2. level \in Nat
    BY <2>1, PresetsAssumption
  <2> QED BY <2>1, <2>2 DEF Typed
<1>3. ASSUME NEW entry \in Entries, file' = Append(file, entry), Len(file) < MaxEntries
      PROVE  /\ file' \in Seq(Entries) /\ Len(file') = Len(file) + 1 /\ Len(file') <= MaxEntries
             /\ DOMAIN file' = DOMAIN file \cup {Len(file) + 1}
             /\ \A i \in DOMAIN file : file'[i] = file[i]
             /\ file'[Len(file) + 1] = entry
  BY <1>1, <1>3
<1>4. CASE Save
  <2>1. PICK name \in Names, level \in Saveable :
          /\ file' = Append(file, Entry(name, level, "all"))
          /\ told' = [told EXCEPT ![name] = level] /\ Len(file) < MaxEntries
    BY <1>4 DEF Save, Appended
  <2> DEFINE entry == Entry(name, level, "all")
  <2>2. entry \in Entries /\ entry.name = name /\ entry.part = "all" /\ entry.dpi = level
    <3>1. "all" \in Parts
      BY DEF Parts
    <3> QED BY <1>2, <3>1, EntryIs
  <2>3. /\ file' \in Seq(Entries) /\ Len(file') <= MaxEntries
        /\ DOMAIN file' = DOMAIN file \cup {Len(file) + 1}
        /\ \A i \in DOMAIN file : file'[i] = file[i]
        /\ file'[Len(file) + 1] = entry
    BY <1>3, <2>1, <2>2
  <2> HIDE DEF entry
  <2>4. PresetsTypeOK'
    BY <1>1, <1>2, <2>1, <2>2, <2>3 DEF PresetsTypeOK
  <2>5. ASSUME NEW n \in Names, told'[n] # 0
        PROVE  \E i \in DOMAIN file' : file'[i] = Entry(n, told'[n], "all")
    <3>1. CASE n = name
      <4>1. told'[n] = level
        BY <1>1, <2>1, <3>1
      <4>2. Len(file) + 1 \in DOMAIN file' /\ file'[Len(file) + 1] = Entry(n, told'[n], "all")
        BY <2>3, <3>1, <4>1 DEF entry
      <4> QED BY <4>2
    <3>2. CASE n # name
      <4>1. told'[n] = told[n]
        BY <1>1, <2>1, <3>2
      <4>2. PICK i \in DOMAIN file : file[i] = Entry(n, told[n], "all")
        BY <2>5, <4>1 DEF FileInv, ToldInv
      <4> QED BY <2>3, <4>1, <4>2
    <3> QED BY <3>1, <3>2
  <2>6. ASSUME NEW i \in DOMAIN file', file'[i].part = "all"
        PROVE  Typed(file'[i].dpi) /\ told'[file'[i].name] # 0
    <3>1. CASE i = Len(file) + 1
      BY <1>1, <1>2, <2>1, <2>2, <2>3, <3>1
    <3>2. CASE i \in DOMAIN file
      <4>1. Typed(file[i].dpi) /\ told[file[i].name] # 0
        BY <2>3, <2>6, <3>2 DEF FileInv, ToldInv
      <4>2. file[i].name \in Names
        BY <1>1, <3>2, EntryOf
      <4> QED BY <1>1, <1>2, <2>1, <2>3, <3>2, <4>1, <4>2
    <3> QED BY <2>3, <3>1, <3>2
  <2> QED BY <2>4, <2>5, <2>6 DEF FileInv, ToldInv
<1>5. CASE SaveFails
  <2>1. PICK name \in Names, level \in Saveable :
          /\ \E entry \in Remains(name, level) : file' = Append(file, entry)
          /\ told' = told /\ Len(file) < MaxEntries
    BY <1>5 DEF SaveFails, Appended
  <2>9. PICK entry \in Remains(name, level) : file' = Append(file, entry)
    BY <2>1
  <2>2. entry \in Entries /\ entry.dpi <= 26000 /\ entry.part # "all"
    BY <1>2, RemainsAre
  <2>3. /\ file' \in Seq(Entries) /\ Len(file') <= MaxEntries
        /\ DOMAIN file' = DOMAIN file \cup {Len(file) + 1}
        /\ \A i \in DOMAIN file : file'[i] = file[i]
        /\ file'[Len(file) + 1] = entry
    BY <1>3, <2>1, <2>2, <2>9
  <2>4. PresetsTypeOK'
    BY <1>1, <2>1, <2>2, <2>3 DEF PresetsTypeOK
  <2>5. ToldInv'
    <3>1. \A n \in Names :
            told'[n] # 0 => \E i \in DOMAIN file' : file'[i] = Entry(n, told'[n], "all")
      BY <2>1, <2>3 DEF FileInv, ToldInv
    <3>2. \A i \in DOMAIN file' :
            file'[i].part = "all" => Typed(file'[i].dpi) /\ told'[file'[i].name] # 0
      BY <2>1, <2>2, <2>3 DEF FileInv, ToldInv
    <3> QED BY <3>1, <3>2 DEF ToldInv
  <2> QED BY <2>4, <2>5 DEF FileInv
<1>6. CASE UNCHANGED preset
  BY <1>6 DEF preset, FileInv, PresetsTypeOK, ToldInv
<1> QED BY <1>4, <1>5, <1>6 DEF PresetsNext

\* The invariant holds throughout.
LEMMA FileAlways == PresetsSpec => []FileInv
BY FileInit, FileStep, PTL DEF PresetsSpec

\* Every entry is of a name the user typed, and holds a number that fits.
THEOREM PresetsTypeCorrect == PresetsSpec => []PresetsTypeOK
BY FileAlways, PTL DEF FileInv

\* What was saved last is the one entry of its path.
LEMMA ComesBack == ASSUME FileInv PROVE SavedComesBack
<1> SUFFICES ASSUME Parsable(file), NEW name \in Names, told[name] # 0, Seek[name] = Header[name]
             PROVE  Load(file, name) = told[name]
  BY DEF SavedComesBack
<1>1. file \in Seq(Entries)
  BY DEF FileInv, PresetsTypeOK
<1>2. PICK i \in DOMAIN file : file[i] = Entry(name, told[name], "all")
  BY DEF FileInv, ToldInv
<1>3. file[i].name = name /\ file[i].dpi = told[name] /\ file[i].part = "all" /\ "all" \notin Bare
  BY <1>2 DEF Entry, Bare
<1>4. Loadable(file[i].dpi)
  BY <1>3 DEF FileInv, ToldInv, Typed, Loadable
<1>5. i \in Valued(file, Len(file)) /\ Path(file, i) = Seek[name]
  BY <1>1, <1>3 DEF Valued, Path
<1> QED BY <1>1, <1>3, <1>4, <1>5, LoadFinds

\* A level that is accepted is a multiple of 50 in range.
LEMMA LevelIs == ASSUME NEW level \in Int, Loadable(level) PROVE level \in {50 * k : k \in 1 .. 520}
<1>1. level = 50 * (level \div 50) /\ level \div 50 \in 1 .. 520
  BY DEF Loadable
<1> QED BY <1>1

\* The entry that is found is whole, and the only one of its name, or was cut.
LEMMA Sound == ASSUME FileInv PROVE LoadsSound
<1> SUFFICES ASSUME NEW name \in Names, Load(file, name) # 0
             PROVE  /\ Load(file, name) \in {50 * k : k \in 1 .. 520}
                    /\ \E i \in DOMAIN file :
                         /\ Header[file[i].name] = Seek[name]
                         /\ \/ told[file[i].name] = Load(file, name)
                            \/ file[i].part \in {"value", "end"} /\ file[i].dpi = Load(file, name)
  BY DEF LoadsSound
<1>1. file \in Seq(Entries)
  BY DEF FileInv, PresetsTypeOK
<1>2. Parsable(file) /\ Loadable(Load(file, name))
  BY <1>1, LoadIs
<1>3. PICK i \in Valued(file, Len(file)) : Path(file, i) = Seek[name] /\ file[i].dpi = Load(file, name)
  BY <1>1, LoadIs
<1>4. i \in DOMAIN file /\ file[i] \in Entries /\ file[i].part \notin Bare /\ DOMAIN file = 1 .. Len(file)
  BY <1>1 DEF Valued
<1>5. Load(file, name) \in {50 * k : k \in 1 .. 520}
  <2>1. Load(file, name) \in Int
    BY <1>1, <1>3, <1>4, EntryOf
  <2> QED BY <1>2, <2>1, LevelIs
<1>6. file[i].part \in {"value", "end", "all"}
  <2>1. file[i].part \in Parts
    BY <1>1, <1>4, EntryOf
  <2> QED BY <1>4, <2>1 DEF Parts, Openended, Unfinished, Bare
<1>7. CASE file[i].part = "all"
  <2>1. told[file[i].name] # 0 /\ file[i].name \in Names
    BY <1>1, <1>4, <1>7, EntryOf DEF FileInv, ToldInv
  <2>2. PICK j \in DOMAIN file : file[j] = Entry(file[i].name, told[file[i].name], "all")
    BY <2>1 DEF FileInv, ToldInv
  <2>3. file[j].name = file[i].name /\ file[j].dpi = told[file[i].name]
    BY <2>2 DEF Entry, Bare
  <2>4. j = i
    BY <1>1, <1>2, <1>4, <2>3, OnePath DEF Path
  <2> QED BY <1>3, <1>4, <1>5, <2>3, <2>4 DEF Path
<1> QED BY <1>3, <1>4, <1>5, <1>6, <1>7 DEF Path

\* Two entries exclude each other in either order.
LEMMA Free == ASSUME FileInv PROVE OrderFree
<1> DEFINE path(i) == Header[file[i].name]
           apart == /\ \A i \in DOMAIN file : path(i) # <<>>
                    /\ \A i, j \in DOMAIN file :
                         i # j => path(i) # path(j) /\ ~IsPrefix(Append(path(i), Dpi), path(j))
<1> SUFFICES ASSUME \A i \in DOMAIN file : file[i].part = "all" PROVE Parsable(file) <=> apart
  BY DEF OrderFree
<1>1. file \in Seq(Entries) /\ DOMAIN file = 1 .. Len(file)
  BY DEF FileInv, PresetsTypeOK
<1>2. \A i \in DOMAIN file : path(i) \in Seq(STRING) /\ Path(file, i) = path(i)
  BY <1>1, EntryOf, PresetsAssumption DEF Path
<1>3. \A i \in DOMAIN file : Append(path(i), Dpi) \in Seq(STRING) \ {<<>>}
  BY <1>2, PresetsAssumption
<1>4. \A i, j \in DOMAIN file :
        IsPrefix(Append(path(i), Dpi), path(j)) <=>
          Append(path(i), Dpi) \in Above(path(j)) \cup {path(j)}
  BY <1>2, <1>3, PrefixIs
<1>5. \A i \in DOMAIN file : file[i].part \notin Bare /\ file[i].part \notin Openended /\ file[i].part \notin Unfinished
  BY DEF Bare, Openended, Unfinished
<1> HIDE DEF path
<1>6. \A i \in DOMAIN file :
        Accepted(file, i) <=>
          /\ path(i) # <<>>
          /\ \A j \in 1 .. i - 1 : /\ path(j) # path(i)
                                   /\ ~IsPrefix(Append(path(i), Dpi), path(j))
                                   /\ ~IsPrefix(Append(path(j), Dpi), path(i))
  <2> SUFFICES ASSUME NEW i \in DOMAIN file
               PROVE  Accepted(file, i) <=>
                        /\ path(i) # <<>>
                        /\ \A j \in 1 .. i - 1 : /\ path(j) # path(i)
                                                 /\ ~IsPrefix(Append(path(i), Dpi), path(j))
                                                 /\ ~IsPrefix(Append(path(j), Dpi), path(i))
    OBVIOUS
  <2>1. \A j \in 1 .. i - 1 : j \in DOMAIN file
    BY <1>1
  <2> QED BY <1>2, <1>4, <1>5, <2>1 DEF Accepted
<1>7. ASSUME Parsable(file) PROVE apart
  <2>1. \A i \in DOMAIN file : Accepted(file, i)
    BY <1>1, <1>7, ReadableIs
  <2>2. ASSUME NEW i \in DOMAIN file, NEW j \in DOMAIN file, i # j
        PROVE  path(i) # path(j) /\ ~IsPrefix(Append(path(i), Dpi), path(j))
    <3>1. CASE i < j
      <4>1. i \in 1 .. j - 1
        BY <1>1, <3>1
      <4> QED BY <1>6, <2>1, <4>1
    <3>2. CASE j < i
      <4>1. j \in 1 .. i - 1
        BY <1>1, <3>2
      <4> QED BY <1>6, <2>1, <4>1
    <3> QED BY <1>1, <2>2, <3>1, <3>2
  <2> QED BY <1>6, <2>1, <2>2
<1>8. ASSUME apart PROVE Parsable(file)
  <2>1. ASSUME NEW i \in DOMAIN file PROVE Accepted(file, i)
    <3>1. \A j \in 1 .. i - 1 : j \in DOMAIN file /\ j # i
      BY <1>1
    <3> QED BY <1>6, <1>8, <3>1
  <2> QED BY <1>1, <2>1, ReadableIs
<1> QED BY <1>7, <1>8

\* A preset the user was told is saved loads with the value saved last, whatever
\* else was appended to the file, as long as it can be read.
THEOREM PresetsComeBack == PresetsSpec => []SavedComesBack
BY FileAlways, ComesBack, PTL

\* What is loaded is a level, and was saved, or left by a save that failed.
THEOREM PresetsSound == PresetsSpec => []LoadsSound
BY FileAlways, Sound, PTL

\* Which whole entries the parser accepts together does not depend on their order.
THEOREM PresetsOrderFree == PresetsSpec => []OrderFree
BY FileAlways, Free, PTL
-----------------------------------------------------------------------------
(* Cli. *)

\* Whatever the arguments, a run changes the presets by a step of Presets or not
\* at all: what is proved of the preset file holds of any sequence of runs.
THEOREM RunsKeepPresets == CliSpec => PresetsSpec
<1>1. CliInit => PresetsInit
  BY DEF CliInit
<1>2. [CliNext]_cliVars => [PresetsNext]_preset
  BY DEF CliNext, cliVars, CliStart, Run, Over, Refuse, NoHome, Help, Battery, SavePreset,
     LoadPreset,
         Prompt, SetLevel, PresetsNext
<1> QED BY <1>1, <1>2, PTL DEF CliSpec, PresetsSpec

\* An address that is accepted is that of a stage.
LEMMA StageIs ==
  ASSUME NEW address \in Int, StageAddress(address)
  PROVE  address # 0 /\ address \in {12 + 4 * k : k \in 0 .. 7}
<1>1. address = 12 + 4 * ((address - 12) \div 4) /\ (address - 12) \div 4 \in 0 .. 7
  BY DEF StageAddress, Unaligned
<1> QED BY <1>1 DEF StageAddress, Unaligned

\* A run that sets a level, in a way that usage allows, does what was said.
LEMMA SetsMeant ==
  ASSUME argv \in Seq(Words), argv' = argv, file' = file,
         ~BadAddress, NEW level \in Int, Typed(level) => Usage(Rest, level),
         outcome' = "driver" =>
           Typed(level) /\ call' = [what |-> "set", level |-> level, address |-> Address]
  PROVE  CallMeant'
<1> SUFFICES ASSUME outcome' = "driver" PROVE CallMeant'
  BY DEF CallMeant
<1>1. Typed(level) /\ call' = [what |-> "set", level |-> level, address |-> Address]
  OBVIOUS
<1>2. call'.what = "set" /\ call'.level = level /\ call'.address = Address /\ Usage(Rest, level)
  BY <1>1
<1>3. level \in {50 * k : k \in 1 .. 520}
  <2>1. Loadable(level)
    BY <1>1 DEF Typed, Loadable
  <2> QED BY <2>1, LevelIs
<1>4. Usage(Rest, level)' <=> Usage(Rest, level)
  BY DEF Usage, Rest, WithAddress
<1>5. CASE WithAddress
  <2>1. argv # <<>> /\ argv[1] = "--dpi-address" /\ Len(argv) > 1 /\ StageAddress(AsAddress[argv[2]])
    BY <1>5 DEF WithAddress, BadAddress
  <2>2. Address = AsAddress[argv[2]] /\ Rest = SubSeq(argv, 3, Len(argv))
    BY <1>5 DEF Address, Rest
  <2>3. AsAddress[argv[2]] \in Int
    <3>1. argv[2] \in Words
      BY <2>1
    <3> QED BY <3>1, CliAssumption
  <2>4. Address # 0 /\ Address \in {12 + 4 * k : k \in 0 .. 7}
    BY <2>1, <2>2, <2>3, StageIs
  <2> QED BY <1>2, <1>3, <2>1, <2>2, <2>4 DEF CallMeant, Usage
<1>6. CASE ~WithAddress
  <2>1. Address = 0 /\ Rest = argv
    BY <1>6 DEF Address, Rest
  <2> QED BY <1>2, <1>3, <2>1 DEF CallMeant, Usage
<1> QED BY <1>5, <1>6

\* The inductive invariant of Cli.
CliInv == FileInv /\ argv \in Seq(Words) /\ CallMeant

\* Every step of a run preserves it.
LEMMA CliStepInv == CliInv /\ [CliNext]_cliVars => CliInv'
<1> SUFFICES ASSUME CliInv, [CliNext]_cliVars PROVE CliInv'
  OBVIOUS
<1>1. FileInv'
  <2>1. [PresetsNext]_preset
    BY DEF CliNext, cliVars, CliStart, Run, Over, Refuse, NoHome, Help, Battery,
       SavePreset, LoadPreset,
           Prompt, SetLevel, PresetsNext
  <2> QED BY <2>1, FileStep DEF CliInv
<1>2. CASE CliStart
  <2>1. outcome' = "running"
    BY <1>2 DEF CliStart
  <2>2. argv' \in Seq(Words)
    <3>1. PICK n \in 0 .. MaxWords : argv' \in [1 .. n -> Words]
      BY <1>2 DEF CliStart
    <3>2. n \in Nat
      BY CliAssumption
    <3> QED BY <3>1, <3>2
  <2> QED BY <1>1, <2>1, <2>2 DEF CliInv, CallMeant
<1>3. CASE Over
  BY <1>1, <1>3 DEF Over, CliInv, CallMeant
<1>4. CASE Run
  <2>1. argv' = argv /\ argv \in Seq(Words)
    BY <1>4 DEF Run, CliInv
  <2>2. ASSUME outcome' # "driver" PROVE CallMeant'
    BY <2>2 DEF CallMeant
  <2>3. ASSUME Refuse PROVE CallMeant'
    <3>1. outcome' # "driver"
      BY <2>3 DEF Refuse, Exits
    <3> QED BY <2>2, <3>1
  <2>4. ASSUME NoHome PROVE CallMeant'
    <3>1. outcome' # "driver"
      BY <2>4 DEF NoHome, Exits
    <3> QED BY <2>2, <3>1
  <2>5. ASSUME Help PROVE CallMeant'
    <3>1. outcome' # "driver"
      BY <2>5 DEF Help, Exits
    <3> QED BY <2>2, <3>1
  <2>6. ASSUME Battery PROVE CallMeant'
    <3>1. Option("-b") /\ ~Refused /\ call' = [what |-> "battery", level |-> 0, address |-> Address]
      BY <2>6 DEF Battery, Calls
    <3>3. call'.what = "battery"
      BY <3>1
    <3>4. ~WithAddress /\ Len(Rest) = 1 /\ Rest[1] = "-b"
      BY <3>1 DEF Refused, Option
    <3>2. argv = <<"-b">>
      <4>1. Rest = argv
        BY <3>4 DEF Rest
      <4>2. argv \in Seq(Words) /\ Len(argv) = 1 /\ argv[1] = "-b"
        BY <2>1, <3>4, <4>1
      <4> QED BY <4>2
    <3> QED BY <2>1, <3>2, <3>3 DEF CallMeant
  <2>7. ASSUME SavePreset PROVE CallMeant'
    <3>1. outcome' # "driver"
      BY <2>7 DEF SavePreset, Exits
    <3> QED BY <2>2, <3>1
  <2>8. Rest \in Seq(Words)
    BY <2>1 DEF Rest
  <2>9. ASSUME LoadPreset PROVE CallMeant'
    <3>1. file \in Seq(Entries)
      BY DEF CliInv, FileInv, PresetsTypeOK
    <3>2. Found \in Int
      <4>1. ASSUME Load(file, Rest[2]) # 0 PROVE Load(file, Rest[2]) \in Int
        <5>1. PICK i \in Valued(file, Len(file)) : file[i].dpi = Load(file, Rest[2])
          BY <3>1, <4>1, LoadIs
        <5>2. i \in DOMAIN file
          BY <3>1 DEF Valued
        <5> QED BY <3>1, <5>1, <5>2, EntryOf
      <4> QED BY <4>1 DEF Found
    <3>3. PICK level \in Int : level = Found
      BY <3>2
    <3>4. /\ ~BadAddress /\ Rest # <<>> /\ Rest[1] = "-p" /\ file' = file
          /\ outcome' = "driver" =>
               Typed(level) /\ call' = [what |-> "set", level |-> level, address |-> Address]
      BY <2>9, <3>3 DEF LoadPreset, Option, preset, Sets, Calls, Exits
    <3>5. Len(Rest) = 2
      <4>1. ~TooMany /\ Len(Rest) # 1
        BY <2>9 DEF LoadPreset, Refused
      <4>2. Len(Rest) \in Nat /\ Len(Rest) # 0
        BY <2>8, <3>4
      <4>3. Len(Rest) > 1 => Len(Rest) = 2
        BY <4>1 DEF TooMany
      <4>4. PICK n \in Nat : n = Len(Rest)
        BY <4>2
      <4>5. n # 0 /\ n # 1 /\ (n > 1 => n = 2)
        BY <4>1, <4>2, <4>3, <4>4
      <4> QED BY <4>4, <4>5
    <3>6. Typed(level) => Load(file, Rest[2]) = level
      BY <3>3 DEF Found, Typed
    <3>7. Typed(level) => Usage(Rest, level)
      BY <3>4, <3>5, <3>6 DEF Usage
    <3> QED BY <2>1, <3>4, <3>7, SetsMeant
  <2>10. ASSUME Prompt PROVE CallMeant'
    <3>1. PICK level \in Entered :
            outcome' = "driver" =>
              Typed(level) /\ call' = [what |-> "set", level |-> level, address |-> Address]
      BY <2>10 DEF Prompt, Sets, Calls, Exits
    <3>2. ~BadAddress /\ Rest = <<>> /\ file' = file
      BY <2>10 DEF Prompt, NoOption, preset
    <3>3. level \in Int
      BY PresetsAssumption
    <3>4. Usage(Rest, level)
      BY <3>2 DEF Usage
    <3> QED BY <2>1, <3>1, <3>2, <3>3, <3>4, SetsMeant
  <2>11. ASSUME SetLevel PROVE CallMeant'
    <3>1. Len(Rest) = 1
      <4>1. ~TooMany /\ ~Option("-p") /\ Rest # <<>>
        BY <2>11 DEF SetLevel, NoOption, Refused
      <4>2. Len(Rest) \in Nat /\ Len(Rest) # 0
        BY <2>8, <4>1
      <4>3. ~(Len(Rest) > 1)
        BY <4>1 DEF TooMany
      <4>4. PICK n \in Nat : n = Len(Rest)
        BY <4>2
      <4>5. n # 0 /\ ~(n > 1)
        BY <4>2, <4>3, <4>4
      <4> QED BY <4>4, <4>5
    <3>2. AsNumber[Rest[1]] \in Int
      <4>1. Rest[1] \in Words
        BY <2>8, <3>1
      <4> QED BY <4>1, CliAssumption
    <3>3. PICK level \in Int : level = AsNumber[Rest[1]]
      BY <3>2
    <3>4. /\ ~BadAddress /\ file' = file
          /\ outcome' = "driver" =>
               Typed(level) /\ call' = [what |-> "set", level |-> level, address |-> Address]
      BY <2>11, <3>3 DEF SetLevel, NoOption, preset, Sets, Calls, Exits
    <3>5. Usage(Rest, level)
      BY <3>1, <3>3 DEF Usage
    <3> QED BY <2>1, <3>4, <3>5, SetsMeant
  <2>12. CallMeant'
    BY <1>4, <2>3, <2>4, <2>5, <2>6, <2>7, <2>9, <2>10, <2>11 DEF Run
  <2> QED BY <1>1, <2>1, <2>12 DEF CliInv
<1>5. CASE UNCHANGED cliVars
  BY <1>1, <1>5 DEF cliVars, preset, CliInv, CallMeant, Usage
<1> QED BY <1>2, <1>3, <1>4, <1>5 DEF CliNext

LEMMA CliInitInv == CliInit => CliInv
BY FileInit DEF CliInit, CliInv, CallMeant

\* Whatever the arguments, and however many, a run that calls the driver does so for
\* exactly what they say.
THEOREM CallsMeant == CliSpec => []CallMeant
<1>1. CliInv => CallMeant
  BY DEF CliInv
<1> QED BY <1>1, CliInitInv, CliStepInv, PTL DEF CliSpec
\* In any sequence of runs of the program, what a run said is saved is found by
\* a later one, and what a run finds was saved or left by a failed save.
THEOREM PresetsOfRuns == CliSpec => [](SavedComesBack /\ LoadsSound)
BY RunsKeepPresets, PresetsComeBack, PresetsSound, PTL
=============================================================================
