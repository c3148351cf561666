------------------------------ MODULE Session ------------------------------
(***************************************************************************)
(* How runs of the driver take the mouse from the kernel and give it back: *)
(* open_mouse, close_mouse and the runs around them in src/driver.c, with  *)
(* libusb_init/open/claim/release/close/exit down to the usbfs calls that  *)
(* move interface 1 between the kernel's own driver, nobody, and a run.    *)
(* Several runs (processes) may be under way at once, the cable may be     *)
(* pulled and put back, a run may be killed at any point, and every call   *)
(* may fail.  What a run says to the mouse while it holds the interface is *)
(* module Driver.                                                          *)
(***************************************************************************)
EXTENDS Naturals

CONSTANTS
  Procs,    \* processes that may run the driver
  MaxRuns,  \* bound: runs started, by all processes
  MaxPlugs  \* bound: mice plugged in again

Devices == {"wired", "wireless"}
Nobody == {"kernel", "none"}

ASSUME SessionAssumption ==
  /\ Procs \cap Nobody = {}
  /\ MaxRuns \in Nat /\ MaxPlugs \in Nat

VARIABLES
  plugged,   \* mice that are connected
  bound,     \* who drives interface 1 of a mouse: "kernel", "none" or a process
  excuse,    \* ghost: why the kernel's driver is away, since it last was there
  contested, \* ghost: when the process claimed, another was about to disconnect
  oldKernel, \* no disconnect-and-claim call: libusb detaches, then claims
  runs, plugs,
  pc, wiredOnly, status,
  context,   \* the process holds libusb's default context
  device,    \* the mouse its handle is for, or "none"
  live,      \* that mouse has not been unplugged since it was opened
  claimed    \* claimed_interfaces of the handle

world == <<plugged, bound, excuse>>
given == <<oldKernel, runs, plugs>>
handle == <<device, live, claimed, contested>>
local == <<pc, wiredOnly, status, context, handle>>
vars == <<world, given, local>>

Init ==
  /\ plugged \in SUBSET Devices
  /\ bound = [d \in Devices |-> IF d \in plugged THEN "kernel" ELSE "none"]
  /\ excuse = [d \in Devices |-> {}]
  /\ oldKernel \in BOOLEAN /\ runs = 0 /\ plugs = 0
  /\ pc = [p \in Procs |-> "idle"]
  /\ wiredOnly = [p \in Procs |-> FALSE]
  /\ status = [p \in Procs |-> "none"]
  /\ context = [p \in Procs |-> FALSE]
  /\ device = [p \in Procs |-> "none"]
  /\ live = [p \in Procs |-> FALSE]
  /\ claimed = [p \in Procs |-> FALSE]
  /\ contested = [p \in Procs |-> FALSE]

At(p, here) == pc[p] = here
Go(p, there) == pc' = [pc EXCEPT ![p] = there]
Bind(p, who) == bound' = [bound EXCEPT ![device[p]] = who]

\* The mouse p has open is connected and has no driver at all.
Orphan(p) == live[p] /\ bound[device[p]] = "none"
Blame(p, why) ==
  excuse' = IF Orphan(p) THEN [excuse EXCEPT ![device[p]] = @ \cup {why}] ELSE excuse

-----------------------------------------------------------------------------
(* A run. *)

Start(p) ==
  /\ At(p, "idle") /\ runs < MaxRuns
  /\ Go(p, "init") /\ runs' = runs + 1
  /\ \E w \in BOOLEAN : wiredOnly' = [wiredOnly EXCEPT ![p] = w]
  /\ status' = [status EXCEPT ![p] = "failed"]
  /\ UNCHANGED <<world, oldKernel, plugs, context, handle>>

\* Mutants, here and below: a plausible slip in the definition that follows.
InitLibusbRaw(p) ==
  /\ At(p, "init")
  /\ \/ Go(p, "wired") /\ context' = [context EXCEPT ![p] = TRUE] /\ UNCHANGED status
     \/ Go(p, "idle") /\ status' = [status EXCEPT ![p] = "negative"] /\ UNCHANGED context
  /\ UNCHANGED <<world, given, wiredOnly, handle>>

\* A failing libusb_init ends the run before anything is opened.
InitLibusb(p) ==
  /\ At(p, "init")
  /\ \/ Go(p, "wired") /\ context' = [context EXCEPT ![p] = TRUE]
     \/ Go(p, "idle") /\ UNCHANGED context
  /\ UNCHANGED <<world, given, wiredOnly, status, handle>>

\* libusb_open_device_with_vid_pid gives a handle, or NULL whether the mouse
\* is absent or may not be opened.
Opened(p, d) ==
  /\ d \in plugged
  /\ Go(p, IF oldKernel THEN "detach" ELSE "claim")
  /\ device' = [device EXCEPT ![p] = d] /\ live' = [live EXCEPT ![p] = TRUE]

OpenWired(p) ==
  /\ At(p, "wired")
  /\ \/ Opened(p, "wired")
     \/ /\ Go(p, IF wiredOnly[p] THEN "exit" ELSE "wireless")
        /\ UNCHANGED <<device, live>>
  /\ UNCHANGED <<world, given, wiredOnly, status, context, claimed, contested>>

OpenWireless(p) ==
  /\ At(p, "wireless")
  /\ \/ Opened(p, "wireless")
     \/ Go(p, "exit") /\ UNCHANGED <<device, live>>
  /\ UNCHANGED <<world, given, wiredOnly, status, context, claimed, contested>>

\* The calls that take the interface spare another process's claim.
Claimable(p) == live[p] /\ bound[device[p]] \in {"kernel", "none"}

Claimed(p) ==
  /\ Go(p, "work") /\ Bind(p, p) /\ claimed' = [claimed EXCEPT ![p] = TRUE]
  /\ contested' = [contested EXCEPT ![p] =
       \E q \in Procs : At(q, "disconnect") /\ live[q] /\ device[q] = device[p]]

\* Automatic detaching enabled, the interface taken in one call.
Claim(p) ==
  /\ At(p, "claim") /\ Claimable(p) /\ Claimed(p)
  /\ UNCHANGED <<plugged, excuse, given, wiredOnly, status, context, device, live>>

\* Enabling automatic detaching, disconnecting or claiming fails.
ClaimFails(p) ==
  /\ pc[p] \in {"claim", "disconnect"}
  /\ Go(p, "close")
  /\ UNCHANGED <<world, given, wiredOnly, status, context, handle>>

UsedByRun(p) == live[p] /\ bound[device[p]] \notin Nobody

DetachUnchecked(p) ==
  /\ At(p, "detach") /\ Go(p, "disconnect")
  /\ UNCHANGED <<world, given, wiredOnly, status, context, handle>>

\* The fallback for old kernels asks who drives the interface.  It spares a
\* claim through usbfs; without a driver or a mouse the question fails, which
\* is no reason not to disconnect.
Detach(p) ==
  /\ At(p, "detach")
  /\ Go(p, IF UsedByRun(p) THEN "plain" ELSE "disconnect")
  /\ UNCHANGED <<world, given, wiredOnly, status, context, handle>>

\* Only then it disconnects whatever drives the interface by now.
Disconnect(p) ==
  /\ At(p, "disconnect") /\ live[p]
  /\ Go(p, "plain") /\ Bind(p, "none")
  /\ UNCHANGED <<plugged, excuse, given, wiredOnly, status, context, handle>>

ClaimPlain(p) ==
  /\ At(p, "plain") /\ Orphan(p)
  /\ Claimed(p)
  /\ UNCHANGED <<plugged, excuse, given, wiredOnly, status, context, device, live>>

ClaimPlainFails(p) ==
  /\ At(p, "plain")
  /\ Go(p, "close") /\ Blame(p, "unclaimed")
  /\ UNCHANGED <<plugged, bound, given, wiredOnly, status, context, handle>>

\* set_sensitivity or the battery query; it cannot succeed without the mouse.
Work(p) ==
  /\ At(p, "work")
  /\ Go(p, "release")
  /\ \/ UNCHANGED status
     \/ live[p] /\ status' = [status EXCEPT ![p] = "ok"]
  /\ UNCHANGED <<world, given, wiredOnly, context, handle>>

ReleaseOnly(p) ==
  /\ At(p, "release") /\ live[p] /\ bound[device[p]] = p
  /\ Go(p, "close") /\ Bind(p, "none")
  /\ claimed' = [claimed EXCEPT ![p] = FALSE]
  /\ UNCHANGED <<plugged, excuse, given, wiredOnly, status, context, device, live, contested>>

\* libusb_release_interface: release, then ask the kernel's driver back.  usbfs
\* refuses to release what another run has taken off.
Release(p) ==
  /\ At(p, "release") /\ live[p] /\ bound[device[p]] = p
  /\ Go(p, "attach") /\ Bind(p, "none")
  /\ claimed' = [claimed EXCEPT ![p] = FALSE]
  /\ UNCHANGED <<plugged, excuse, given, wiredOnly, status, context, device, live, contested>>

\* A failing release makes the whole run fail.
ReleaseFails(p) ==
  /\ At(p, "release")
  /\ Go(p, "close") /\ status' = [status EXCEPT ![p] = "failed"]
  /\ UNCHANGED <<world, given, wiredOnly, context, handle>>

\* The interface is free again, unless another run has it already.
Attach(p) ==
  /\ At(p, "attach")
  /\ Go(p, "close")
  /\ IF Orphan(p)
     THEN Bind(p, "kernel") /\ excuse' = [excuse EXCEPT ![device[p]] = {}]
     ELSE UNCHANGED <<bound, excuse>>
  /\ UNCHANGED <<plugged, given, wiredOnly, status, context, handle>>

\* op_release_interface drops what op_attach_kernel_driver returns.
AttachRefused(p) ==
  /\ At(p, "attach")
  /\ Go(p, "close") /\ Blame(p, "refused")
  /\ UNCHANGED <<plugged, bound, given, wiredOnly, status, context, handle>>

\* The descriptor goes: a claim that is left goes with it, and nobody calls
\* the kernel's driver back.
Drop(p, why) ==
  /\ device' = [device EXCEPT ![p] = "none"]
  /\ live' = [live EXCEPT ![p] = FALSE]
  /\ claimed' = [claimed EXCEPT ![p] = FALSE]
  /\ contested' = [contested EXCEPT ![p] = FALSE]
  /\ bound' = [d \in Devices |-> IF bound[d] = p THEN "none" ELSE bound[d]]
  /\ excuse' = [d \in Devices |->
       IF bound[d] = p \/ (Orphan(p) /\ device[p] = d /\ pc[p] \in {"plain", "attach"})
       THEN excuse[d] \cup {why} ELSE excuse[d]]

CloseSkipped(p) ==
  /\ At(p, "close") /\ Go(p, "exit")
  /\ UNCHANGED <<world, given, wiredOnly, status, context, handle>>

Close(p) ==
  /\ At(p, "close")
  /\ Go(p, "exit") /\ Drop(p, "unreleased")
  /\ UNCHANGED <<plugged, given, wiredOnly, status, context>>

Exit(p) ==
  /\ At(p, "exit")
  /\ Go(p, "idle") /\ context' = [context EXCEPT ![p] = FALSE]
  /\ UNCHANGED <<world, given, wiredOnly, status, handle>>

Killed(p) ==
  /\ ~At(p, "idle")
  /\ Go(p, "idle") /\ Drop(p, "killed")
  /\ status' = [status EXCEPT ![p] = "killed"]
  /\ context' = [context EXCEPT ![p] = FALSE]
  /\ UNCHANGED <<plugged, given, wiredOnly>>

-----------------------------------------------------------------------------
(* The cable. *)

Unplug(d) ==
  /\ d \in plugged /\ plugged' = plugged \ {d}
  /\ bound' = [bound EXCEPT ![d] = "none"]
  /\ live' = [p \in Procs |-> live[p] /\ device[p] # d]
  /\ UNCHANGED <<excuse, given, pc, wiredOnly, status, context, device, claimed, contested>>

\* The kernel binds its driver to a mouse that appears.
Plug(d) ==
  /\ d \notin plugged /\ plugs < MaxPlugs
  /\ plugs' = plugs + 1 /\ plugged' = plugged \cup {d}
  /\ bound' = [bound EXCEPT ![d] = "kernel"]
  /\ excuse' = [excuse EXCEPT ![d] = {}]
  /\ UNCHANGED <<oldKernel, runs, local>>

-----------------------------------------------------------------------------
Step(p) ==
  \/ InitLibusb(p) \/ OpenWired(p) \/ OpenWireless(p)
  \/ Claim(p) \/ ClaimFails(p) \/ Detach(p) \/ Disconnect(p)
  \/ ClaimPlain(p) \/ ClaimPlainFails(p)
  \/ Work(p) \/ Release(p) \/ ReleaseFails(p) \/ Attach(p) \/ AttachRefused(p)
  \/ Close(p) \/ Exit(p)

Next ==
  \/ \E p \in Procs : Start(p) \/ Step(p) \/ Killed(p)
  \/ \E d \in Devices : Unplug(d) \/ Plug(d)

Spec == Init /\ [][Next]_vars

-----------------------------------------------------------------------------
(* Properties *)

Phases == {"idle", "init", "wired", "wireless", "claim", "detach", "disconnect", "plain",
           "work", "release", "attach", "close", "exit"}
Reasons == {"unclaimed", "unreleased", "refused", "killed"}

TypeOK ==
  /\ plugged \subseteq Devices
  /\ bound \in [Devices -> Procs \cup {"kernel", "none"}]
  /\ excuse \in [Devices -> SUBSET Reasons]
  /\ oldKernel \in BOOLEAN
  /\ runs \in 0 .. MaxRuns /\ plugs \in 0 .. MaxPlugs
  /\ pc \in [Procs -> Phases]
  /\ wiredOnly \in [Procs -> BOOLEAN]
  /\ status \in [Procs -> {"none", "ok", "failed", "killed"}]
  /\ context \in [Procs -> BOOLEAN] /\ claimed \in [Procs -> BOOLEAN]
  /\ contested \in [Procs -> BOOLEAN]
  /\ device \in [Procs -> Devices \cup {"none"}]
  /\ live \in [Procs -> BOOLEAN]

\* One run at a time talks to a mouse: while its handle is alive, a run that
\* works has the interface, whatever other runs, kills and cables do.  On old
\* kernels it may lose it, and two may work, but only if another run had
\* already asked and not yet disconnected when it claimed: a run that comes
\* later spares it.
WorksAlone ==
  \A p \in Procs : pc[p] \in {"work", "release"} /\ live[p] =>
    bound[device[p]] = p \/ (oldKernel /\ contested[p])

\* A run that is over, on whichever of its error paths, keeps no handle, no
\* claim and no libusb context, and the kernel knows of no claim of its.
NothingKept ==
  \A p \in Procs : At(p, "idle") =>
    /\ ~context[p] /\ ~claimed[p] /\ device[p] = "none"
    /\ \A d \in Devices : bound[d] # p

\* A connected mouse is without any driver only between two adjacent calls of
\* a run, or after a run was killed, could not claim what it had detached,
\* failed to release (and said so), or the kernel refused to take it back.
OrphanExcused ==
  \A d \in plugged : bound[d] = "none" =>
    \/ excuse[d] # {}
    \/ \E p \in Procs : device[p] = d /\ live[p] /\ pc[p] \in {"plain", "attach"}

\* libusb/core.c:1861: "If auto_detach_kernel_driver is set to 1 for <tt>dev</tt>,
\* the kernel driver will be re-attached after releasing the interface."
ReleaseReattaches ==
  \A p \in Procs :
    At(p, "close") /\ status[p] = "ok" /\ live[p] => bound[device[p]] # "none"
=============================================================================
