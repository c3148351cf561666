----------------------------- MODULE UsbDevices -----------------------------
(* The device list of libusb's default context on Linux: libusb_init reads  *)
(* it from sysfs, a monitor thread keeps it up to date from the kernel's    *)
(* uevents, and one application thread, as the driver's, lists devices,     *)
(* opens one, handles events (and in them the hotplug messages), and ends   *)
(* with libusb_exit.  Devices are counted by reference; a number stands for *)
(* the memory of one, which is used again once it is freed.                 *)
EXTENDS Integers, FiniteSets, Sequences, SequencesExt

CONSTANTS
  Sessions,   \* session ids: bus number and address of what may be plugged in
  Parent,     \* the hub a session is behind, or Nothing
  Nothing,
  Objects,    \* how many struct libusb_device fit in memory
  Callbacks,  \* hotplug callbacks the application may register
  MaxUsers,   \* bound: libusb_init without libusb_exit
  MaxChanges  \* bound: plugging and unplugging

ASSUME UsbDevicesAssumption ==
  /\ Parent \in [Sessions -> Sessions \cup {Nothing}] /\ Nothing \notin Sessions
  /\ \E tier \in [Sessions -> 1..7] :
       \A s \in Sessions : Parent[s] # Nothing => tier[s] = tier[Parent[s]] + 1
  /\ Nothing \notin Callbacks
  /\ Objects \in Nat /\ MaxUsers \in Nat \ {0} /\ MaxChanges \in Nat

Devices == 1..Objects
NoDevice == 0

VARIABLES
  plugged, changes, \* the bus
  uevents,    \* in the netlink socket: [act, id]; "other" is no USB device
  due,        \* ghost: how many of those have been there since before a poll
  monitor,    \* the thread: "off", "poll", "woken" (poll returned), "work"
  stopping,   \* netlink_control_event
  lock,       \* linux_hotplug_lock: "free", "monitor" or "app"
  jobs,       \* what its owner is doing, innermost last: [at, id, dev]
  usbDevs,    \* usb_devs, but for its order
  refs, session, parent, attached, \* of a device: refcnt, 0 if it is no more, ...
  messages, batch, \* hotplug_msgs, and those cut off to be processed
  active, ready, users, \* in active_contexts_list; hotplug_ready; default_context_refcnt
  pc,         \* of the application
  todo,       \* directory entries of sysfs the scan has yet to read
  held,       \* the list libusb_get_device_list gave out
  handle,     \* the device opened, or being opened
  cbs,        \* hotplug_cbs, but for their order
  leaving,    \* those marked USBI_HOTPLUG_NEEDS_FREE
  walk,       \* callbacks the present message has yet to reach
  calling,    \* the one that is running
  enumerating, \* callback being registered with LIBUSB_HOTPLUG_ENUMERATE
  leftover,   \* devices libusb_exit has yet to release
  told,       \* ghost: what a callback last heard of a device
  lost        \* ghost: devices whose own reference nobody drops any more

bus == <<plugged, changes>>
memory == <<refs, session, parent, attached>>
thread == <<monitor, stopping>>
context == <<active, ready, users>>
hotplug == <<cbs, leaving, walk, calling, enumerating, told>>
app == <<pc, todo, held, handle, leftover>>
vars == <<bus, uevents, due, thread, lock, jobs, usbDevs, memory, messages, batch,
          context, app, hotplug, lost>>

Init ==
  /\ \E s \in SUBSET Sessions :
       plugged = {x \in s : Parent[x] = Nothing \/ Parent[x] \in s}
  /\ changes = 0 /\ uevents = <<>> /\ due = 0 /\ monitor = "off" /\ stopping = FALSE
  /\ lock = "free" /\ jobs = <<>> /\ usbDevs = {}
  /\ refs = [d \in Devices |-> 0] /\ session = [d \in Devices |-> Nothing]
  /\ parent = [d \in Devices |-> NoDevice] /\ attached = {}
  /\ messages = <<>> /\ batch = <<>>
  /\ active = FALSE /\ ready = FALSE /\ users = 0
  /\ pc = "idle" /\ todo = {} /\ held = {} /\ handle = NoDevice /\ leftover = {}
  /\ cbs = {} /\ leaving = {} /\ walk = {} /\ calling = Nothing /\ enumerating = Nothing
  /\ told = [c \in Callbacks |-> [d \in Devices |-> "nothing"]] /\ lost = {}

------------------------------------------------------------------------------
(* References. *)

Alive == {d \in Devices : refs[d] > 0}
Ref(d) == refs' = [refs EXCEPT ![d] = @ + 1]

\* Mutants, here and below: a plausible slip in the definition that follows.

\* Upwards from d, through those that pass it on: what is in every set that
\* is closed in this way.
Closed(S, passing) == \A e \in S \cap passing : parent[e] \in S \cup {NoDevice}
Reaches(d, e, passing) ==
  \A S \in SUBSET Devices : d \in S /\ Closed(S, passing) => e \in S
Line(d) == {e \in Devices : Reaches(d, e, Devices)}

\* libusb_unref_device: what is destroyed drops its parent, and its memory
\* means nothing any more.
DropAlone(r, d) == [r EXCEPT ![d] = @ - 1]
Drop(r, d) ==
  LET destroyed == {e \in Devices : r[e] = 1}
  IN  [e \in Devices |-> IF Reaches(d, e, destroyed) THEN r[e] - 1 ELSE r[e]]
Cleared ==
  /\ session' = [d \in Devices |-> IF refs'[d] = 0 THEN Nothing ELSE session[d]]
  /\ parent' = [d \in Devices |-> IF refs'[d] = 0 THEN NoDevice ELSE parent[d]]
  /\ attached' = {d \in attached : refs'[d] > 0}
  /\ told' = [c \in Callbacks |->
                [d \in Devices |-> IF refs'[d] = 0 THEN "nothing" ELSE told[c][d]]]
Unref(d) == refs' = Drop(refs, d) /\ Cleared
RefsUnchanged == UNCHANGED <<memory, told>>

------------------------------------------------------------------------------
(* The bus, and the uevents of a socket that is open. *)

Announce(s) == uevents' = IF monitor = "off" THEN <<>> ELSE uevents \o s
BusUnchanged ==
  UNCHANGED <<due, thread, lock, jobs, usbDevs, memory, messages, batch, context,
              app, hotplug, lost>>

Plug(s) ==
  /\ changes < MaxChanges /\ s \notin plugged /\ Parent[s] \in plugged \cup {Nothing}
  /\ plugged' = plugged \cup {s} /\ changes' = changes + 1
  /\ Announce(<<[act |-> "add", id |-> s], [act |-> "other", id |-> s]>>)
  /\ BusUnchanged
Unplug(s) ==
  /\ changes < MaxChanges /\ s \in plugged /\ \A c \in plugged : Parent[c] # s
  /\ plugged' = plugged \ {s} /\ changes' = changes + 1
  /\ Announce(<<[act |-> "other", id |-> s], [act |-> "remove", id |-> s]>>)
  /\ BusUnchanged

------------------------------------------------------------------------------
(* What the owner of linux_hotplug_lock does: linux_enumerate_device and    *)
(* linux_device_disconnected.                                               *)

Job(at, s) == [at |-> at, id |-> s, dev |-> NoDevice]
Working == jobs # <<>>
Doing(at) == Working /\ Last(jobs).at = at
Now == Last(jobs)
Becomes(j) == jobs' = Front(jobs) \o <<j>>
Done == jobs' = Front(jobs)
Find(s) == {d \in usbDevs : session[d] = s}
WorkUnchanged ==
  UNCHANGED <<bus, uevents, due, thread, lock, batch, context, app, cbs, leaving,
              walk, calling, enumerating>>

\* Already listed; no memory; or gone before its descriptors were read.
ListedNot(s) == {}
Listed(s) == Find(s)
Known ==
  /\ Doing("find")
  /\ Listed(Now.id) # {} \/ Alive = Devices \/ Now.id \notin plugged
  /\ Done
  /\ UNCHANGED <<usbDevs, memory, messages, told, lost>> /\ WorkUnchanged

\* usbi_alloc_device and initialize_device.
Allocate ==
  /\ Doing("find") /\ Listed(Now.id) = {} /\ Now.id \in plugged
  /\ \E d \in Devices \ Alive :
       /\ \A e \in Devices \ Alive : d <= e
       /\ refs' = [refs EXCEPT ![d] = 1] /\ session' = [session EXCEPT ![d] = Now.id]
       /\ Becomes([Now EXCEPT !.at = "parent", !.dev = d])
  /\ UNCHANGED <<parent, attached, usbDevs, messages, told, lost>> /\ WorkUnchanged

\* linux_get_parent_info; a parent that is missing is enumerated first, once.
HasParent ==
  /\ Doing("parent") \/ Doing("again")
  /\ \E p \in Find(Parent[Now.id]) :
       Ref(p) /\ parent' = [parent EXCEPT ![Now.dev] = p]
  /\ Becomes([Now EXCEPT !.at = "attach"])
  /\ UNCHANGED <<session, attached, usbDevs, messages, told, lost>> /\ WorkUnchanged
NoParent ==
  /\ \/ Doing("parent") /\ Parent[Now.id] = Nothing
     \/ Doing("again") /\ Find(Parent[Now.id]) = {}
  /\ Becomes([Now EXCEPT !.at = "attach"])
  /\ UNCHANGED <<usbDevs, memory, messages, told, lost>> /\ WorkUnchanged
ParentFirst ==
  /\ Doing("parent") /\ Parent[Now.id] # Nothing /\ Find(Parent[Now.id]) = {}
  /\ jobs' = Front(jobs) \o <<[Now EXCEPT !.at = "again"], Job("find", Parent[Now.id])>>
  /\ UNCHANGED <<usbDevs, memory, messages, told, lost>> /\ WorkUnchanged

\* usbi_connect_device.
Attach ==
  /\ Doing("attach")
  /\ attached' = attached \cup {Now.dev} /\ usbDevs' = usbDevs \cup {Now.dev}
  /\ Becomes([Now EXCEPT !.at = "notify"])
  /\ UNCHANGED <<refs, session, parent, messages, told, lost>> /\ WorkUnchanged

\* usbi_hotplug_notification, silent until the context is ready.
NotifyInFront(event, d) ==
  messages' = IF ready THEN <<[event |-> event, dev |-> d]>> \o messages ELSE messages
Notify(event, d) ==
  messages' = IF ready THEN Append(messages, [event |-> event, dev |-> d]) ELSE messages
Arrived ==
  /\ Doing("notify")
  /\ Notify("arrived", Now.dev) /\ Done
  /\ UNCHANGED <<usbDevs, memory, told, lost>> /\ WorkUnchanged

\* linux_device_disconnected, usbi_disconnect_device.  The device's own
\* reference goes with the message, if there is one.
Gone ==
  /\ Doing("lose")
  /\ IF Find(Now.id) = {} THEN Done /\ UNCHANGED refs
     ELSE \E d \in Find(Now.id) : Ref(d) /\ Becomes([Now EXCEPT !.at = "detach", !.dev = d])
  /\ UNCHANGED <<session, parent, attached, usbDevs, messages, told, lost>> /\ WorkUnchanged
Detach ==
  /\ Doing("detach")
  /\ attached' = attached \ {Now.dev} /\ usbDevs' = usbDevs \ {Now.dev}
  /\ Becomes([Now EXCEPT !.at = "left"])
  /\ UNCHANGED <<refs, session, parent, messages, told, lost>> /\ WorkUnchanged
Left ==
  /\ Doing("left")
  /\ Notify("left", Now.dev) /\ Becomes([Now EXCEPT !.at = "drop"])
  /\ lost' = IF ready THEN lost ELSE lost \cup {Now.dev}
  /\ UNCHANGED <<usbDevs, memory, told>> /\ WorkUnchanged
DropFound ==
  /\ Doing("drop")
  /\ Unref(Now.dev) /\ Done
  /\ UNCHANGED <<usbDevs, messages, lost>> /\ WorkUnchanged

Work == \/ Known \/ Allocate \/ HasParent \/ NoParent \/ ParentFirst
        \/ Attach \/ Arrived \/ Gone \/ Detach \/ Left \/ DropFound

\* linux_netlink_read_message, for the contexts there are.
ActWhenReady(m) == IF ~ready \/ m.act = "other" THEN <<>>
          ELSE <<Job(IF m.act = "add" THEN "find" ELSE "lose", m.id)>>
Act(m) == IF ~active \/ m.act = "other" THEN <<>>
          ELSE <<Job(IF m.act = "add" THEN "find" ELSE "lose", m.id)>>
Less(n) == IF n = 0 THEN 0 ELSE n - 1

------------------------------------------------------------------------------
(* The monitor thread. *)

MonitorUnchanged ==
  UNCHANGED <<bus, stopping, usbDevs, memory, messages, batch, context, app, hotplug, lost>>

MonitorWakes ==
  /\ monitor = "poll" /\ ~stopping /\ uevents # <<>>
  /\ monitor' = "woken"
  /\ UNCHANGED <<uevents, due, lock, jobs>> /\ MonitorUnchanged
MonitorReads ==
  /\ monitor = "woken" /\ lock = "free"
  /\ IF uevents = <<>> THEN monitor' = "poll" /\ UNCHANGED <<uevents, due, lock, jobs>>
     ELSE /\ monitor' = "work" /\ lock' = "monitor"
          /\ uevents' = Tail(uevents) /\ due' = Less(due) /\ jobs' = Act(Head(uevents))
  /\ MonitorUnchanged
MonitorDone ==
  /\ monitor = "work" /\ ~Working
  /\ monitor' = "poll" /\ lock' = "free"
  /\ UNCHANGED <<uevents, due, jobs>> /\ MonitorUnchanged
MonitorExits ==
  /\ monitor = "poll" /\ stopping
  /\ monitor' = "off" /\ uevents' = <<>> /\ stopping' = FALSE
  /\ UNCHANGED <<due, lock, jobs, bus, usbDevs, memory, messages, batch, context, app,
                 hotplug, lost>>

Monitor == MonitorWakes \/ MonitorReads \/ MonitorDone \/ MonitorExits

------------------------------------------------------------------------------
(* libusb_init. *)

At(here) == pc = here
InitUnchanged ==
  UNCHANGED <<bus, due, usbDevs, memory, messages, batch, held, handle, leftover, hotplug>>

InitAgain ==
  /\ At("idle") /\ users \in 1..MaxUsers - 1
  /\ users' = users + 1
  /\ UNCHANGED <<uevents, thread, lock, jobs, active, ready, pc, todo, lost>> /\ InitUnchanged
\* A device is of one context: the application keeps none for the next.
InitBegins ==
  /\ At("idle") /\ users = 0 /\ held = {}
  /\ active' = TRUE /\ pc' = "start"
  /\ UNCHANGED <<uevents, thread, lock, jobs, ready, users, todo, lost>> /\ InitUnchanged
\* linux_netlink_start_event_monitor, which may fail.
MonitorStarts ==
  /\ At("start")
  /\ \/ monitor' = "poll" /\ pc' = "opendir" /\ UNCHANGED active
     \/ active' = FALSE /\ pc' = "idle" /\ UNCHANGED monitor
  /\ UNCHANGED <<uevents, stopping, lock, jobs, ready, users, todo, lost>> /\ InitUnchanged
\* linux_scan_devices, sysfs_get_device_list.
TakeLock == lock = "free" /\ lock' = "app"
ScanBegins ==
  /\ At("opendir") /\ TakeLock
  /\ todo' = plugged /\ pc' = "scan"
  /\ UNCHANGED <<uevents, thread, jobs, context, lost>> /\ InitUnchanged
ScanEntry ==
  /\ At("scan") /\ ~Working
  /\ \E s \in todo : todo' = todo \ {s} /\ jobs' = <<Job("find", s)>>
  /\ UNCHANGED <<uevents, thread, lock, context, pc, lost>> /\ InitUnchanged
ScanEnds ==
  /\ At("scan") /\ ~Working /\ todo = {}
  /\ lock' = "free" /\ pc' = "scanned"
  /\ UNCHANGED <<uevents, thread, jobs, context, todo, lost>> /\ InitUnchanged
\* usbi_hotplug_init.
InitEnds ==
  /\ At("scanned")
  /\ ready' = TRUE /\ users' = 1 /\ pc' = "idle"
  /\ UNCHANGED <<uevents, thread, lock, jobs, active, todo, lost>> /\ InitUnchanged
\* Every entry failed: the monitor is stopped and the context given up, with
\* what the monitor may have added to it since.
ScanFails ==
  /\ At("scan") /\ ~Working /\ todo = {} /\ usbDevs = {}
  /\ lock' = "free" /\ stopping' = TRUE /\ pc' = "give up"
  /\ UNCHANGED <<uevents, monitor, jobs, context, todo, lost>> /\ InitUnchanged
GivesUp ==
  /\ At("give up") /\ monitor = "off"
  /\ active' = FALSE /\ pc' = "idle"
  /\ lost' = lost \cup usbDevs /\ usbDevs' = {}
  /\ UNCHANGED <<bus, uevents, due, thread, lock, jobs, memory, messages, batch, ready,
                 users, todo, held, handle, leftover, hotplug>>

Initialise == InitAgain \/ InitBegins \/ MonitorStarts \/ ScanBegins \/ ScanEntry
              \/ ScanEnds \/ InitEnds \/ ScanFails \/ GivesUp

------------------------------------------------------------------------------
(* libusb_get_device_list, libusb_free_device_list, libusb_open and close.  *)

Up == At("idle") /\ users > 0
ListUnchanged ==
  UNCHANGED <<bus, thread, usbDevs, messages, batch, context,
              todo, leftover, cbs, leaving, walk, calling, lost>>

ListBegins ==
  /\ Up /\ held = {}
  /\ pc' = "lock" /\ UNCHANGED <<uevents, due, lock, jobs, memory, held, handle, enumerating, told>>
  /\ ListUnchanged
\* linux_netlink_hotplug_poll reads until there is nothing, or something that
\* is no USB device.
PollBegins ==
  /\ At("lock") /\ TakeLock
  /\ due' = Len(uevents) /\ pc' = "poll"
  /\ UNCHANGED <<uevents, jobs, memory, held, handle, enumerating, told>> /\ ListUnchanged
PollReads ==
  /\ At("poll") /\ ~Working /\ uevents # <<>>
  /\ uevents' = Tail(uevents) /\ due' = Less(due)
  /\ IF Head(uevents).act = "other"
     THEN lock' = "free" /\ pc' = "copy" /\ UNCHANGED jobs
     ELSE jobs' = Act(Head(uevents)) /\ UNCHANGED <<lock, pc>>
  /\ UNCHANGED <<memory, held, handle, enumerating, told>> /\ ListUnchanged
PollEmpty ==
  /\ At("poll") /\ ~Working /\ uevents = <<>>
  /\ lock' = "free" /\ pc' = "copy"
  /\ UNCHANGED <<uevents, due, jobs, memory, held, handle, enumerating, told>> /\ ListUnchanged
\* The list, each entry with a reference.
ReferencedNot(s) == refs
Referenced(s) == [d \in Devices |-> refs[d] + IF d \in s THEN 1 ELSE 0]
CopyList ==
  /\ At("copy") /\ enumerating = Nothing
  /\ held' = usbDevs /\ refs' = Referenced(usbDevs) /\ pc' = "idle" /\ due' = 0
  /\ UNCHANGED <<uevents, lock, jobs, handle, enumerating, session, parent, attached, told>> /\ ListUnchanged
\* libusb_hotplug_register_callback tells the new callback of the whole list,
\* whatever it returns, and frees the list.
Tell(c, e, S) == told' = [told EXCEPT ![c] = [d \in Devices |-> IF d \in S THEN e ELSE @[d]]]
Enumerate ==
  /\ At("copy") /\ enumerating # Nothing
  /\ Tell(enumerating, "arrived", usbDevs) /\ enumerating' = Nothing
  /\ pc' = "idle" /\ due' = 0
  /\ UNCHANGED <<uevents, lock, jobs, memory, held, handle>> /\ ListUnchanged
\* The application may keep devices longer than the library.
FreeList ==
  /\ At("idle")
  /\ \E d \in held : held' = held \ {d} /\ Unref(d)
  /\ UNCHANGED <<uevents, due, lock, jobs, pc, handle, enumerating>> /\ ListUnchanged

Open ==
  /\ Up /\ handle = NoDevice
  /\ \E d \in held \cap attached : Ref(d) /\ handle' = d
  /\ pc' = "open"
  /\ UNCHANGED <<uevents, due, lock, jobs, held, enumerating, session, parent, attached, told>> /\ ListUnchanged
\* op_open: the node of the device, if it is still there.
OpenNode ==
  /\ At("open")
  /\ pc' = IF session[handle] \in plugged THEN "idle" ELSE "missing"
  /\ UNCHANGED <<uevents, due, lock, jobs, memory, held, handle, enumerating, told>> /\ ListUnchanged
\* The monitor may not have seen the device leave.
OpenMissing ==
  /\ At("missing") /\ TakeLock
  /\ jobs' = IF handle \in attached THEN <<Job("lose", session[handle])>> ELSE <<>>
  /\ pc' = "refused"
  /\ UNCHANGED <<uevents, due, memory, held, handle, enumerating, told>> /\ ListUnchanged
OpenFails ==
  /\ At("refused") /\ ~Working
  /\ lock' = "free" /\ Unref(handle) /\ handle' = NoDevice /\ pc' = "idle"
  /\ UNCHANGED <<uevents, due, jobs, held, enumerating>> /\ ListUnchanged
Close ==
  /\ Up /\ handle # NoDevice
  /\ Unref(handle) /\ handle' = NoDevice
  /\ UNCHANGED <<uevents, due, lock, jobs, pc, held, enumerating>> /\ ListUnchanged

Use == \/ ListBegins \/ PollBegins \/ PollReads \/ PollEmpty \/ CopyList \/ Enumerate
       \/ FreeList \/ Open \/ OpenNode \/ OpenMissing \/ OpenFails \/ Close

------------------------------------------------------------------------------
(* Hotplug callbacks, and the messages handled with other events.           *)

HotplugUnchanged ==
  UNCHANGED <<bus, uevents, due, thread, lock, jobs, usbDevs,
              context, todo, held, handle, leftover, lost>>

\* From anywhere the application is, the inside of a callback included;
\* LIBUSB_HOTPLUG_ENUMERATE outside only.
Register ==
  /\ Up \/ At("called")
  /\ \E c \in Callbacks \ cbs :
       /\ cbs' = cbs \cup {c}
       /\ told' = [told EXCEPT ![c] = [d \in Devices |-> "nothing"]]
       /\ \/ UNCHANGED <<enumerating, pc>>
          \/ Up /\ enumerating' = c /\ pc' = "lock"
  /\ UNCHANGED <<memory, messages, batch, leaving, walk, calling>> /\ HotplugUnchanged
\* USBI_EVENT_HOTPLUG_CB_DEREGISTERED is raised with the mark.
Deregister ==
  /\ Up \/ At("called")
  /\ \E c \in cbs \ leaving : leaving' = leaving \cup {c}
  /\ UNCHANGED <<pc, memory, messages, batch, cbs, walk, calling, enumerating, told>> /\ HotplugUnchanged

\* handle_event_trigger cuts the messages off; usbi_hotplug_process has them.
Process ==
  /\ Up /\ (messages # <<>> \/ leaving # {})
  /\ batch' = messages /\ messages' = <<>> /\ walk' = cbs /\ pc' = "process"
  /\ UNCHANGED <<memory, cbs, leaving, calling, enumerating, told>> /\ HotplugUnchanged
Skipped(c) == c \in leaving
CallbackSkipped ==
  /\ At("process") /\ batch # <<>>
  /\ \E c \in walk : Skipped(c) /\ walk' = walk \ {c}
  /\ UNCHANGED <<pc, memory, messages, batch, cbs, leaving, calling, enumerating, told>>
  /\ HotplugUnchanged
CallbackCalled ==
  /\ At("process") /\ batch # <<>>
  /\ \E c \in walk :
       /\ ~Skipped(c) /\ walk' = walk \ {c} /\ calling' = c
       /\ Tell(c, Head(batch).event, {Head(batch).dev})
  /\ pc' = "called"
  /\ UNCHANGED <<memory, messages, batch, cbs, leaving, enumerating>> /\ HotplugUnchanged
\* A callback that returns 1 is taken off the list and freed.
CallbackReturns ==
  /\ At("called")
  /\ pc' = "process" /\ calling' = Nothing
  /\ \/ UNCHANGED <<cbs, leaving>>
     \/ cbs' = cbs \ {calling} /\ leaving' = leaving \ {calling}
  /\ UNCHANGED <<memory, messages, batch, walk, enumerating, told>> /\ HotplugUnchanged
\* The reference a message of a device that left holds is dropped.
HoldsDeviceAlways(m) == TRUE
HoldsDevice(m) == m.event = "left"
MessageDone ==
  /\ At("process") /\ batch # <<>> /\ walk = {}
  /\ batch' = Tail(batch) /\ walk' = cbs
  /\ IF HoldsDevice(Head(batch)) THEN Unref(Head(batch).dev) ELSE RefsUnchanged
  /\ UNCHANGED <<pc, messages, cbs, leaving, calling, enumerating>> /\ HotplugUnchanged
Processed ==
  /\ At("process") /\ batch = <<>>
  /\ cbs' = cbs \ leaving /\ leaving' = {} /\ walk' = {}
  /\ pc' = "idle"
  /\ UNCHANGED <<memory, messages, batch, calling, enumerating, told>> /\ HotplugUnchanged

Events == \/ Register \/ Deregister \/ Process \/ CallbackSkipped \/ CallbackCalled
          \/ CallbackReturns \/ MessageDone \/ Processed

------------------------------------------------------------------------------
(* libusb_exit. *)

ExitUnchanged ==
  UNCHANGED <<bus, due, lock, jobs, batch, todo, held, handle, walk, calling, enumerating, lost>>

ExitNot ==
  /\ Up /\ users > 1
  /\ users' = users - 1
  /\ UNCHANGED <<uevents, thread, usbDevs, memory, told, messages, active, ready, pc, leftover,
                 cbs, leaving>>
  /\ ExitUnchanged
\* Out of active_contexts_list, whose lock the monitor has while it works.
ListFree == ~Working
ExitBegins ==
  /\ Up /\ users = 1 /\ handle = NoDevice /\ ListFree
  /\ active' = FALSE /\ pc' = "exit"
  /\ UNCHANGED <<uevents, thread, usbDevs, memory, told, messages, ready, users, leftover, cbs,
                 leaving>>
  /\ ExitUnchanged

\* usbi_hotplug_exit: the callbacks go, then the messages with their
\* references, then the devices' own.  A device somebody else refers to stays
\* on the list; an ancestor of a device does not when nothing but one child
\* keeps it (usbi_recursively_remove_parents).
FreeCallbacks ==
  /\ At("exit")
  /\ cbs' = {} /\ leaving' = {} /\ pc' = "messages"
  /\ UNCHANGED <<uevents, thread, usbDevs, memory, told, messages, context, leftover>>
  /\ ExitUnchanged
FreeMessage ==
  /\ At("messages") /\ messages # <<>>
  /\ messages' = Tail(messages)
  /\ IF HoldsDevice(Head(messages)) THEN Unref(Head(messages).dev) ELSE RefsUnchanged
  /\ UNCHANGED <<uevents, thread, usbDevs, context, pc, leftover, cbs, leaving>> /\ ExitUnchanged
FreeDevices ==
  /\ At("messages") /\ messages = <<>>
  /\ leftover' = usbDevs /\ pc' = "devices"
  /\ UNCHANGED <<uevents, thread, usbDevs, memory, told, messages, context, cbs, leaving>>
  /\ ExitUnchanged
FreeDevice ==
  /\ At("devices")
  /\ \E d \in leftover :
       /\ leftover' = leftover \ {d}
       /\ usbDevs' = {e \in usbDevs : ~(e \in Line(d) /\ refs[e] = 1)}
       /\ Unref(d)
  /\ UNCHANGED <<uevents, thread, messages, context, pc, cbs, leaving>> /\ ExitUnchanged
StopMonitor ==
  /\ At("devices") /\ leftover = {}
  /\ stopping' = TRUE /\ pc' = "join"
  /\ UNCHANGED <<uevents, monitor, usbDevs, memory, told, messages, context, leftover, cbs, leaving>>
  /\ ExitUnchanged
\* op_exit has stopped the monitor; what is still listed loses its context.
ExitEnds ==
  /\ At("join") /\ monitor = "off"
  /\ usbDevs' = {} /\ ready' = FALSE /\ users' = 0 /\ pc' = "idle"
  /\ UNCHANGED <<uevents, thread, memory, told, messages, active, leftover, cbs, leaving>>
  /\ ExitUnchanged
Exit == ExitNot \/ ExitBegins \/ FreeCallbacks \/ FreeMessage \/ FreeDevices \/ FreeDevice
        \/ StopMonitor \/ ExitEnds

Next == (\E s \in Sessions : Plug(s) \/ Unplug(s))
        \/ Work \/ Monitor \/ Initialise \/ Use \/ Events \/ Exit

\* The monitor is scheduled, and a call of libusb that has begun goes on.
GoesOn == MonitorStarts \/ ScanBegins \/ ScanEntry \/ ScanEnds \/ InitEnds \/ GivesUp
          \/ PollBegins \/ PollReads \/ PollEmpty \/ CopyList \/ Enumerate
          \/ OpenNode \/ OpenMissing \/ OpenFails
          \/ CallbackSkipped \/ CallbackCalled \/ CallbackReturns \/ MessageDone \/ Processed
          \/ FreeCallbacks \/ FreeMessage \/ FreeDevices \/ FreeDevice \/ StopMonitor \/ ExitEnds
Fairness == WF_vars(Work) /\ WF_vars(Monitor) /\ WF_vars(GoesOn)

Spec == Init /\ [][Next]_vars /\ Fairness

------------------------------------------------------------------------------
(* Properties. *)

ToldOf(e) == [Callbacks -> [Devices -> e]]
Jobs == [at : {"find", "parent", "again", "attach", "notify", "lose", "detach", "left", "drop"},
         id : Sessions, dev : Devices \cup {NoDevice}]
Messages == [event : {"arrived", "left"}, dev : Devices]
Uevents == [act : {"add", "remove", "other"}, id : Sessions]
Places ==
  {"idle", "start", "opendir", "scan", "scanned", "give up", "lock", "poll", "copy", "open",
   "missing", "refused", "process", "called", "exit", "messages", "devices", "join"}

\* Types; linux_hotplug_lock has an owner while devices are added and removed.
TypeOK ==
  /\ plugged \subseteq Sessions /\ uevents \in Seq(Uevents) /\ due \in Nat
  /\ monitor \in {"off", "poll", "woken", "work"} /\ lock \in {"free", "monitor", "app"}
  /\ jobs \in Seq(Jobs) /\ (Working => lock # "free")
  /\ monitor = "work" <=> lock = "monitor"
  /\ usbDevs \subseteq Devices /\ refs \in [Devices -> Nat]
  /\ session \in [Devices -> Sessions \cup {Nothing}]
  /\ parent \in [Devices -> Devices \cup {NoDevice}]
  /\ messages \in Seq(Messages) /\ batch \in Seq(Messages)
  /\ users \in 0..MaxUsers /\ {active, ready, stopping} \subseteq BOOLEAN
  /\ pc \in Places /\ todo \subseteq Sessions
  /\ held \subseteq Devices /\ attached \subseteq Devices /\ handle \in Devices \cup {NoDevice}
  /\ leftover \subseteq Devices /\ lost \subseteq Devices
  /\ cbs \subseteq Callbacks /\ leaving \subseteq cbs /\ walk \subseteq Callbacks
  /\ calling \in Callbacks \cup {Nothing} /\ enumerating \in Callbacks \cup {Nothing}
  /\ told \in ToldOf({"nothing", "arrived", "left"})

\* usb_devs never has two devices of one session: the scan, the monitor and
\* libusb_get_device_list may all see the same device arrive, with the lock
\* that TypeOK says has an owner.
ListedOnce ==
  /\ TypeOK
  /\ \A d, e \in usbDevs : session[d] = session[e] => d = e

\* A device's reference count is the number of those who refer to it: itself,
\* while it is listed or its last message is on its way, its children, the
\* thread working on it, the application's list and its handle.
Count(b) == IF b THEN 1 ELSE 0
Number(s, X) == Cardinality({k \in DOMAIN s : s[k] \in X})
LeftOf(d) == {[event |-> "left", dev |-> d]}
JobsOf(d, ats) == {j \in Jobs : j.dev = d /\ j.at \in ats}
Own(d) == IF At("devices") THEN d \in leftover ELSE d \in usbDevs /\ ~At("join")
Children(d) == {c \in Alive : parent[c] = d}
References(d) ==
  Count(Own(d)) + Number(messages, LeftOf(d)) + Number(batch, LeftOf(d))
  + Number(jobs, JobsOf(d, {"parent", "again", "attach", "detach", "left", "drop"}))
  + Number(jobs, JobsOf(d, {"left"}))
  + Cardinality(Children(d)) + Count(d \in held) + Count(d = handle) + Count(d \in lost)
RefsExact == \A d \in Devices : refs[d] = References(d)

\* No list, message or callback holds on to a device that has been freed; in
\* particular the arrival of a device, which holds no reference, is handled
\* before its departure is.
NamedAlive ==
  /\ usbDevs \cup held \subseteq Alive
  /\ \A m \in ToSet(messages) \cup ToSet(batch) : m.dev \in Alive
  /\ \A d \in Alive : parent[d] \in Alive \cup {NoDevice}

\* Once a callback has been told that a device left, it hears no more of it.
NoGhosts ==
  [][\A c \in Callbacks, d \in Devices :
       told[c][d] = "left" /\ told'[c][d] # "left" => refs'[d] = 0 \/ c \notin cbs]_vars

\* After libusb_exit only what the application still refers to is in memory,
\* and the devices that left before the context was ready.
ExitFrees ==
  At("idle") /\ users = 0 =>
    /\ monitor = "off"
    /\ \A d \in Alive : \E e \in held \cup lost : d \in Line(e)

\* While a context is there, its list catches up with the bus.
CatchesUp ==
  []<>(users > 0 => {session[d] : d \in usbDevs} = plugged)

\* libusbi.h:1066: hotplug_poll "should ensure any pending hotplug events are
\* fully processed before returning".
PollDrains ==
  At("copy") => \A k \in 1..due : uevents[k].act = "other"
=============================================================================
