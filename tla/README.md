# A TLA+ model of K1NG-Driver

K1NG-Driver is a command-line program that sets the DPI of one mouse (USB
3554:f54d by cable, 3554:f54f by its wireless receiver), reads its battery, and
keeps named DPI presets in a file. It is small, but what it does is delicate:
it takes a USB interface away from the kernel, talks to a device that answers
late, twice or not at all, to requests that carry no transaction number, while
its user presses the buttons that change what the requests mean, and it must
give the interface back whatever happens.

This directory holds the TLA+ modules that model it, the TLC configurations
that check them on small instances, and TLAPS proofs of what can be proved for
every instance. Paths below are relative to the repository; `driver.c` is
`src/driver.c` in it, and so on.

Contents: [inventory](#inventory) · [modules](#the-modules-and-the-code) ·
[runs](#what-is-checked) · [bounds](#bounds) · [fairness](#fairness) ·
[proofs](#what-is-proved) · [disagreements](#where-code-and-documentation-disagree) ·
[assumptions](#assumptions-about-the-environment) · [limits](#what-is-not-modelled) ·
[plan](#plan)

## Inventory

| Component | Code | State | Operations | Module |
|---|---|---|---|---|
| Request/reply exchange | `driver.c` 13-204, libusb `io.c`, `sync.c`, `linux_usbfs.c` | one interrupt transfer, its buffer, the flag `completed`, a deadline, attempt and drain counters | drain, submit, send, wait, resubmit, cancel, free, retry | `Exchange`, `ExchangePromise`, `ExchangeProofs` |
| DPI change, battery query | `driver.c` 206-327, 394-424 | the state read first, the state read again, the target address | ten exchanges in a row, or two | `Driver`, `DriverProofs` |
| Device session | `driver.c` 329-392, libusb `core.c`, `linux_usbfs.c` | context, handle, claim; who drives the interface | init, open, detach, claim, release, attach, close, exit | `Session`, `ProgramProofs` |
| Report codec | `data.c`, `driver.c` 285-291 | none: bytes in, bytes out | build a report, close its sum, resolve the target, decode a word | `Reports`, `ProgramProofs` |
| Command line | `main.c` | the arguments that are left, what was typed | the address option, five forms of a call, prompts | `Cli`, `ProgramProofs` |
| Presets | `config.c`, `main.c` 75-129 | a text file | save appends, load parses | `Presets`, `ProgramProofs` |
| TOML parser | `includes/tomlc17-R260618` (vendored) | a tree of tables, arrays and values with flags, the current table | three kinds of statements; look-up | `Toml`, `TomlProofs`, `Presets` |
| libusb: transfers | `io.c`, `linux_usbfs.c` (vendored, 1.0.30) | a transfer and its URBs, two locks | submit, cancel, time out, reap, complete, disconnect | `UsbTransfer`, `UsbTransferProofs` |
| libusb: timeouts | `io.c` | the sorted list of flying transfers, one timer | add, leave, expire, rearm | `UsbTimers`, `UsbDeadlines`, `UsbTimersProofs` |
| libusb: event handling | `io.c`, `core.c`, `sync.c`, `events_posix.c` | two locks, the flags of the event descriptor, the polled set | become the handler, poll, hand over, sleep, interrupt, close | `UsbEvents`, `UsbEventsProofs` |
| libusb: devices and hotplug | `core.c`, `hotplug.c`, `linux_usbfs.c`, `linux_netlink.c` | the list, reference counts, parents, messages, callbacks | init, scan, monitor, list, open, register, process, exit | `UsbDevices`, `UsbDevicesProofs` |
| libusb: descriptors; other back ends | | | | not modelled |
| Help, diagnostics, captures, tests, build | | none at run time | | not modelled |

How they interact. `main` picks a command (Cli) and saves or loads presets
(Presets, which rest on Toml). A DPI change or a battery query runs
between `open_mouse` and `close_mouse` (Session). It is a script of exchanges
(Driver), each of which is one or more attempts to send a 17-byte report by a
control transfer and to receive a reply by an interrupt transfer (Exchange).
Under both are libusb's transfers (UsbTransfer), their timeouts (UsbTimers), the
hand-over of event handling (UsbEvents) and the device list (UsbDevices).

The program itself starts no thread; libusb starts one, which watches for
devices. The rest of its concurrency comes from elsewhere: callbacks
that libusb runs inside whatever call handles events, the kernel that owns the
buffer of a submitted transfer, the mouse, the user's fingers on the mouse,
other processes running the same program, the cable, and signals that kill it.
UsbEvents and UsbTransfer model libusb as what it is, a library for programs
with several threads.

What is hard, and which properties are about it:

- *A transfer outlives the code that waits for it.* Its buffer is on the stack
  of a caller. Every error path must cancel it and wait until libusb has reaped
  it: `BufferOwned`. The flag that says so is cleared after the transfer has been
  submitted again: `FlagExact`. Below, a transfer is several URBs, of which
  some may have been submitted when one is refused: `UrbsOwned`, `CalledAlone`,
  `Settles`, `DataInOrder`.
- *Waits that must end.* Reports nobody asked for arrive for ever, timers race
  with completions, a resubmission restarts the timer: `DeadlineKept`,
  `KeepsPromise`, `LateRunsEnd`; one timer serves all transfers: `TimerCovers`,
  `TimeoutsCome`; one thread polls for all of them: `NobodyDeaf`, `AllReturn`.
- *Answers to earlier requests.* Replies echo command and address and nothing
  else. A retry, or a run after a killed run, can meet the answer to an earlier
  request of the same kind: `AnswerSound`, `ChecksFresh`.
- *Retrying a write.* It could be applied twice, the second time to another
  profile: `ResentOnlyOnTimeout`, `KeepsPromise`.
- *Checks that are stale when they are used.* Stage and profile are read by two
  exchanges, compared before the write and compared again after it, while the
  user may change them: `SuccessSound`, `StableBeforeWrite`.
- *Cancellation, timeout and completion at once*, under two locks: `StatusTrue`,
  `CalledAlone`.
- *Descriptors and devices that go away while somebody uses them*: `PolledOpen`,
  `RefsExact`, `NamedAlive`, `NoGhosts`, `ExitFrees`.
- *Three parties that add devices to one list*: `ListedOnce`, `CatchesUp`.
- *Partial failure of acquisition and release.* `NothingKept`, `OrphanExcused`,
  `WorksAlone`.
- *Two pieces of arithmetic that must be inverse to each other*, in two files:
  `RoundTrip`, `Canonical`; an address computed from what the mouse says:
  `TargetUsable`.
- *A file that is only ever appended to*, by saves that do not look at it, and
  that one bad entry makes unreadable: `SavedComesBack`, `LoadsSound`,
  `OrderFree`; or that was edited by hand: `SaidIsFound`, `ValidAccepted`,
  `PlainKeysExact`.
- *Arguments that are shifted by an option*: `CallMeant`.

`PROJECT.json` lists the hazards at their lines with the properties that cover
each.

## The modules and the code

Where a definition is preceded by one with the same parameters and a comment
that calls it a mutant, that is a plausible slip in the code, kept beside the
definition it would replace. It is used by nothing; it is there to show
that the properties notice it.

### Exchange

One exchange after another, each with the transfer's life cycle. `pc` is the
place in `exchange`, `exchange_once`, `discard_pending_replies`, `wait_for_reply`
and `complete_interrupt`:

| `pc` | the thread is | actions |
|---|---|---|
| done | between two exchanges | `Begin` |
| drain | in `discard_pending_replies` | `DrainRead`, `DrainQuiet`, `DrainFails` |
| post | about to allocate and submit the receive | `Post`, `PostFails` |
| control | inside the synchronous control transfer | `ControlSucceeds`, `ControlFails` |
| await | in the loop of `complete_interrupt` | `Wake` |
| inspect, clock, clear | in the loop of `wait_for_reply` | `Inspect`, `GiveUp`, `Resubmit`, `ResubmitFails`, `ClearFlag` |
| cleanup, settle, free | at the end of `exchange_once` | `Cleanup`, `Settled`, `Free` |
| again | in the loop of `exchange` | `Retry`, `Return` |

The transfer `xfer` is none, idle, flying (the kernel has it), landed (the URB
has completed and has not been reaped) or discarded (cancelled, likewise).
`Land`, `LandFault`, `TimerFires`, `Reap` and `EventsFail` are the kernel and
libusb's event handling; timers and callbacks run only inside calls that handle
events (`HandlingEvents`), which the control transfer is one of. `Discard` is
cancelling, by the driver or by the timer: libusb calls a transfer that was
cancelled by its timer timed out, any other cancelled transfer cancelled, and
looks at neither's data. `Deliver`, `Arrive` and `Chatter` are the mouse.

A report is reduced to its class: *match* passes every test of `wait_for_reply`,
*invalid* names the request and fails a test, *other* is ignored. When a new
exchange begins, everything under way is classified afresh (`Begin` chooses how),
because the tests are relative to the request. The ghost `mine` says whether
the mouse sent the report for this exchange.

`ExchangePromise` is the abstract specification: `exchange` sends at most three
times a read and once anything else, returns 0 only after a request went out,
returns a timeout only after every permitted attempt, and returns.
`KeepsPromise` says that Exchange implements it under a refinement mapping that
forgets everything but `pc = "done"`, the request, the count of sends and the
result.

### Driver

`set_sensitivity` and `run_battery` as a `Script` of exchanges, at the level
of messages: `Drain`, `Send`, then `Ignore` and `Take...` of the replies in the
queue, `Timeout` with its retries, `ExchangeFails`. The mouse has profiles, each
with its configured stages and a register for each stage. `Serve` answers the
oldest request, applies a write to the profile that is active *then*, or only
acknowledges it; `Lose`, `Change` and `Killed` are the air, the user and a signal.
`Start` begins a run, with whatever earlier runs have left in the link.

`first` is `initial` of the code. `now` is `before` and later `after`.
`TakeProfile` contains the comparison by `same_state` and, at step 3, the
resolution of the target and its check against the configured stages. `Refused`
is the check of the stored word before the write and of the readback after it.
The ghosts record where the mouse was when it answered (`firstAt`, `checkAt`),
which steps took a reply that was not theirs (`stale`), and the command byte
of the readback.

Exchange and Driver overlap on purpose. Exchange knows transfers, time and
errors and treats the exchanges of a run as unrelated; Driver knows which
request follows which and what the replies say, and abstracts an attempt to
"drain, send, take or time out". That a success of an exchange means an
accepted reply in the buffer is `AnswerSound` of the former and `Taken` of the
latter.

### Session

`open_mouse` and `close_mouse` with the libusb calls they make, down to the
usbfs requests, for any set of processes. `bound` says who drives interface 1 of
each of the two mice: the kernel, nobody, or a process. Recent kernels detach and
claim in one call (`Claim`); on old ones, chosen once by `oldKernel`, libusb
asks who drives the interface (`Detach`), disconnects whatever does
(`Disconnect`) unless the answer was usbfs, and then claims (`ClaimPlain`), and
another process may come between any two of these. The code relies on the answer
after it may have become stale: if another run claims in between, its claim is
the one that is thrown off, and both may work. The ghost `contested` remembers of
a run that some other one was between question and disconnection when it claimed;
`WorksAlone` says that this is the only way to lose the interface, and that on
recent kernels there is none. (Without that exception, TLC shows a run at work
whose claim the second run has just taken off.) A run that has lost its interface
may still report success, and usbfs refuses its release; that usbfs
claims a free interface by itself when it is asked to transfer is not modelled.
`Release` and `Attach` are the two calls inside
`libusb_release_interface`, and `AttachRefused` is the second one failing, which
libusb does not report. `Drop` is what the kernel does when a descriptor is
closed, by `Close` or by `Killed`. `Unplug` and `Plug` are the cable. The ghost
`excuse` collects why a mouse has no driver.

### Reports

`data.c` on bytes. `Finish` is `finish_report`; `WordOf` and `PayloadOf` are
`get_payload`; `XOf`, `YOf` and `Readable` are the readout in `set_sensitivity`;
`Resolves` and `TargetOf` are `resolve_dpi_target`; `Answers` is the test of
`wait_for_reply`. `unsigned char` is `% 256`. `OnlineRequest` and `BatteryRequest`
are the two requests that `driver.c` writes out by hand, last byte included. The
mouse may hold any word and any configuration; what the driver writes replaces
the word. The order of the requests is left to Driver.

### Presets

The file is a sequence of entries, each with how much of it was written: `all`,
or cut short by a full disk inside the header, after it, after its line, inside
the key, inside or after the value, or before the blank line. `Parse` applies the
rules of tomlc17 to one entry after the other: which tables are defined, by a header or on the way to
one, and which hold a number. `Sought` is `toml_seek`, `Load` is
`config_load_preset`. `Save` is the branch of `main` that ends in "saved preset",
`SaveFails` is a save that the user is told has failed.

Names are classes of how they are read. `Header` gives the keys TOML sees in
`[name]` (none if it sees no header), `Seek` the keys `toml_seek` sees in the name.
They differ for a name in quotes. A name in brackets, which would declare an array
of tables, and a name with a comment sign are left out. Saves by
several processes are covered: each appends its entry when `fclose` flushes it, so
they follow one another in some order.

A transcription of `Parse` in Python was compared with the vendored parser on 6000 random files
of whole and cut entries, and agreed on all of them.

### Cli

`main` as a decision over the words of its command line, each reduced to what
`strcmp` and `strtol` make of it. `WithAddress` and `Rest` are the option
`--dpi-address` and the arguments it leaves; `Refused` collects the tests that
end in a usage message; `Help`, `Battery`, `SavePreset`, `LoadPreset`, `Prompt`
and `SetLevel` are the branches, `NoHome` the missing environment. Saving and
loading are the actions and operators of Presets. A run ends where it exits or
calls the driver, with `call` as the arguments of that call; the next one finds
the preset file as it was left. `--dpi-address X -s` is accepted and ignores the
address, as the code does.

### Toml

The tree of `toml_parse_named`, by path, one statement at a time: `ReadHeader`
(`[a.b]`), `ReadArrayHeader` (`[[a.b]]`) and `ReadKeyValue`. `Descend` is
`descend_keypart`, `Dotted` the walk of a dotted key, `Add` is `tab_add`. The
flags *std*, *explicit* and *inlined* are those of the code. `Presets` keeps its
own, smaller parser: the entries of a preset file are one header and one key each,
but may be cut in the middle of a line, which Toml knows nothing of.

`Valid` says, without a tree, an order or a flag, what a document without arrays and
inline tables may say. The parser refuses no valid one (`ValidAccepted`), and with
keys of one part accepts no other (`PlainKeysExact`). With dotted keys it does
accept others: `[a.b]`, then `c.x = 1`, then `[a]`, then `b.c.d = 2` adds to a
table that has a header of its own.

### UsbTransfer

A transfer from `libusb_submit_transfer` to its callback, with the thread that
submits and cancels ("app") and the thread that reaps ("event"). `urbs` are the
kernel requests it is split into. `List`, `SubmitUrb`, `SubmitRefused`,
`SubmitStops`, `SubmitEndsEarly`, `Accept` and `Unlist` are submission; `BeginCancel`,
`DiscardUrb`, `Walked` and `Cancel` are cancellation; `TimerFires`, `Expire` and `Mark` the
timeout, which cancels in the same way and then says so, under another lock;
`Reap` and `HandleBulk`, `HandleIso`, `HandleControl`, `HandleAbnormal` the end of a URB; `Why`,
`Remove`, `Settle` and `Call` the end of the transfer; `Hangup`, `FindLost` and
`ClearLost` the end of the device. The kernel (`UrbDone`, `UrbShort`, `UrbFails`,
`UrbOverflows`, `Unplug`, `Shutdown`) is external.

Data is a sequence of cells, numbered in the order in which the device sends
them, so that a hole, a swap and a wrong count can all be seen in `buf`.

Two corners the properties leave out, because the code really behaves so. A
URB of a continuation transfer that stalls *while later ones are still being
submitted* makes the kernel refuse those with `EREMOTEIO`, which
`submit_bulk_transfer` takes for a short URB (`COMPLETED_EARLY`): the transfer is
reported completed. `StatusTrue` excludes transfers that were cut off in submission
(`Stopped`). And a cable pulled in the middle of a cancellation can end a transfer
as completed, with isochronous slots out of order; `StatusTrue` and `DataInOrder` say
so with `alive`.

### UsbTimers

The list `flying_transfers`, sorted by deadline, and the timer that is armed for its
front; both, with what the timer has to do, are declared in `UsbDeadlines`, which the
run and the proofs share. `Add`, `Leave`, `Trigger` hold `flying_transfers_lock` throughout and are one
action each. Without a timer descriptor, `Look` and `Waited` are the wait of the thread
that polls. Behind a transfer that has timed out and has not come back the
timer may be armed for nobody; that transfer's own return rearms it, which
`TimerCovers` excepts and `TimeoutsCome` shows to be enough.

### UsbEvents

Threads that open a handle, make a synchronous transfer and close the handle, in the
steps between which another thread can act: looking at the flag without a lock (`Wait`),
trying the events lock, looking again (`Locked`), building the array
(`Prepare`), `Poll`, `EventTrigger`, `Callback`, `Unlock`, `Release`, `Broadcast`; or `Join`,
`Look`, `Ask` and `Wake` for those who sleep; and `Close`, `CloseLock`, `DoClose`, `Closed` for
`libusb_close`, which interrupts whoever polls and keeps others out. The
completion of a transfer is one step here and whole in UsbTransfer. Waits end by
their timeouts in the code, 60 seconds for a synchronous transfer; they are left out, so
that `AllReturn` says nobody ever *needs* them.

### UsbDevices

One context on Linux: `libusb_init` with its scan of sysfs, the monitor thread
that reads uevents, `libusb_get_device_list`, `libusb_open` and close, hotplug
callbacks, and `libusb_exit`. `jobs` is the call stack of whoever holds
`linux_hotplug_lock`: `linux_enumerate_device`, which enumerates a missing parent first, or
`linux_device_disconnected`. A device is the number of the memory it is in, which
is used again once it is freed, so that a stale pointer would be seen to name another
device. `lost` are devices that leave between the moment the context is visible to the
monitor and `hotplug_ready`: no message is sent for them, and nobody drops
their own reference. `RefsExact` and `ExitFrees` count them; the code leaks them.
The list and the callbacks are sets: their order decides only in which order `libusb_exit` drops
the devices and a message reaches the callbacks, and the model takes any. When a device is freed its
parents are unreferenced, as far as that frees them too: `Drop` says so without recursion, by
what belongs to every set of devices that is closed upwards (`Reaches`).

## Instances that share a run

Four MC modules put several instances side by side in one run, each on its own
variables or on the same ones, chosen by a variable that never changes; the variables of the other parts
are at rest. `MCProgram` has six parts: Session, Reports, Presets, Toml twice (three statements
without inline tables, two with them) and Cli. `MCExchange` holds Exchange with a reliable drain, and
with one that may miss a report. `MCDriverRuns` holds Driver with a busy user, with a
killed run, and with late replies. `MCUsbEvents` holds UsbEvents with three threads, with two that may
wake for no reason, and UsbTimers.

## What is checked

Passing runs:

| Run | Properties | What it shows |
|---|---|---|
| `exchange` | `BufferOwned` `FlagExact` `DeadlineKept` `AnswerSound` `ResentOnlyOnTimeout` `KeepsPromise` | On every path, with failing event handling, USB faults, cancels racing with timers, and a drain that may miss reports, the kernel is done with transfer and buffer before they are released or read; the flag is exact in every wait; no resubmission outlasts the deadline. A success leaves the accepted reply in the buffer, and it is fresh unless a look-alike was queued after the last drain or the mouse kept one back from it; only reads are sent again, only after a timeout; and the exchange implements `ExchangePromise`, which includes that it ends, although the mouse may chatter for ever. |
| `driver` | `SuccessSound` `StableBeforeWrite` `ChecksFresh` `LateRunsEnd` | Exit status 0 means the word is stored where it was reported, although stage and profile may change at any moment, replies are lost or late, echoes lie, and the run before was killed anywhere; no write goes out after a change the check before it could see; leftovers of an earlier run can be taken for answers to the online query and, through it, the first configuration read, and for nothing later. Every run ends. |
| `program` | `TypesOK` | The type invariants of Session, Reports, Presets and Toml. |
| | `WorksAlone` `NothingKept` `OrphanExcused` | Two processes, two mice, old and new kernels, kills, cables and failing calls: one run at a time works with a mouse, unless on an old kernel another one had already asked for the driver when it claimed; a finished run keeps nothing, and a connected mouse is without a driver only for four listed reasons. |
| | `RoundTrip` `Canonical` `TargetUsable` | All 520 levels with illegal neighbours, and words and configurations of bytes at the edges of their fields: writing and reading out are inverse to each other, every resolved target is an aligned address of a configured stage. |
| | `SavedComesBack` `LoadsSound` `OrderFree` | Three saves under names that collide, nest or cannot be read, up to two of them cut short: what was reported saved loads with the value saved last, or the file as a whole is unreadable; a load yields only a legal level that was saved under that path, or the first digits of one when the save failed. |
| | `SaidIsFound` `ValidAccepted` `PlainKeysExact` | Every document of up to three statements with keys of up to three parts: what it says is found where it says, and the parser accepts what is valid. |
| | `CallMeant` | Every command line of up to four words, with presets saved and loaded: the driver is called for exactly what was said, or not at all. |
| `usb_transfer` | `UrbsOwned` `CalledAlone` `DataInOrder` `StatusTrue` `Settles` | Every type of transfer, whole or split into two URBs, with short, failing and overflowing URBs, a submission that stops half-way, cancellation racing with the timeout and the completion, and the cable pulled. |
| `usb_events` | `PolledOpen` `NobodyDeaf` `AllReturn` | Three threads over one context: one polls at a time, never a closed descriptor and never deaf to a new one, and everybody returns without a timeout. |
| | `TimerCovers` `TimeoutsCome` | Three transfers, with and without timeouts, with and without a timer descriptor: the timer covers the earliest deadline, and every deadline that passes is handled. |
| `usb_devices` | `ListedOnce` `RefsExact` `NamedAlive` `ExitFrees` `NoGhosts` `CatchesUp` | A mouse behind a hub, both coming and going: no device is listed twice, every reference is counted, nothing freed is named, callbacks hear of no device after it left, an exit frees what nobody holds, and the list catches up with the bus. |

The type invariants of Driver, UsbTransfer, UsbEvents, UsbTimers and UsbDevices
are conjuncts of `ChecksFresh`, `UrbsOwned`, `PolledOpen`, `TimerCovers` and `ListedOnce`; that of
Exchange is proved. The run `driver` keeps to two runs; that nothing late is taken once the first
question was answered afresh is stated, and proved, for any number of them.

Runs that end in a violation, each of one statement of the documentation, are
described [below](#where-code-and-documentation-disagree): `exchange_events`,
`driver_echo`, `session_reattach`, `presets_saved`, `toml_inline`, `usb_polled`.

Two properties are worth a word. `ChecksFresh` is the reason
the protocol works without transaction numbers: on a link that keeps the order, a
late reply can be mistaken for a fresh one only if the first question of the
script was already answered by a late reply. `SuccessSound` has the
precondition `changes < 2`: with two changes of stage or profile in one run, one
away just before the write and one back just after it, both checks pass
and the write has gone to the other profile. The code cannot detect this with
what the mouse tells it, and no document claims that it does. Its other precondition,
`stale \subseteq {1, 2}`, is what `ChecksFresh` says of one earlier run; with several of
them their leftovers can answer more questions of the script than the first two.

### Bounds

Every bound is a constant, guards an action, and is named.

- `exchange`: two attempts, a drain of two reports (64 in the code), one queued
  report. Where the drain may miss a report (`PollMisses`), a timeout of two ticks,
  which tells a fresh timeout from a remaining one; where it does not, one tick and
  one failure of event handling. Two attempts and two drained reports reach
  every branch of the loops.
- `driver`: two profiles with two and one stages, so that a change can put the
  target out of range; two words and a corrupt one; two changes in one run, so that the
  precondition of `SuccessSound` is not vacuous; two messages under way in each
  direction. With two runs, of which the first may be killed: one change and a single
  attempt for each read. For late replies: two runs, the link three deep so that leftovers of
  several steps coexist, one word, since which answer is taken does not depend on it.
- `program`. Session: two processes, which are interchangeable (symmetry), two runs,
  two mice, one plugged in again. Reports: levels are complete, bytes are those at
  which a field carries or a mask bit appears; the proofs cover all bytes. Presets: five names,
  one per class, levels of which one has valid prefixes (16000, 1600), three
  entries: a conflict involves two, and a third is enough to follow one
  that is cut. Toml: two keys, three parts and three statements; a conflict is between two
  statements, and the third may close a table or make one on the way. Cli: up to four
  arguments, as the longest call has, and at most one entry, of the preset "game" with a level of 450 or less.
- `usb_transfer`: nothing or three cells with two in a URB, hence two URBs, one
  full and one not; one submission, since everything is set anew by the next. The
  invariants were also checked for bulk transfers of three URBs (length 5, 2.2 million states).
- `usb_events`: three threads, of which one polls, one sleeps and one closes; two of them where
  two interrupts or wakeups without reason are added. Three transfers, timeouts of one and two ticks.
- `usb_devices`: a hub and a mouse, one callback, two users, two changes of the bus, memory for
  four devices. `usb_polled` needs three changes of one device.

`CHECK_DEADLOCK FALSE` is set where the system may stop: all permitted runs of
the program are over (Driver, Session, Cli), the file has its bound of entries or statements
(Presets, Toml), the word was written and nothing else is left to ask (Reports), every thread has
returned (UsbEvents), the transfer has been called back (UsbTransfer), the bus is quiet and the
application idle (UsbDevices). Exchange never stops and is checked for deadlock.

### Fairness

`Exchange` assumes weak fairness of

- the driver's thread: the program is scheduled;
- the end of a control transfer: libusb gives it a timeout of its own;
- the transfer's timer, event handling and the clock: a call that handles
  events runs expired timers and reaps or fails, and does so again as long as
  the loop calls it.

Nothing is assumed of the mouse, of replies or of the absence of chatter.
`MaxEventErrors` with `PersistentErrors = FALSE` says that event handling does not
fail without end; `exchange_events` shows what happens otherwise.

`Driver` assumes weak fairness of `Run`, the thread's own steps, one of which
(a timeout, that Exchange shows to come) is always possible inside an exchange. It assumes
nothing of the mouse or the link.

`UsbTransfer` assumes that a thread inside a call of libusb goes on, that the
event thread handles what is ready, that a timer that was set fires, and that the
kernel ends the URBs of a device that is gone or that were discarded. It does not assume
that a URB completes otherwise. `UsbTimers` assumes that someone handles events, that
time passes, and that a transfer whose timeout was handled comes back, which is `Settles` of
UsbTransfer. `UsbEvents` assumes that threads are scheduled and transfers complete; that nobody
is interrupted or wakes for no reason is *not* excluded, only not relied on. `UsbDevices`
assumes that the monitor thread and a call that has begun go on; the application may stop
between calls.

Session, Reports, Presets, Toml and Cli make no liveness claims.

## What is proved

TLAPS checks these for all values of the constants that satisfy the named
assumptions (`ConstantsAssumption`, `SessionAssumption`, `ReportsAssumption`, `DriverAssumption`,
`UsbEventsAssumption`, `UsbTransferAssumption`, `DeadlinesAssumption`, `UsbDevicesAssumption`,
`PresetsAssumption`, `CliAssumption`, `TomlAssumption`),
which only type them and keep them from being empty; that of Toml also says that the names of an array's
elements are distinct, are no keys, and are at least as many as the statements of a document; that of UsbDevices also says that the hubs form
a tree of at most seven tiers, as USB has it.

| Module | Theorems | of |
|---|---|---|
| `ExchangeProofs` | `TypeCorrect`, `BufferSafety`, `NoLostWakeup`, `DeadlineSafety`, `ResendSafety`, `AnswersSound`, `ImplementsPromise` | `TypeOK`, `BufferOwned`, `FlagExact`, `DeadlineKept`, `ResentOnlyOnTimeout`, `AnswerSound`, and the safety part of `KeepsPromise` |
| `DriverProofs` | `TypeCorrect`, `AnswersFresh`, `WritesStable`, `SuccessMeansStored`, `SuccessAfterOneRun` | `TypeOK`, `ChecksFresh`, `StableBeforeWrite`, `SuccessSound`, and the first and the last of these together |
| `ProgramProofs`, of Session | `TypeCorrect`, `Exclusion`, `NoLeak`, `OrphansExcused` | `TypeOK`, `WorksAlone`, `NothingKept`, `OrphanExcused` |
| `ProgramProofs`, of Reports | `CodecTypeCorrect`, `EncodeDecode`, `DecodeEncode`, `ShownLevels`, `EchoAccepted`, `TargetSound` | `CodecTypeOK`, `RoundTrip`, `Canonical`, `ShownIsWritable`, `EchoAnswers`, `TargetUsable` |
| `ProgramProofs`, of Presets and Cli | `PresetsTypeCorrect`, `PresetsComeBack`, `PresetsSound`, `PresetsOrderFree`, `PresetsOfRuns`, `CallsMeant` | `PresetsTypeOK`, `SavedComesBack`, `LoadsSound`, `OrderFree`, the first two in any sequence of runs, `CallMeant` |
| `TomlProofs` | `TomlTypeCorrect`, `TomlFound`, `TomlAccepts`, `TomlExact` | `TomlTypeOK`, `SaidIsFound`, `ValidAccepted`, `PlainKeysExact` |
| `UsbTransferProofs` | `TypeCorrect`, `UrbsKept`, `CallsAlone`, `OrderHolds`, `StatusHolds` | `TypeOK`, `UrbsOwned`, `CalledAlone`, `DataInOrder`, `StatusTrue` |
| `UsbTimersProofs` | `TimerInTime`, `NeverEarly` | `TimerCovers`, and that the list is sorted and no timeout is handled early |
| `UsbDevicesProofs` | `RefsExactHolds`, `ListedOnceHolds`, `NamedAliveHolds`, `NoGhostsHolds`, `ExitFreesHolds` | `RefsExact`, `ListedOnce` with `TypeOK`, `NamedAlive`, `NoGhosts`, `ExitFrees` |
| `UsbEventsProofs` | `TypeCorrect`, `PollsOpen`, `HearsAll`, `SleepersWoken`, `NothingLost` | `TypeOK`, `PolledOpen`, `NobodyDeaf`, and the safety that `AllReturn` rests on |

**Exchange.** The inductive invariant is `TypeOK /\ TransferInv /\ CountInv`.
`BufferOwned` and `FlagExact` are not inductive: neither says anything of *clear*,
the one place where the flag is set and the transfer is flying. `TransferInv`
says what the transfer is at every place: none before it is
posted, idle when it is inspected or freed, in the kernel at *clear*, and
elsewhere idle exactly if the flag is set; with the bound of its timer by the
budget at *await* and *clear*. `CountInv` ties the number of sends to the attempt
and the outcome; the resend property and the refinement rest on it. `FreshInv` follows a
reply from the queue through the buffer, which a cancelled or a resubmitted receive may overwrite, to
the end of the exchange. The proof of
`StepInv` has a case per action. Any number of attempts, any drain limit, timeout and
queue are covered, and event handling that fails without end.

**Session.** The invariant adds `HandleInv` (a handle exists at exactly the places
between open and close, a live handle is for a connected mouse, an unplugged
mouse is driven by nobody) and `ClaimInv` (libusb's record of the claim against
the kernel's: who the kernel says drives a mouse has it open, alive and
claimed), and `ContestInv` (whoever drives a mouse that another run is about to
disconnect was contested when it claimed, which happens on old kernels only).
`WorksAlone` needs `ClaimInv` to survive another run's claim, release, and close, and
`ContestInv` to survive its disconnection; `OrphanExcused` needs
`HandleInv` and `ClaimInv` to attribute an orphan to the step that made
it. The set of processes is arbitrary, not even finite.

**Reports.** Types, `RoundTrip` and the framing of the last report are
inductive, and `Canonical`, `ShownIsWritable` and `TargetUsable` follow from the
types alone. The content is in the lemmas about the arithmetic: `Encode`,
`Decode`, `Closes`, `FinishSum`, `ResolvedTarget`. Quotients and products by 256, 68 and 50
together defeat the solver, so each field is given a name, its range is
established, its definition is hidden, and the next step is linear.

**Presets.** The parser is a recursive function of the number of entries read. The prover has no
induction rule it could apply to it, but sets of numbers have least elements (`Least`, from the
library's theorem on well-founded relations): if the parser knew something other than
`Known` says after some number of entries, it would after a least number, and `KnownStep` excludes that.
`Known` is the closed form: which tables are defined and on the way to one, which hold a number and
which, and that all went well exactly if each entry was `Accepted`, a condition on it and
the entries before it. That condition is symmetric but for entries that were cut, whence `OrderFree`; it keeps paths
apart, so that the value under a path is that of its one entry (`OnePath`). The invariant of the file, `ToldInv`, says that
what the user was told is in some whole entry of that name, and that each whole entry is a level the user was
told of. For any number of entries and cuts, any names, keys and levels.

**Toml.** A tree is known by its paths. The invariant `Tree` says that a node is below a table under a
key, or below an array under the number of one of its first elements, that these are numbered without holes, and
that there are no more of them than statements. Two operations change a tree: grafting another one where it fits (`GraftTree`), and
flags. The ways down, `Descend` and `Dotted`, are recursive functions again, and what a
way does is said in closed form (`Walks`): it keeps what is there, makes tables at prefixes of the
path only, and where there are no arrays it ends at the path's end, or tells what stood in its way.
Each kind of statement follows from its way down (`StdTableIs`, `ArrayTableIs`, `KeyValueIs`), values
with all that is in their braces included (`ValuesAre`). `TomlInv` adds that every number
that was said without an error is a node at its path (`NumbersThere`), which no later statement changes; since all that is above
a node is there too (`AboveAll`), `toml_seek` finds it.
For documents without arrays and inline tables `PlainTree` reads the statements off the tree: every
node is on the path of a statement, a number is one that was said, a table is explicit exactly if it
has a header, and lacks the flag "std" only if a dotted key defined it. So whatever refuses a statement
is an earlier one that makes the document invalid (`HeaderAccepted`, `NumberAccepted`), which is `ValidAccepted`;
and a number holds nothing, and its node tells which statement it is of, so that what is accepted under keys of one
part is valid (`ReadIsValid`). With dotted keys the code accepts more, as
[below](#where-code-and-documentation-disagree). TLC checked both invariants, on three statements
with inline tables and on four without, before they were proved.

**Cli.** `CallMeant` is preserved because a run that calls the driver (`SetsMeant`) has been through the tests on
its words, and neither words nor presets change before the run is over. The rest of Cli is a
refinement: each step of a run is a step of Presets or leaves the file alone (`RunsKeepPresets`), which carries
the theorems about files over to runs.

**Driver.** Late answers are the difficulty: a reply is told from another by its
command byte and address only. `MineInv` says that what the running exchange sent is behind
everything older, in the requests under way and in the replies; `FlushInv`, that once an
exchange was answered by its own reply, all that is left is of that exchange, because a link
that keeps the order has brought everything older before it. The next exchange asks
something else, so nothing that is left answers it; where two steps ask the same, others lie
between them. That the write is sent only once
(`OnceInv`) makes the readback after it fresh too. `LeftInv` says what *one* earlier run can leave behind an
online query: only its next request, which is why step two can still be answered late and step three
cannot. `FreshInv` is what results. For the places, `PlaceInv` says that at most one change of stage or profile
divides the readings of a run into those before it and those after it, in this
order; so two equal readings enclose a time without a change, and the
write lies in it. `StoredInv` carries this to the stored word. A write that an earlier run left under
way would spoil it, and `FlushInv` excludes it. `AddressInv` separates reads of the configuration from reads of a
word. Any number of profiles, stages, words, attempts, runs and kills, and any capacity
of the link, are covered.

**UsbEvents.** `LockInv` says for each lock at which places its owner is. `FlagInv`: the
counter of closers is the number of threads at three places, its flag says whether it is zero, and the
descriptor is signalled exactly if a flag is set. `PollInv`: the polled array is that of the
sources unless the flag says otherwise, and sources are taken away only while nobody polls.
`PolledOpen` and `NobodyDeaf` follow. `SleepersWatched` says that while anybody sleeps, a
thread is at a place from which it will still broadcast, which `AllReturn` rests on; `TransferKept`, that a transfer is
with the kernel, reported or called back, and its handle is closed only after that.

**UsbTransfer.** `UrbsOwned` says of the end of a transfer that the kernel has none of its URBs.
The code knows this by counting: it finishes when as many URBs are retired as there are. The invariant must
therefore say that `retired` is the number of URBs that were handled or never submitted
(`CountInv`), that those completed and not handed back are in `done`, once each (`DoneInv`), and why a walk that
discards from the last URB to the first may stop at the first that is not found: the URBs the
kernel has are next to each other, up to the place of the walk (`OrderInv`). The places and locks are in `PlacesInv`, `LockInv` and
`PhaseInv`, which lead from the last URB to the callback: who finds what cleared,
and who holds which lock. `CalledAlone` follows. The types need arithmetic: what is counted as
transferred and what the URBs still carry add up to what was sent, which fits into the
transfer because a URB begins where the one before it ends (`SizeInv`, `SentInv`,
`ChainInv`, lemma `Cut`); slots of isochronous transfers are filled by whole URBs (`SlotInv`); and an overflow
is the last thing a transfer reports (`OverflowInv`). TLC checked the invariant on this run's
instance, on three URBs, and with two submissions before it was proved for
transfers of any length, any size of a URB and any number of submissions.

`DataInOrder` and `StatusTrue` need a second invariant, `TrueInv`, which adds to the first what became
of the URBs, of the data and of the transfer.
*The URBs* (`UrbFateInv`): a URB whose status is good is full, one with data comes after URBs that have
all come back and stopped nothing, and while all URBs before it are full its data goes where it stays.
*The data* (`FlowInv`): what was counted is in its place, and the cells of the URB in hand come next,
in what they say and in where they were put, so that moving surplus data to the end of what was counted
(`HandleAbnormal`) never moves it over data that is still to be handled; and a transfer that is over has counted all
that was sent.
*The order* (`TurnInv`): as long as nothing has gone wrong and nobody has begun to discard, URBs come
back, and are handled, first to last. `ServedAlone` shows why the handler may rely on it: it runs under
the transfer's lock, and so does every discard. Packet results fill their own slots for this reason, and the URB
that ends a transfer is its last or a short one (`EarlyInv`, `CompleteInv`).
*Who ended it* (`ModeInv`, `CancelInv`): `action` and `reapStatus` say what a walk in progress is for; of a cancellation
and a timeout only the first to take the lock counts; and the kernel's status for the
single URB of a control transfer is "cancelled" only after one of them, or under a walk of one of them that
holds the lock. `EndedInv` carries the answer to the callback.
TLC checked each of these parts before its proof, and the proof found one slip in the model: two guards of a CASE
in `HandleIso` overlapped, which TLA+ leaves open and TLC decides by order. It is now an IF, in the order
of the code.

**UsbTimers.** `TimerCovers` rests on the list: it stays sorted by deadline, with transfers
without one at its end (`Sorted`), so that its first element that is to be handled is due before all
others. Two more facts carry it through a step: only deadlines that have passed
have been handled, and nobody waits where there is a timer. The lemmas `MinIs`,
`Inserted` and `Removed` say what a walk, an insertion and a removal compute.

**UsbDevices.** The difficulty is `libusb_unref_device`, which drops a device's parent when it frees the
device, and so on upwards. Induction over the parents is beyond the installed backends, so `Drop` is written with
the least set that holds the device and is closed upwards (`Reach`), and the lemmas speak of it: it
has one device on each tier (`Lineage`), what is beside the first is the parent of something in it
(`ReachFrom`), and so every device in it loses exactly one reference: the one that is dropped, or
that of the child freed below it (`UnrefStep`). `RefsExact` is then an account: each action is shown to change a device's count by
what it adds to or takes from the messages, the calls in progress, the lists, the handle and
the children (`Rebalance`). `NamedAlive` does not follow from the count, because an arrival holds no reference. `MsgInv` says
why it is safe: the device of a waiting arrival is still listed, or about to have its departure announced,
or has it behind in the queue; with what a callback was told it gives `NoGhosts`.
`ListedOnce` needs the calls of `linux_enumerate_device` in order (`JobInv`): each waits for a parent on a lower
tier, so that no two are about one session, and what is being enumerated is not yet listed, while the lock keeps
others out. `PlaceInv` says what holds at which place of the application, and that `libusb_exit` works on what nobody else
sees. `ExitFrees` follows from the count: a device that is left and that nobody outside refers to
must have a child, and tiers end. TLC checked the invariant on this run's instance before it was proved. Any tree of hubs,
any memory, any number of callbacks, users and changes are covered.

**Only model-checked.** Liveness (`LateRunsEnd`, `Settles`, `AllReturn`, `TimeoutsCome`,
`CatchesUp`, the fairness part of `KeepsPromise`), which is beyond the prover; and what
instances share in one run: that `TypesOK` holds of the parts of `MCProgram` together.

## Where code and documentation disagree

- `exchange_events`. `docs/dpi-target-resolver.md:94` says that response waits are
  bounded. `complete_interrupt` (`driver.c:35`) loops until the transfer is reaped
  and has no bound of its own: when event handling keeps failing it cancels once
  and loops for ever. The loop is what makes `BufferOwned` true, so a bound
  would need a transfer that may outlive the call.
- `driver_echo`. `docs/dpi-target-resolver.md:17` says that correctness is never
  inferred from an acknowledgement. `wait_for_reply` (`driver.c:82`) accepts a
  reply with the write's command byte for a register read, so a second copy of the
  write's echo, late enough to pass the drain, serves as the readback.
- `session_reattach`. A comment in libusb's `core.c:1861` says that the kernel
  driver is attached again after a release. `op_release_interface`
  (`linux_usbfs.c:1904`) drops the result of the attempt, so a run exits with
  status 0 although the mouse has no driver.
- `presets_saved`. The help text (`help.c:15`) offers to load a saved preset.
  `config_save_preset` (`config.c:7`) does not look at the name or the file: a name
  with a space, or one saved before, is reported as saved, and then no preset
  of the file loads.
- `toml_inline`. tomlc17's README.md:3 calls the parser strictly compliant, and
  `parse_std_table_expr` refuses to extend an inline table. `descend_keypart`
  (`tomlc17.c:1234`) does not look: after `a = {x = 1}`, the header `[a.b.c]` adds to it. Related
  documents that are accepted and should not be: `[a.a.a]`, `[a]`, `a.b = 1`, `[a.a]`, where
  the last header defines a table that a dotted key has added to.
- `usb_polled`. libusbi.h:1066 wants a back end to process all pending hotplug
  events before a device list is taken. `linux_netlink_hotplug_poll`
  (`linux_netlink.c:399`) stops at the first message that is about no USB device, of which
  the kernel sends one with every device. The monitor thread reads the rest later: `CatchesUp`.

## Assumptions about the environment

- The link keeps the order of requests and of replies. `ChecksFresh` rests
  on it; Exchange does not assume it (`air` is a set).
- A drain empties the queue, in Driver and, unless `PollMisses`, in Exchange.
- The data of a receive that completes while it is cancelled is lost, as usbfs
  and libusb treat it.
- The mouse reports the stage and profile it is in when it serves the query, and
  applies a write to the profile that is active when it serves the write, or
  only echoes it.
- The kernel binds its driver to a mouse that is plugged in and to an
  interface that is given back and free, or refuses.
- UsbTransfer: usbfs keeps the order of the URBs of an endpoint, cancels the URBs that continue
  a transfer after one that ended short or failed, delivers no data after a stall or a disconnect, and an
  overflow happens in the last URB only. Kernels without `USBFS_CAP_REAP_AFTER_DISCONNECT` hand nothing
  back after a disconnect.
- UsbDevices: no uevent is lost; one application thread, which closes its handles before
  `libusb_exit`, keeps no device for the next context and registers callbacks that enumerate
  outside of callbacks; initialising a device fails only if it is gone. The driver registers no callbacks.
  Distributions build libusb with udev instead of netlink; its thread takes the same lock in the same way.
- `fclose` writes an entry by appending, whole unless the disk is full.

## What is not modelled

- **libusb's descriptors, strings and options.** `descriptor.c`, `strerror.c` and half of `core.c`
  parse what the driver never asks for.
- **libusb on other systems.** `windows_*.c`, `darwin_usb.c` and the others are vendored and
  never built: the Makefile, shell.nix and the release workflow know Linux only. They are
  most of the lines of the repository, which is why the modules stand for a small share of it.
- **libusb's waits with a timeout** in UsbEvents, streams, zero-copy memory, and allocation failures
  other than those the driver checks.
- **Text of TOML.** Tokens, numbers, dates, strings, the limits on nesting; and `toml_merge`, which
  the driver does not call.
- **decode_battery_report.** One conjunction of checks; its refusal is one of the
  failures of `ExchangeFails` in Driver.
- **Help text, diagnostics, captures, tests, build scripts.** No state at run time.

## Plan

Done, in this order: Exchange with its abstract specification and proofs;
Driver; Session and its proofs; Reports and its proofs; Presets; Toml; Cli; UsbTransfer;
UsbEvents; UsbTimers; UsbDevices; the proofs of Driver, UsbEvents,
UsbTransfer, UsbTimers, UsbDevices, Presets, Cli and Toml.

Left. These are theorems, of specifications that are in place:

- Driver: that the runs implement a setting which a change either reaches or leaves alone.
