# Verification of device_generic_common

This directory holds TLA+ models of the parts of `device_generic_common` that
have a protocol, a lock, a retry or a crash to get right, the TLC
configurations that check them and the TLAPS proofs about them.  File names
below are relative to `src/`.

## The system

The repository is the device tree of Android-x86: build files, policies,
overlays and audio state, which are data, and a few programs and drivers of its
own.

| part | state it keeps | operations | what is hard |
|---|---|---|---|
| `tp_smapi/thinkpad_ec.c` | semaphore, record of one prefetched row; the EC's mailbox | lock, try_lock, unlock, read_row, try_read_row, prefetch_row, invalidate | the EC moves by itself; answers to abandoned requests; busy and silent EC; SMBIOS on the same mailbox |
| `tp_smapi/hdaps.c` | timer, users, last readout and rest position, sampling configuration | poll (softirq), open, close, sysfs, suspend, resume, load, unload | softirq against processes, a timer that re-arms itself, prefetched rows that expire, racing attributes |
| `tp_smapi/tp_smapi.c` | thresholds in the hardware, saved thresholds, `smapi_mutex` | show and store of the attributes, suspend, resume, load, unload | pairs of thresholds that must fit, errors in the middle of six calls, hibernation |
| `bootctrl/` | active slot in the misc partition and in `/grub/android.cfg` | setActiveBootSlot, markBootSuccessful, setSlotAsUnbootable, queries | two records of one fact, power cuts, failed writes |
| `wacom/wacserial.c` | bit error counter, packet buffer, the tablet's mode, protocol and parser, the last state of the pen | read, parse, reset, identify, initialise | lost bytes, pieces of any size, resets that fail half-way, parsers that keep state |
| `wacom/wacom-input.c` | a copy of that state, what uinput was told | the loop over packets, the signal handler | lost pen-up packets |
| `wacom/wactablet.c`, `wacusb.c` | tables | dispatch, USB tablets | little: the USB driver is not compiled |
| `tablet-mode/tablet-mode.c` | what the lid was told | forward one switch | events queued before the state was asked for, read errors |
| `io_switch`, `usb_switch`, `init.sh`, `*.rc` | none | set-up | none that a model reaches |

`hdaps.c` and `tp_smapi.c` are clients of `thinkpad_ec.c`: both use the EC under
`thinkpad_ec_mutex`, and `smapi_request` triggers SMBIOS calls under it.
`wacom-input.c` calls `wacserial.c` through the tables of `wactablet.c`.
`init.sh` starts the boot HAL when `ro.boot.slot_suffix` is set.  Otherwise the
parts are independent.

What makes each part correct:

* rows go to the caller that asked for them, and an unlocked EC has begun its reply;
* the sensor is polled when and only when someone uses it in an awake system,
  and polls bring data;
* thresholds keep their distance, come back after hibernation, and no store
  blocks the next one;
* a reported slot switch is what boots next, and a failed one changes nothing
  that boots;
* the EC samples with the product of the driver's variables, an attribute reads back
  what was stored, and an unloaded driver leaves nothing behind;
* a battery attribute shows one battery at one instant, and a store in a charging
  control leaves the firmware's own bits alone;
* no glued packet reaches the parser, and the reader gets back into step;
* touch, tool and lid agree with the pen and the switch once everything sent was read.

`PROJECT.json` lists the hazards at their lines, with the property that
covers each or the reason why none does.

## The modules

### ThinkpadEC, EcRowServer

`ThinkpadEC` models the row functions port access by port access.  Each client
has a location (`pc`) inside the C functions: `request`, `drain`, `arg0`, `ack`,
`send` and `wait` are the stretches of `thinkpad_ec_request_row`; `poll`, `get`
and `end` those of `thinkpad_ec_read_data`; `op` says which of the three calls
it serves, and `RequestFails`, `RequestSucceeds` and `ReadFails` are what that
caller does with the result.  `prefetch_jiffies` is NONE, JUNK or a time; the
time is kept as an `age`.  The EC is three actions of its own between any two
port accesses, with the STR3 values that the code's comments list; its state
`proc` shows 0x00, "indistinguishable from idle EC!".  A row is a model value,
and `Key` gives its first and last argument byte, by which
`thinkpad_ec_is_row_fetched` compares.  `RowsAssumption` is the comment "this
suffices for all known cases" made precise: no row shares the key of one that is
prefetched.  `SMICall` is the part of `smapi_request` that runs under the lock.
`silent` is a history variable: some caller gave up on a silent EC.

The retry loops are budgets of time.  `stalls` says whether the EC may outlast them in
a behaviour, and never changes: when it is TRUE any loop may end at any iteration, when
it is FALSE none does, unless the EC hangs (`MayGiveUp`).  So one run checks safety with
an EC of any speed and progress with one that keeps to the budgets.  `Unlocked` is the set of clients that call in without the lock.

`EcRowServer` is the interface: under the lock one request is answered, with its
row or a failure, in one step.  `ThinkpadEC!ServesRows` is the refinement:
`holder` is the semaphore, `asked` the row of a read in progress, `reply` the
data or the failure of the last one.  A prefetch shows nothing.

### HdapsPoll

The timer of `hdaps.c` with its handler split where other processors may come in
between (`PollFires`: trylock; `PollUpdates`: `__hdaps_update(1)`;
`PollUnlocks`; `PollKeepsActive`: `mod_timer`), the users that open and close
the input devices, sysfs readers (`hdaps_update` with its retries), the
sampling rate, other clients of the EC, suspend and resume.  It uses the row
functions as `EcRowServer` describes them, atomic under the semaphore, and keeps
of the mailbox what a poll depends on: whether an unread answer is in it and
how old the prefetch is.  `HZ` is scaled to 20, so that the prefetch timeout of
`HZ/10` is 2 jiffies.  `disabled` is a history variable: the code has given up
polling, after "poll failed, disabling updates" or a resume that failed.
A failing resume is either one that could not take the lock or one that got to
the mailbox; which of the configuration requests failed is left out.
`sampling_rate_store` is one step although it takes no lock; what its races do to
the mailbox is `ThinkpadEC` with `Unlocked`.

### HdapsReadout

What `hdaps.c` keeps of a readout.  `__hdaps_update` is split at each access to a
global that a process may write without the semaphore: `ReadX` and `StoreY`
store the position, `Swap`, `InvertXY` and `InvertX` are `transform_axes`, which
works on the globals themselves and looks at `hdaps_invert` before each of its
three parts, and `Finish` is the calibration and the unlock.  The stores of
`invert` and `calibrate`, and everything that shows a readout, come in from
processes; `Fire` is the timer, `Start` and `Stop` the first open and the last
close, and a poll that fails for good stops too.  A coordinate is the readout and
axis it comes from and whether it was negated, so `Turned`, which says what the
comments on the `HDAPS_ORIENT` bits promise, can be compared with what the steps
compute.  `used`, `turned` and `mixed` are history variables: the orientation an
update began with, and whether one was stored in its middle.  `stale_readout` is
reset together with the last turn, before which it is not looked at under the
semaphore; the temperature and the activity times are left out.

### HdapsDevice

The sampling attributes of `hdaps.c` and the driver's life.  `Store` is a store up to its
request, with the value it wants and the other two variables as they are; `Configure` is
the EC taking it; `StoreEnds` records the variable and `StoreFails` returns an error, also
when only the answer was lost.  The EC keeps the rate modulo `EcWord` and the order modulo
`OrderWord`, the code's `u16` and `u8`.  `ShowRatio` and `Shown` are the two halves of
the `oversampling_ratio` attribute: the EC's rate is read first, `sampling_rate` later.
`DeviceInit` and `DeviceShutdown` may stop after any of their requests.  `Steps` is what
`hdaps_init` acquires, `Label` where each failure jumps to, `Unwinding` the code from the
first label on and `Exit` that of `hdaps_exit`; `Release`, `PowerOff` and `StopSampling` run
what is left of either, with the attributes in use until the group is removed.
A failing `hdaps_probe` leaves the device without a driver and the loading going on.
`doubt`, `shut`, `twice` and the calls' `alone` are history variables.  The timer and the
mailbox are in the modules above.

### SmapiThresh

The two thresholds of one battery.  A process's `pc` names the `smapi_request`
call it is about to make; `SMI` is the call under the EC semaphore, `Wake` the end
of `msleep(50)`, the look-up in `smapi_retcode` and the retry or return, and
`Returns` leads to what the caller does next: `StoreContinues`, `ShowReturns`,
`Saves` (tp_suspend) or `Restores` (tp_resume).  `smapi_retcode` is the table
as it stands in the source, `Shown` and `Real` the conversions between what the user
sees and what the hardware holds.  A machine may lack one threshold; calls on it then end
with the codes for that.  In a store, a value read and not used is kept as 0.
A battery that is taken out may answer 0xa2 to any call.  `Unplug` is the comment above `tp_suspend`: a hibernated system that loses power
loses its thresholds.

### TpSmapi, BatteryRow

The rest of `tp_smapi.c`.  `BatteryRow` has the attributes computed from the EC's battery
rows: which row and bytes each numeric one shows, the conversions to signed, scaled and power
values, presence and state; strings, dates and the dump are left out.  `TpSmapi` lets processes use them in two transactions
(`CheckStatus`, `ReadRow`) while batteries are changed, store in a charging control
with its get and its set (`GetControl`, `SetControl`), and make raw calls.
`inhibit_charge_minutes` and `force_discharge` have the same shape, and `which` picks one
of them; a control is its value, whether it is to be had, and `bits`, which stands for the
bits of the word that the masks `0xFE` and `0xFA` keep.  Around it is the life of the
driver, as in `HdapsDevice`: `Undo` is where each failure in `tp_init` leads.
`wanted` and `seen` are history.  The calls' retries and errors are in `SmapiThresh`.

### BootControl

`setActiveBootSlot` as it reaches the disk: misc, read of `android.cfg`,
truncation by opening, write.  The write may find no room, which `SetGrubBootSlot` does not
look at, and is not synced: `cfg` is the file as Android sees it, `onDisk` the contents since the
last `WriteBack`, any of which a loss of power may leave (`LosePower`).  `Reboot` syncs; both, and
the death of the HAL (`HalDies`), may come between any two steps.  `Boot` starts what
`android.cfg` names.  A text shorter than a block is written as a whole or not at all.  misc is
taken to be written in sync, as `libboot_control`, GRUB and the kernel are external.
`FindAndReplace` edits one occurrence, as the three texts of the file are always
edited together.  `emptied` and `switched` are history variables.

### WacomSerial

Bytes carry the packet they belong to and their place in it; the high bit is the
first place.  `Read` is one turn of the loop in `SerialReadRaw`, with the search
for the high bit from the start of the buffer over as many bytes as were read;
`Parse` is the synchronisation check of `SerialParseData`, without the decoding; a
reset is `SerialConfigTTY` (reset, stop, flush), `Ident` and `InitAndStart`, each of
which may fail, after which the caller goes on regardless.  `select` is given its half
second once for all of a call, and Linux counts it down over the turns of the loop; so
`Timeout` may come while a packet is under way, whose beginning the next call then throws
away (`cut`, at most `MaxCut` times).  Responses to requests and the baud rates are left
out.  `last` and `flushed` are history variables.

### WacomTablet

From the pen to the event.  Packets are whole here and the line is a queue of them; a
packet that `WacomSerial` would find broken is `ReceiveGarbled`, one whose bytes are gone is
`PacketIsLost`.  The reset has a step for each part that changes the tablet or `*pSerial`
(`SetDevice`, `ConfigTTY`, `IdentTabletPC` or `IdentWacom`, `InitTablet`, `Start`), each may
fail, and `ResetFails` is what the two callers do then: `WacomOpenTablet` gives up,
`SerialReadRaw` goes on.  `ParserFor` is the choice of the parser from protocol and
version.  `ParseV`, `ParseIV_1_2`, `ParseIV_1_3` and `ParseTabletPC` give the new state; 1.4 is
1.3 with two more bytes.  The side of the tablet (`IVPacket`, `TPCPacket`, `VIn`,
`VData`) is what the parsers and their comments say of its packets: the pressure in
pieces with its highest bit inverted, one bit for eraser and second switch.
The pen moves at any time, and unseen while the tablet is stopped; what was sent before is
then read first, which only keeps the line from being confused with what was not sent.
`stale` is history: which values the last packet of their kind, being lost, did not bring
up to date.  Positions, tilt, wheels and the mouse's buttons are left out: each packet
sets them anew.

### TabletMode

`tablet-mode.c` with evdev's buffer.  The switch moves at any time, events that find
no room are dropped as evdev drops them, the device may be removed, after which `read`
fails for ever (`ReadFails`).  `GetState` has both behaviours of evdev: newer kernels
take the events that the state includes out of the buffer, older ones do not.

`MCInput` puts `WacomTablet` and `TabletMode` into one run.  The programs share nothing, so
`program` picks the one that runs and their states are added, not multiplied.

## What is checked

| run | question | size |
|---|---|---|
| `ThinkpadEC` | safety of the protocol, the refinement, do reads succeed | 3 clients, a prefetched row and two that share their key, timeout 2, an EC that may stall and one that may not, weak fairness |
| `ThinkpadEC_unlocked` | does the locking rule matter (violation) | 2 clients, one without the lock, timeout 1 |
| `HdapsPoll` | is the timer where it should be, do polls deliver | 2 tasks, rates with periods of 1, 2 and 4 jiffies |
| `HdapsReadout` | do the position and the rest position fit the orientation, are calibrations served | 2 tasks, 2 readouts, the orientation codes 0 and 7 |
| `HdapsDevice` | does the EC agree with the driver, what is left after unloading | 2 tasks, 2 rates, ratios and orders (one negative), an EC that keeps the product modulo a small word |
| `SmapiThresh` | validity, restoring, progress of the stores | 2 tasks, requests 1, 52, 100, codes OK, hard and transient error, 2 tries |
| `SmapiThresh_busy` | the same with code 0x92 (violation) | code 0x92 added |
| `TpSmapi` | controls, battery attributes, loading | 2 tasks, readings with both signs of the current, minutes below and above the limit |
| `BootControl` | what boots after switches, failures, a full disk, crashes | 2 slots, unbounded number of calls |
| `BootControl_again` | second switch in one boot (violation) | the same |
| `WacomSerial` | framing and resynchronisation | 5-byte packets, 8 packet numbers, tty of 7 bytes, 2 lost bytes, 1 packet cut off by the time limit |
| `Input` | touch, tool and lid | 7 tablets, 4 tools, 2 packets on the line, 4 lost or garbled; 6 events in evdev's buffer |

Why the bounds are enough.  In `ThinkpadEC` three clients give one that holds
the lock and two that left something behind; the proofs cover every number.  Rows
need one that is prefetched and two that collide.  In `HdapsPoll` two tasks give
first, second and last users, and the periods lie below, at and above the
timeout.  In `HdapsReadout` two readouts can be mixed, code 7 takes every branch
of `transform_axes` and code 0 none, and two tasks can store while the timer or the other
updates.  In `SmapiThresh` the requests are clamped at the bottom, in the middle
and clamped at the top or the default, so that the other threshold is
moved in both directions and at both ends; two tries give a retry that works and
one that does not; initial thresholds are the default.  `PM` is a third process.
In `WacomSerial` a tty of 7 bytes holds one packet and part of the next, which is
more than one `read` asks for; 8 packet numbers are more than two losses, a packet cut off
and the tty can span.  In `HdapsDevice` some products wrap around and some do not, and two tasks are
enough for stores that overlap each other, a show and the unloading.  In `TpSmapi` a second
task overlaps the first, and one battery and one control suffice as the others share
nothing with them; one reading has a positive current and one a negative.  In `Input` there is a tablet for every
parser, every way to compute the pressure and for no parser; two packets on the line are
one stay's beginning in protocol V, four faults are what makes the reader reset, and pressures
lie at zero, at the threshold and above the bit that is inverted, where the tablet reaches them; 6 events are three moves
of the switch before the first read, of which the initial state may include any.  `BootControl` is checked with two slots, as GRUB's file has; nothing
else is bounded there.  Deadlock is checked in all runs but those of `BootControl`, where
a machine whose `android.cfg` is empty stays down.

Every property of a passing run has a mutant, an operator of the model changed by a
plausible bug (a dropped lock, a timer deleted without waiting, swapped slots),
which makes TLC find the property violated.

### Fairness

* `ThinkpadEC`: the EC's firmware and kernel code that has been called run
  on (weak fairness).  Nothing forces a client to call, to unlock or to age a prefetch.
  `ReadsSucceed` is about the behaviours in which the EC keeps to the budgets (`stalls` FALSE).
* `HdapsPoll`: time passes, the softirq runs, and a system call that holds the
  semaphore or the mutex ends (weak).  A poll that can read data succeeds now and then if it is
  tried again and again (strong fairness of `PollUpdates` with result ok): the sensor
  produces readouts.  `PollsDeliver` further assumes, in its premise, that in the
  end no other client and no reader takes the EC away and that the rate is stable.
* `HdapsReadout`: an update that was begun ends (weak).  The timer comes again as long as it
  runs and finds the semaphore free now and then (strong fairness of `Fire` with a free
  semaphore), and a sensor that is read again and again has a readout now and then
  (strong fairness of `ReadX`); the first holds as the timer's period and the others' use
  of the EC are independent, the second at rates above 10 Hz only (see `PollsDeliver`).
* `SmapiThresh`: calls go on (weak), and the semaphore is granted in turn
  (strong fairness of `Lock`; the kernel's semaphores queue their waiters).
* `WacomSerial`: the tablet sends while the pen is on it and the process runs (weak).
  `StaysInStep` assumes in its premise that no reset fails.

### What the violations show

* **EC access without the lock.**  `thinkpad_ec.c:298` asks that the caller
  hold the lock; the configuration attributes, suspend and exit of `hdaps.c` do not.
  A client that does hold it can be handed the wrong row.
* **Busy taken for success.**  `smapi_retcode` has the `-EBUSY` of 0x92
  inside its string (`tp_smapi.c:96`), so a store goes on after a call that did nothing.
* **Second slot switch.**  `SetGrubBootSlot` replaces the running slot's suffix,
  which a first switch has already removed; the second one reports success and does nothing.

### What the properties exempt

Where the code does not keep what one would wish, and nothing in the repository promises
it, the property says so, and its comment names the case:

* `PollsDeliver`: at 10 Hz and less, which `sampling_rate` accepts, a poll's prefetch has
  expired when the next poll comes, and polling delivers nothing.
* `RestFitsOrientation`: an orientation stored in the middle of the update that calibrates.
* `ConfigAgrees`: stores that overlap, and answers that were lost, until the next
  configuration that succeeds alone.  `RatioReadsBack`: products above 16 bits.
* `LeavesNothing`: the second release of `hdaps_idev` and of tp_smapi's platform device, and the
  sampling that a store restarts during `hdaps_exit`.
* `FirstSwitchBoots`: a disk without room (`grub_boot_control.cpp:56-57` does not look at the
  result of the write, and success is reported with an empty file), and a loss of power before
  the kernel has written the file back.  `StaysBootable` names all the ways to an empty file.
* `StoreEndsValid`, `StoresKeepValid`: a battery taken out in the middle of a store and put back;
  its 0xa2 is `-ENXIO`, which line 782 takes for a machine without the other threshold.  The
  codes of the run leave it out.
* `UsersArePolled`: after a poll or a resume that failed, until the last user has closed the device.
* `ControlsKept`: a change between the get and the set, which the set undoes.
* `ShowsABattery`: a battery removed between the two transactions, whose zeros are shown.
* `TouchFollows`: the second airbrush packet, which clears the pressure; versions of protocol
  IV other than 1.x, which have no parser.
* `ToolFollows`: pens that come near with the second switch held, and a Tablet PC's second
  switch, which are taken for the eraser.
* `LidFollows`: evdev's buffer overran (the program does not ask again after
  `SYN_DROPPED`), or the device is gone.

Also met, and not about a property: the comment at `tp_smapi.c:209` says that the pause
after an SMI is under `smapi_mutex`, which only the threshold stores hold; the usage text
of `wacom-input` gives 40 as the default of `-p`, which is 20.

## What is proved

`ThinkpadEC_proofs`, for any clients, rows and keys that meet the module's
assumptions:

* `Typing`: type correctness, also with clients that do not lock.
* `RowsAnswerRequests`, `PrefetchesBacked`, `QuietWhenReleased`, `Implements`: the
  safety properties of the run `ThinkpadEC` and the refinement of `EcRowServer`, under
  `Unlocked = {}` and whether the EC stalls or not.  The run `ThinkpadEC_unlocked` shows that the hypothesis is needed.

None of these properties is inductive.  The invariant behind them is `CallTypeInv`
(a client's call and its location fit together, a call in progress has its row) with
`ProtocolInv`: only the holder of the lock is inside; at each of its
locations the mailbox is in the phases, and is about the row, that the code
relies on there (`MailboxInv`: after the request was handed over it is about this
client's row, at `get` and `end` it is full with it); a try read in progress is
backed by its prefetch (`TryInv`); and between calls the record of a prefetch is true
(`PrefetchBacked`).  The last is where the invalidation after an SMI, the drain of an
unread answer and the comparison by two bytes come together.  Each action has its own
step; the EC's three actions keep the row the mailbox is about and move its phase
within what `MailboxInv` allows.  Lemma `Steps` says that a step of `Spec`, which also keeps
`stalls`, is a step of `Next`; the temporal steps use it.

`HdapsPoll_proofs`, for any number of tasks and any rates: `UsersPolled`,
`UnusedNotPolled`, `SuspendedNotPolled` and, for finitely many tasks, `Typing`, in which the
timer is never more than a second ahead.  The invariant adds the count
(`hdaps_users` is the number of tasks that have a device open) and that
`hdaps_users_mtx` is held across steps only by the last close, which waits for the handler
with no user left; so a handler that re-arms the timer does so for a user or
before a `del_timer_sync` that takes it away again.

`HdapsReadout_proofs`, for any tasks and readouts: `Typing`, `Settled`, `RestFits`.
`SettledPosition` speaks of the moments between updates only.  The invariant follows an
update through its steps: `HalfWay` says for each location which globals hold which axis of
which readout, negated or not, as long as no store of `invert` came in between
(`UpdateInv`), and `LockInv` that only one process is at such a location.

`HdapsDevice_proofs`, for any tasks, any values they store and any width of the EC's
registers: `Typing`, `RunsWithVariables`, `RatioComesBack`, `NothingStays`.  For the
configuration, `ConfigInv` says what a store has asked for (the variables as they still are,
if nothing overlapped it) and what the EC runs with when one store, or none, was taken by it.
For the loading, `HeldInv` relates what is held to what is left to undo (a prefix of `Steps`
while loading; while leaving, everything held but `hdaps_idev` is still owed exactly once), and
`ShutInv` says how far `hdaps_device_shutdown` has got and who could restart the sampling.

`SmapiThresh_proofs`, for any tasks, requests, number of tries and codes: `Typing`;
`ValidKept` (the action property `StoresKeepValid`), `StoresEndValid` and `Restored`.  They need the
hypothesis that the BIOS never answers 0x92, the code whose entry of the table is broken; the run
`SmapiThresh_busy` shows that it is needed.  The first two also need that it never answers 0xa2,
the code of a battery taken out.  `CallInv` has who may be where and that what is
written is in range.  `StoreInv` is what a store has learnt at each of its calls (`StoreKnows`):
the threshold it read is still the hardware's, as `smapi_mutex` keeps the other stores out and the
system is not suspended in a call, and the two are apart once the other one was moved.  The lemmas on
`Shown`, `Real` and the clamped distances are the arithmetic of the stores.  `SleepInv` is what the suspended
system remembers of each threshold that no call failed on.

`TpSmapi_proofs`, for any tasks, limits and batteries: `Typing`, `NothingStays`,
`KeepsControls`, `Measured`.  `LoaderInv` counts: while unwinding from step n the list is
the last n things to undo, after a failure (`UnwindsFrom`) and in `tp_exit` (`ExitsFrom`), which
does not put the device.  `CallFits` is what a call in progress knows of the control or the battery:
a set that nothing overlapped carries the word's own bits as they still are, and a
row is read by a call that saw a battery in the slot.
`PowerFits` is about `BatteryRow` alone: the product of current and voltage is an `int` for
whatever row; sizes are written as products there, which the prover can name and hide
(`ProductBounds`), as it writes a literal out one by one.

`BootControl_proofs`, for any slots, with a disk that may be full: `Typing`, `FailedSwitchKeepsCfg`,
`FirstSwitch` and `BootableUnlessCutOff` (the action property `StaysBootable`).  `CfgInv`
says how far the switch is with the file, `CallInv` that misc names the new slot already, and
`LostInv` that while the machine is up an empty file is about to be written, or a write was missed.

`Input_proofs`, for any set of tablets, any tools and `-p` option, and any length of the line:
`TabletTyping`, `TouchAsPen`, `ToolAsPen`.  What these say of a line that was read is
a consequence of what holds of the packets still in it.  `Told` says that the last packet that settles a
value (proximity, tool, pressure, switches) has the pen's own, and the state has it
when there is none and the last one was not lost; a packet is added behind (`ToldMoves`) and taken away in
front (`ToldLost`, `ToldTaken`), and `ParsedSays` is what each parser makes of one, with the
pieces of the pressure put together again in `PressureRead`.  From 1.3 on the tool is settled where a stay begins, so
`Kept` follows the stay at the end of the line back to its first packet.  `SetupInv` is why the parser
fits the tablet: once it was opened, no reset that fails at any step changes the parser or the version.
`LidAsSwitch` is `LidFollows` for any buffer: the last event in it tells the switch as it is
(`Tells`), also when `EVIOCGSW` has taken events back (`Others`).
`SerialTyping`, `PacketsWhole` and `LossesLocal` are about `WacomSerial`, for packets of any
length, reads of any size, any room in the tty and any number of lost bytes and of packets
cut off.  Neither property says anything until a whole packet is in the buffer, so the
invariant counts all bytes ever sent and follows those that are still to be looked at
(`Unread`).  `InOrder` gives each of them its number, in order; `Spent` says that every number
skipped since is paid for by a lost byte; `Behind` says how many packets lie between the last
accepted one and the first of these bytes.  An accepted packet begins with the high bit and
has no other, so the numbers in it run from one beginning of a packet to before the next:
with fewer than two bytes lost there is no room for a change of packets
(`OnePacket`).  For `LossIsLocal` each step that throws bytes away either discards a run in which
no packet begins (`NoneBegun`), which leaves the count of packets alone, or is paid for
(`Budget`): a whole buffer that is out of step by bytes lost in it or before it, a
beginning of a packet by the time limit.

### What is only model-checked, and why

* Liveness (`ReadsSucceed`, `PollsDeliver`, `CalibrationServed`, `StoresEnd`, `StaysInStep`): outside
  what the prover handles.
* What the other conversions of `BatteryRow` make of a row (temperatures, capacities): definitions, with
  nothing to compare them to but themselves.  `Measured` is for whatever `Shown` makes of one row.

## What is not modelled, and why

* `wacom/wacusb.c`: `wacom/Android.mk` does not define `WCM_ENABLE_LINUXINPUT`, without which
  it is not compiled.
* The lists of classes and devices in `wactablet.c` and `wacserial.c`, and the queries that return
  a field: data.
* `thinkpad_ec.c`'s detection (DMI, port reservation, one test read) and `find_smapi_port`: they
  run once, alone, before anything else exists.
* `smapi_attr_answer`, the last raw answer, which its comment calls a debugging aid that
  simultaneous users may get mixed up.
* The temperature and the times of keyboard and mouse activity in `hdaps.c`: copied, and read without
  a promise.
* `io_switch`, `usb_switch`, `init.sh` and `*.rc`: one write each, or straight-line set-up.
* Strings, dates and the dump of a battery's rows: bytes that are shown as they are.
* Logging, texts of attributes, build files, SELinux policy, key layouts and audio state.

## Plan

Modelled: `EcRowServer`, `ThinkpadEC`, `HdapsPoll`, `HdapsReadout`, `HdapsDevice`, `SmapiThresh`,
`BatteryRow`, `TpSmapi`, `BootControl`, `WacomSerial`, `WacomTablet`, `TabletMode`.  Proved: the
invariants and action properties of all of them, and the refinement.  What is left, the most
important first:

1. A bound on `cut` by the pauses of the pen, to say how many packets the time limit may cost.
2. The hazards in `PROJECT.json` that no property covers.
