# TLA+ models of smpl-apps

smpl-apps is a set of desktop programs (start menu, settings, calendar, sync
center, hints, ...) and a *control surface*: a small keypad with knobs, its
firmware, and a daemon that turns its events into keys, D-Bus calls and a
control stream for Kdenlive. Most of the repository is user interface. The
behaviour that is hard to get right by testing is in the control surface, where
two programs on two processors talk over a lossy channel, and in a few places
where the desktop programs share state between processes or threads.

This directory holds TLA+ modules translated from that code, TLC configurations
that check them on small instances, and proofs that TLAPS checks for every
value of the constants. Paths below are relative to `src/`.

## Inventory

### Control surface (`control-surface/`)

    user -> lines and switches -> firmware (padlogic.c, padfw.c)
                                    |  keymap mode: USB keyboard reports
                                    |  raw mode: HID reports of slots
                                    v
          kernel hidraw ring -> RawPadDevice -> Engine -> KdenliveCoalescer
                                    ^              |         |  D-Bus
             commands, answers      |              v         v
             (one parked at a time) +       key sinks     Kdenlive (or its mock)

| Component | State | Operations | Interacts by | Must hold |
|---|---|---|---|---|
| firmware: keys, layers, detents, raw mode (`firmware/src/padlogic.c`) | debounced keys, held actions, layers, detent queue, raw session | timer interrupt, `PAD_tick`, `PAD_poll`, `PAD_setRaw`, `PAD_setLayer` | interrupt counts, HID reports, the output hooks of `padfw.c` | nothing stays down, a release undoes what the press did, detents keep number and order, raw mode types nothing |
| firmware: stored keymap (`padstore.c`, `eeprom.c`) | data flash, keymap in RAM | `PADSTORE_init`, `PADSTORE_handle` | commands, flash bytes | power may go at any write and the next boot still finds a whole keymap |
| firmware: main loop (`padfw.c`, `padcfg.c`) | the one parked command | command, clock, scan | USB endpoints | one command at a time, answered in order |
| raw session (`src/daemon/rawpaddevice.cpp`) | epoch, sequence, held slots, detent totals, heartbeat timer | start, heartbeat, report, stop, close | hidraw file, Qt timers, engine callbacks | a lost report is restored, no detent counts twice, a key does not stay down in the engine |
| engine (`engine.cpp`) | layers, gestures, navigation in flight, key taps | key, tap, acks, timers | devices, sinks, Kdenlive client | one gesture ends before the next begins, navigation uses the epoch it saw |
| control stream (`coalescer.cpp`) | pending and in-flight batch per key | add, end, ack, flush | engine, D-Bus client | at most one batch per key in flight, a late ack releases nothing newer |
| Kdenlive client and lease (`kdenlivedbusclient.cpp`) | attachment, lease, generation, sent batches | attach, detach, replies, signals | D-Bus | late replies of an old attachment change nothing |
| settings service, configuration | document and revision | load, save, watch | D-Bus, files | a save from a stale revision is refused |
| flash job | child process, step | start, confirm, reattach | process, udev | one job at a time, the pad is always given back |
| evdev pad, Naga mouse daemon, trackers, sinks, tools, mock | device grabs, tables | read, reattach | evdev, D-Bus | - |

### Desktop programs

| Component | State | Operations | Must hold |
|---|---|---|---|
| start menu: resident (`start-menu/src/instance.rs`, `signals.rs`) | pidfile, lock, processes with their threads | launch, claim, hand off, signal, withdraw | at most one resident, a launch always ends in one shown window |
| start menu: launcher (`start-menu/src/main.rs`) | sources in memory with their stamps, views, children | refresh, show, pin, run, reap | what is shown is what the files say once nothing changes |
| settings: single instance (`settings/src/instance.rs`) | lock, request file | open page, forward | no request is lost, the newest wins |
| settings: connections (`connections/`) | radios, busy flag, epoch, airplane memory | switch, read, publish | a read begun before a switch does not overwrite it, no radio stays off unasked |
| settings: power and taskbar (`power/`, `taskbar/`) | pending values, worker, shared file | enqueue, apply, refresh | the newest value of every setting is the one stored |
| settings: displays (`display/`) | pending layout, live layout, monitors.conf and backups | load, apply, keep, use saved, poll | edits are never lost to a poll, what was replaced is backed up |
| settings: keypad and mouse (`keypad/`, `mouse/`, `assignments/`) | config copy and its file, threads, wizard, profiles | save, options, flash, identify, edit | no write over a file nobody has read, no page that tells what is not so |
| settings: Keybindings tab; web app centre | bindings.conf, its copy in memory, a capture | capture, save, revert; create, edit, delete | a binding goes where the user asked |
| settings: Wi-Fi and Bluetooth, other pages | lists read from tools | click, read | - |
| calendar: reminders (`calendar/src/alarm.rs`) | SQLite rows, `sent_alerts` | poll, deliver, stamp, edit | every reminder, none twice, no stamp for an event edited meanwhile |
| calendar: views | month, day, form | view, edit, expand a series | every occurrence where it belongs |
| app centre | lists, one package process, background queries, update | search, install, query, update | a row does what it says |
| sync center (`sync-center/src/dbus.rs`, `gui.rs`) | active profile, queue and cancel flags, results; rows | sync_now, sync_all, cancel, signals | one rsync at a time, a cancel is not lost, the window follows |
| hints | socket, mode machine, overlay, pointer thread | command, key, choose | what is chosen is done, one daemon |
| notification centre, shared library but for its key bindings, vendored renderers, scripts | - | - | - |

### Hard behaviours

* Two clocks. Pad and daemon each have a timeout for the same raw session, and
  answers and reports that are still in the hidraw ring when one of them gives
  up are read in the next session.
* Losses. The kernel drops reports when the ring of an open file is full; a
  write may fail and its error is ignored; a window misses D-Bus signals while it
  reconnects.
* Press and release on either side of a change of layer, keymap or mode.
* An interrupt decodes the knob while the main loop freezes and empties it.
* Power cuts between any two flash writes, and flash bytes that do not take;
  crashes between any two steps of a launch, and of a reminder's delivery.
* Acks, signals, replies and results of worker threads that arrive after the
  state they answer.
* Files with several writers (monitors.conf, pointer.conf, bindings.conf, the
  keypad's and the mouse's files), each of which reads, thinks and replaces.
* Check-then-act on shared flags (sync center), locks and pidfiles (start menu),
  sockets (hints).

`PROJECT.json` lists each with the line where it bites, and the properties that
cover it.

## Modules

| Module | Models | Composed in |
|---|---|---|
| `RawPad` | raw mode as the host sees it: the contract | `RawSession`, `PadCore` |
| `RawSession` | `RawPadDevice`, the parked request, the hidraw ring, and the pad (EXTENDS `RawPad`) | `MCPad` (detents), its own runs |
| `PadCore` | keys, layers, taps, commands and raw mode of the firmware; implements `RawPad` | `MCPad` (chords, queue) |
| `PadInput` | one knob: interrupt, debounce, freeze, take | `MCPad` |
| `PadStore` | keymap in flash, one step per written byte | `MCPad` |
| `KdenliveControl` | gestures and navigation of the engine, coalescer, acks and contexts of the client, and the host | `MCKdenliveControl` |
| `MenuResident` | launches, signals and watchdogs of the start menu; implements `OneResident` | `MCMenu` |
| `OneResident` | what scripts and later launches may rely on: one residency, and the pidfile names it | `MenuResident` |
| `SettingsInstance` | launches of the settings | `MCMenu` |
| `SyncCenter`, `KeypadIdentify` | the sync daemon and its window; identify mode between settings and keypad daemon | `MCServices` |
| `KeypadPage`, `KeypadWizard` (EXTENDS it), `KeypadPreview`, `KeypadLayers` | the Keypad tab | `MCKeypad` |
| `AssignProfiles`, `MouseButtons` (EXTENDS it) | the shared list of profiles; the Buttons card of the Mouse tab | `MCKeypad` |
| `KeyBindings` | bindings.conf between the Keybindings tab, the web app centre and an editor | `MCKeypad` |
| `DisplayPage`, `DisplayLayout`, `DisplayConf` | the Display tab, its arrangement and scales, its file | `MCDisplay` |
| `PointerCard` | the Pointer card of the Mouse tab | `MCDisplay` |
| `MenuLauncher`, `AppCenter`, `Connections`, `Preferences`, `CalendarView`, `Reminders`, `HintsDaemon`, `HintsStart` | one program or page each | `MCApps` |
| `*_proofs` | theorems; see Proofs | |

The MC modules hold instances of several components that share no state. In
each a behaviour is one of a single *part*; the variables of the others keep a
value. A part may be a second instance of a module (`Queue` of `PadCore` and
`Detents` of `RawSession` in `MCPad`, "turns" and "limit" in
`MCKdenliveControl`).

### RawPad: the contract

State is the debounced keys (`gpio`, `tm`; the TM1650 shows one key at a time),
the intervals of raw mode `left`, the session's `epoch`, `rawHeld` (slots whose
DOWN was sent and UP was not), `seq` and the detent totals. Actions are a scan
(`ScanKeys`), a turn (`TurnRaw`), `PAD_setRaw` on and off, the timeout
(`TickRaw`) and a reset. A scan in raw mode sends an UP only for a slot in
`rawHeld`: a key that was down before the session does not send one.

### RawSession: the daemon against the pad

| Variable | Code |
|---|---|
| `cmd` | the request held in endpoint 2 until `PADCFG_task` takes it; the daemon's `write()` blocks meanwhile |
| `chan` | reports queued in the kernel for the open file, oldest first |
| `linked` | whether the open file is of the pad that is plugged in now |
| `dstate` | `closed`; `opening` (GET_INFO blocks); `asking` (`m_infoTimer`); `running` (`m_info` set) |
| `dActive dEpoch dSeq dHeld base recv` | `m_active m_epoch m_lastSeq m_held m_detentBase m_detentRecv` |
| `quiet`, `due` | `m_sinceReply`, the heartbeat timer |
| `eng` | what the engine was told is down |
| `turned seen synced` | history, used by properties only |

Every handler is one action: `Start`, `AskInfo`, `Stop`, `InfoTimeout`,
`Heartbeat` and one `Read...` per kind of report. `CloseDevice` contains
`releaseHeld`, as `close()` does. `Crash` is the daemon's death; `Replug` the
pad's. `LoseReport` and `LoseRequest` are the losses. One `Tick` is one
heartbeat interval (500 ms) for both sides, so the pad's timeout of 1500 ms is
three ticks; reports may be read, and answers taken, any number of steps later,
which is where the two clocks disagree.

`HasRoom` bounds the ring (with a guard, also on `Heartbeat`, which otherwise
queues answers for ever); a full ring's loss is `LoseReport`. Other programs on
the same hidraw node, and `setLayout`/`rebuildSlots` remapping slots under a
held key, are not modelled.

### PadCore: the firmware's core

One pass of `main` is the `phase` cycle: a command, `PAD_tick`, the keys, the
knobs, the taps. The functions on a record `Side` mirror the C functions
(`ActionUp`, `LayerDown`, `HwRelease`, `RawEvent`, `KeymapEvent`, `ReleaseAll`,
...). A keyboard, consumer or mouse-button action is a KEY with a usage and
modifiers; wheel and movement are a SHOT, which holds nothing. At most three
keys are used, so the six-key report never overflows. Where two slots may type
one usage, the release of one lifts it for both, as in the code. Drop counters are
left out; `owed` remembers the detents accepted for the queue.

### PadInput: one knob

`pos` is the knob in quarters of a detent; the interrupt `Isr` sees it only when
it samples, so that up to one state is missed (`moved` is within -2..2).
`Steps`, `Full` and `Half` are the delta table and the emission rule. `PollSwitch`
debounces the knob's switch and freezes the decoder, `Take` takes both counts.
`cycle` and `log` are history.

### PadStore: the keymap in flash

`todo` is the list of byte writes the running command has yet to make, in the
order of `saveAll` or `saveSlot` plus the CRC; `Takes` performs one, `PowerCut`
may come at any point, `DoesNotTake` is a failed write: in `saveAll` the rest
follows all the same (`ok &= ...`), in SET_ACTION the CRC is then left alone
(`&&`). `Boot` is `PADSTORE_init` with the checks of `loadStored`. Byte writes
are atomic. The CRC-8 is a constant operator of which only two facts are assumed
(`CrcAssumption`): it is a byte, any byte, and it notices every change of a single
byte. CMD_CORRUPT writes the inverse of the stored CRC (`Flip`), an ordinary byte,
which may be the CRC of half an edit: `flipped` is the history of that. Count,
version and second magic are one header byte.

### KdenliveControl: knobs that control Kdenlive

`client` is the daemon, `host` is Kdenlive as the repository's mock implements the
contract; D-Bus is two queues, `toHost` for Control calls and `toClient` for acks
and contexts, each in order.

| Field of `client` | Code | Field of `host` | Code (`mockkdenlive.cpp`) |
|---|---|---|---|
| `slots` | `m_slots` of the coalescer | `pending` | `m_pending`, in `m_pendingOrder` |
| `gestures` | `m_gestures`; past ones keep their `fate` | `open` | `m_gestures`: one at most |
| `navInFlight`, `navAwaiting` | `m_navInFlight`, `m_navAwaitingEpoch` | `epoch`, `pos` | the target's epoch, `m_position` |
| `sent`, `latest`, `seq` | `m_sent`, `m_latestForKey`, `m_seq` | `due` | the context timer runs |
| `epoch`, `pos` | as in the last context read | `applied`, `cut` | history |

Each handler is one action. The operators on `client` follow the C++ functions
and queue their calls in `out`, which the action hands to `toHost`: turning
another knob is `Turn`, which ends a worn or foreign gesture, opens one, adds to the
slot and flushes it, all in one step. `Control` includes what `Engine::onFlush`
does after the call. A call that crosses the epoch is refused (`HostControl`),
a change of epoch refuses what is pending (`BumpEpoch`), and an end applies what is pending
before it is merged.

Time is a clock of three values per slot: within the minimum interval (8 ms),
within the ack timeout (60 ms), later. Other timers (idle gestures, the 250 ms
fallback, the host's throttled context) may fire at any moment they are armed.
The lease is held throughout; contexts that change neither epoch nor position,
other refusals than `stale_context`, and bindings without a target are left out.
`Stepped` are the bindings with a step limit (`edit.trim`, `edit.nudge`; only their
batches are counted), `FrameBound` those whose gestures a seek ends.

### MenuResident, OneResident and SettingsInstance: launches

`proc[p]` is one process of the start menu: `pc` walks the main thread from the
launch (`check`, `lock`, `init`, ...) through its event loop to its clean-up,
`pending` are the blocked signals its signal thread (`listening`) waits for,
`queue` what that thread has forwarded to the UI thread, `armed` and `stuck` the two
watchdogs, `removing` the threads that have read the pidfile and will unlink
it. Reading and unlinking are two steps, and any thread of any process may run
in between. A crash leaves the pidfile and drops the lock; a lock file
that cannot be used lets a process go on without it (`lockless`), as the code does.
The lock is a local of `run_resident`: `MainReturns` drops it, `ProcessEnds` comes
later, and other threads run between the two.
`OneResident` is what others may rely on: a phase, who is resident, and whom the
pidfile advertises. The mapping is `resident <- lock`, `advertised <- pidfile`,
`removing` those that returned with a removal half done. Such a one may unlink the
pidfile of the next resident (`RemoveLate`, a small defect of the code that needs a
watchdog stopped between its read and its unlink while the process ends); nobody
else may. From the first lock fault on, nothing is promised (`disturbed`).

`SettingsInstance` has the lock, the one request file, and the window's timer
that renames it away (`claimed`) before it navigates.

### SyncCenter and KeypadIdentify: daemons over D-Bus

`rsyncJob[j].at` walks a spawned task: `head`, `spawn`, `rsync`, `record`, `tell`,
`clear`. `active`, `queued`, `cancel`, `results`, `slot` and `child` are the daemon's
shared fields. `call` is one D-Bus call per caller, whose check and whose action are
two steps with anything in between; the window and a script are callers. `CancelSync`
sets the flag, takes the mutex of the slot (`killer`), and kills; meanwhile a `TryLock`
fails, and the slot is not set, or names a process that is gone (`Gone`). Four
histories say what the properties except, and how long: `raced`, `forgot`, `missed`,
`gap`. The window has `rows`, a `listener` that may be lost, and the signals on their
way. `emit_status` builds and sends a snapshot in one step, but for progress reports.
Progress reports are tasks of their own, so a late one may follow the end
(`late`). A crash of the daemon, and profile ids that collide within a second,
are not modelled; `rsync_runner.rs`, `conflict.rs`, `notification.rs` and
`volume_monitor.rs` are not used by the daemon.

`KeypadIdentify` has what the page wants, the channel to its thread, the thread's
connection, and the connection that owns identify mode in the keypad's daemon, with
the ten-minute safety net, crashes of the daemon and the death of Settings.

### KeypadPage, KeypadWizard, KeypadPreview, KeypadLayers

A config is `[input, keys]`: what `SetOption` can write and what only Save can.
Every Save and every batch of options is a thread (`saver`, `senders`) that posts its
result back. The wizard adds its seven steps, the hardware as a status worker
`sample`s it, the flash thread, and the input mode it borrows (`restore`). The
previews are two questions asked once per draft by threads that end in any order.
`KeypadLayers` is one knob's bindings in layers, and the conversion of shifted
turns into held layers. Parsing the config, the action picker and device
discovery are left out.

### AssignProfiles, MouseButtons, KeyBindings

A profile is `[name, class, title, falls, bound]`; the operators are the editing
rules. `MouseButtons` has the file, the assignments in memory and what the next
write expects to find (`onDisk`). A write compares and, a step later, renames its
new file over the old one (`BeginWrite`, `ReplaceFile`); others may write before,
between (`raced`) and after, and any read or write may fail.

`KeyBindings` has bindings.conf (`conf`), the list that the Keybindings tab keeps
in memory and writes whole, the capture of a combo while Hyprland is in a submap
of its own, and the web app centre, which reads the file again for each change.
The centre finds an app's bindings by a text (`OfApp`): its own quoted ones exactly,
unquoted ones also of longer slugs that begin alike (`Begins`), and none with a flag
in front of the name.
Sections, submaps and the order of lines are left out; Hyprland is taken to know
the submap `kb-capture`.

### DisplayPage, DisplayLayout, DisplayConf, PointerCard

`DisplayPage`: a layout is a number, monitors.conf is the layout it sets and the
revision of everything else in it, a fingerprint is the pair of what is live and
what is in the file, or that it could not be read. One worker at a time runs a `job`,
one external command or file operation per step, each of which may fail, the stop and
the start of the taskbar too; the 2-second poll and hot plugs come at any time. `DisplayLayout` is arrangement over integers (`Overlaps`,
`SharesEdge`, snapping, the drop) and the choice of a scale in 1/120ths;
`DisplayConf` is `merge` over a file of lines. `PointerCard` has the file as
lines, a write at once and an apply that lags on a worker, with changes that arrive
while it runs.

### The programs of MCApps

| Module | State and steps |
|---|---|
| `MenuLauncher` | `disk` versions of index, pins and usage, `content` and `stamp` in memory; a refresh stamps, reads and rebuilds in separate steps while files change; reads and its own writes may fail (`failed`); children are adopted and reaped by SIGCHLD |
| `AppCenter` | what is installed (`world`), rows, one package process, which may change other packages too or leave an AppImage in place, background queries, the update in a terminal and its receipt; other programs change no packages |
| `Connections` | `real` radios, what is `shown`, `reads` with the epoch they began in, the switching thread, the airplane memory |
| `Preferences` | the queue of choices and the one worker of the Power and the Taskbar page: edit the shared file atomically, recheck, load, read again for the page, which may fail (`unreadable`), report |
| `CalendarView` | months of given lengths, one row of the database, the form; expansion of a series into days, with hours the clock skips |
| `Reminders` | `polled`, `todo`, `sending`, `stamps`: a poll, one step per occurrence, delivery and stamp apart |
| `HintsDaemon` | `mode`, the overlay, the pointer thread with its channel and its buffer |
| `HintsStart` | the socket's path, daemons coming up and dying, callers that start one, the setting |

## Runs

Deadlock is not checked: at a bound (a counter used up, the power off with no
command left) the instance may stop, and the program would not.

| Run | Instance | Shows |
|---|---|---|
| `RawSession_session` | `FairSpec`; one key, timeout 2, epochs modulo 2, ring 2, two losses, one crash or replug | `TypeOK`; `RawHeldIsDown`; an answer puts daemon and pad in step whatever expiry, loss, restart or late report preceded (`AnswersRestoreHeld`); the daemon never takes an answer of its own stop for a refusal (`NoSelfRefusal`); a followed session leaves nothing untracked (`OnlyUnfollowedReportsStrand`); a key the user let go of does not stay down for ever (`ReleasedKeyComesUp`) |
| `Pad` | three keys, two directions, chords sharing modifiers, all layer operations, one edit; a queue of two runs of three; two slots of flash, bytes of two bits, three commands, one write that does not take; one knob, six quarters either way; a counter modulo 4, five detents, two losses | `KeysAreSound`; `RawIsRawPad`; `QueueInOrder`; after any cut the boot finds the old, the new or the default keymap and a completed change lasts (`FlashIsSafe`); a knob back at rest has sent what it was turned, in order (`KnobIsTrue`); no detent reaches the engine twice, and an answer gives back all that are less than half the range (`NoDetentTwice`, `DetentsRestored`) |
| `KdenliveControl` | two bindings, one with the limit and one bound to the frame, and a navigation without seeks, or either binding with a jog, a seek and a navigation in the first epoch; two slots, three turns, two gestures, two epochs, a step limit of 3 | `TypeOK`; one unanswered update per key, one gesture at a time, never more steps than Kdenlive retains (`HostCanFollow`); nothing is sent under an epoch other than that it was turned in (`SentUnderItsEpoch`); an ended gesture is applied whole and once (`EndedGestureIsWhole`); detents leave the coalescer although no ack or context need ever come (`KnobNeverStalls`) |
| `Menu` | two process ids, three launches, a signal, a crash or stall, a lock fault; three launches of the settings | `NothingIsLost`; the residents implement `OneResident`; a hand-off shows a window (`ShowIsAnswered`) |
| `Services` | two profiles; two jobs that race, or one with a window; two events, a queue of one; three clicks, two bus faults | `SyncIsKnown`: every rsync is the one the daemon records unless a call overtook another's check, and the window follows; a cancel stops every job unless the flag is cleared for another (`CancelStops`); identify mode ends up as the page wants it (`IdentifyFollows`) |
| `Display` | two layouts, a change outside, a failure, one backup kept; two displays; three lines; two changes of the pointer | `ShownAsWritten`, `EditsAreSafe`, `SavesAreSound`, `ChangesEnd` |
| `Keypad` | two acts, one wizard, three drafts, one layer edit, two mice, two edits, two slugs of which one begins with the other, three changes of bindings | `PagesTellTheTruth`, `WritesAreSafe` |
| `Apps` | nine parts, two or three of everything; the app centre begins with few of the systems it may find, one radio is there | `WindowsTellTheTruth`, `NothingIsLeftOut`, `ChangesAreAsked`, `SaveKeepsWhatFollows` |
| `RawSession_strand` | two keys, no loss, no restart | **violation** of `EngineDownIsTracked` |
| `KdenliveControl_rule` | a mode rule may match | **violation** of `SentUnderItsEpoch` |
| `Connections_stuck` | four switches | **violation** of `NoRadioStuck` |
| `Hints_pointer` | two commands, four keys | **violation** of `AskedIsDone` |

The properties of a run of several parts are conjunctions; each part's own are
stated and explained in its module:

| Property | Conjuncts |
|---|---|
| `KeysAreSound` | `NothingStuck`, `RawIsSilent`, `MomentaryIsHeld`, `HeldIsDown`, `NeededModsStay` |
| `FlashIsSafe`, `KnobIsTrue` | `BootFindsWhole`, `Durable`; `RestIsExact`, `OlderFirst` |
| `HostCanFollow` | `OneUpdateInFlight`, `OneGestureAtATime`, `StepsWithinLimit` |
| `NothingIsLost`, `SyncIsKnown` | `QuitWithdraws`, `NoRequestLost`; `OneRsync`, `WindowFollows` |
| `ShownAsWritten` | `BarIsRestarted`, `ValidLayoutsStay`, `ScaleIsKept`, `CardTellsTheTruth` |
| `EditsAreSafe`, `SavesAreSound`, `ChangesEnd` | `EditsAreTheUsers`, `ReplacedIsBackedUp`; `EditsGiveValidLayouts`, `SaveChangesOnlyItsDisplays`, `CardKeepsOtherLines`; `JobsEnd`, `ChangesGetAnswered` |
| `PagesTellTheTruth` | `NothingLostUnsaid`, `FlashIsSupervised`, `PreviewIsOfTheLastDraft`, `ShowsWhatIsOnDisk`, `BindingsAreSound`, `BindingsComeBack` |
| `WritesAreSafe` | `MouseWritesAreSafe`, `BindingsGoAsAsked`, `ConversionKeepsMeaning` |
| `WindowsTellTheTruth` | `StampIsNotAhead`, `ViewsAreCurrent`, `ZombiesAreReaped` (menu); `RowsTellTheTruth`, `ListHoldsNoRemoved` (app centre); `ShowsNoOldReading`, `NoRadioStuckAfterOne` (connections); `ChoicesHold` (preferences); `StampsAreTrue` (reminders); `OverlayIsTheMode`, `DoneIsAsked`, `OneDaemonUnlessTheyMet`, `DaemonKnowsTheSetting` (hints) |
| `NothingIsLeftOut` | `ViewsAreExact` (calendar), `NoneMissed` (reminders), `LabelsCanBeTyped` (hints) |
| `ChangesAreAsked` | `RestartsTheVerified`, `SavesChangeTheirSetting`, `NotTwice` |

Why the bounds are enough. Raw sessions only ever compare epochs and sequence
numbers for equality or succession, so a modulus of two or three has all the
cases of 256, the coincidences after a wrap too. A ring of two holds a report
and an answer, which is what races; the proofs below drop the bound. The detent
counter needs a range that has a half, and more detents than the range. Two
losses are the fewest that hide a gap's own repair. In the keymap, every pair of
operations on layers and modifiers is in `ChordMap`, and `MomentaryIsHeld` needs no
more than two momentary keys. In flash, two slots are the least that can be mixed,
three byte values the least for a CRC that collides. A knob's decoder is periodic
in four quarters; six cover a detent and a turn back. For Kdenlive, every race is
between one call or reply and one change of epoch or position; two gestures let an
ended or forgotten one and the open one meet, three keys are enough to fill two slots,
and a limit of three steps is reached both by updates and by an end that carries
the last. In the run either binding alone is turned against the limit. Two process ids and three launches give a resident, a launch that hands
off and one that reuses a dead one's id; the proof below has any number. A
call whose check was overtaken needs one other job, and a cancel that is forgotten
one call or one queue's end.
A file with several writers needs one write of another between read and replace,
and one more change to notice; a thread that answers late needs one newer question.

`RestIsExact` leaves out turns no decoder of this kind could count: a missed
state together with a turn back, more than one missed state before a direction
is known, and turning while the switch is held.

**Fairness.** Every fair action is run by a thread or an event loop that nothing in the
code stops for good; nothing obliges users, losses, faults, crashes or restarts.

| Spec | Fair | Because |
|---|---|---|
| `RawSession!FairSpec` | `PadAnswer`, `Tick`, `AskInfo`, `Heartbeat`, `ReadReport` | the firmware's main loop, time, and Qt's timers and reader |
| `KdenliveControl!FairSpec` | `Elapse`, `FlushTimer` | time and the coalescer's armed timer; Kdenlive may never answer |
| `MenuFair` | each process's own steps, and (strongly) `PatienceEnds` | threads run; a launch's wait for the lock is bounded by tries, which others may interrupt |
| `SyncFairness` | tasks, `ApplySignal`, `CancelLock`, `CancelKill`, accepted calls | tokio's tasks and the window's loop |
| `IdentifyFairness` | the page's timer, the thread, the daemon's watch of its clients and its safety net, the daemon's start | systemd restarts the daemon |
| `DisplayFair`, `CardFairness` | the worker's steps and the delivery of its result | one worker thread and the UI loop |

`Pad`, `Keypad` and `Apps` have safety properties only.

## Findings

* `RawSession_strand`: `m_held` is documented as what the engine holds
  (`rawpaddevice.h:112`), but a DOWN read between giving a session up and the
  first answer of the next is passed on and then dropped from `m_held` by
  `handleSnapshot` (`rawpaddevice.cpp:281`) when the snapshot does not list it.
* `KdenliveControl_rule`: `contextChanged` is emitted before `epochChanged`
  (`kdenlivedbusclient.cpp:475`); an automatic mode then ends the old gesture with
  its queued detents under the new epoch (`engine.cpp:189`), against
  `engine.cpp:192` and `kdenlive-api-contract.md:862`.
* `Connections_stuck`: `airplane.rs:17` promises that no radio is left off that nobody
  asked to be off; the second memory takes what the first airplane mode turned
  off for the user's own choice (`airplane.rs:31`). It holds, and is proved, unless
  the second is turned on while one of the radios is still off, or with the memory of
  the first because no new one could be written (`NoRadioStuckAfterOne`). The second
  exception was found by the proof: the runs are too short for it.
* `Hints_pointer`: dropping any clone of `VirtualPointer` ends the pointer thread
  (`inject.rs:203`); the daemon clones it for every action, so what is chosen after the first
  is lost, against `inject.rs:77`.

Met while modelling, and kept out of the instances or left to prose:

* Pad. A modifier bound as a plain key (usage 0xE0-0xE7) is lifted by releasing a chord
  having it, as `padfw.c:125` looks only at the modifiers of chords; actions in the
  model have no such usage, which `NeededModsStay` presupposes. A flash byte that does not
  take is covered by the CRC computed over what is stored (`padstore.c:48`): `BootFindsWhole`
  is about behaviours in which all writes take.
* Kdenlive. The coalescer's ack timeout (`coalescer.cpp:120`) knows nothing of a
  navigation that waits for its epoch and sends held detents after 60 ms with the old
  one. A `stale_context` refusal after the new epoch makes the engine forget a gesture
  opened since (`engine.cpp:153`); a frame-bound gesture opened on a stale position
  is forgotten when the context of that seek arrives (`engine.cpp:184`): both are
  open in Kdenlive until it ends them itself, and `OneGestureAtATime` and
  `EndedGestureIsWhole` speak of gestures that were ended, not forgotten. Gestures end when
  a jog is turned (`engine.cpp:1040`), not when its delayed batch is sent, so a
  jog may reach Kdenlive inside a newer gesture.
* Settings, instance: a new window applies a request left by a launch that had ended
  (`instance.rs:323`).
* Pad. After CMD_CORRUPT an edit cut after its first byte may be loaded: the inverted
  CRC is an ordinary byte (`padstore.c:168`). `BootFindsWhole` exempts exactly that.
* Start menu: a watchdog stopped between its read and its unlink of the pidfile may
  remove the next resident's, as the lock is dropped first (`main.rs:1153`).
* Sync center: two calls that both pass the check start two rsyncs (`dbus.rs:414`): the
  properties name that race (`raced`) and nothing else. A cancel is forgotten where the
  flag is cleared for another (`dbus.rs:420`, `478`). A pid not noted because a cancel
  held the mutex (`dbus.rs:185`) is not signalled, but its task sees the flag. The queue of "sync all" is made of the daemon's copy of the config, which
  toggles in the window are not told to.
* Keypad: `NothingLostUnsaid` has two halves, the copy of the file and the mode, and
  five windows of the code (`Windows`) end one or the other until the page next reads
  the file with nothing under way: a change while a Save runs, overlapping batches or
  Saves, a reload while one goes on, another program's write between a batch's two reads,
  an option queued before a choice that waits for Save. Each excuses only
  the half, and the time, it breaks. A title-only profile whose
  title is cleared becomes a second global one; the conversion reverses an
  unconditional layer that precedes a context layer. Both are kept out of the instances
  (`MCFiles`, `Usual`).
* Mouse: what another program writes between the comparison and the rename is lost
  (`store.rs:77-105`), against `store.rs:56`.
* Web apps: unquoted bindings of a longer slug that begins alike are taken for the app's
  (`main.rs:515`), and one with a flag before its name is not found, so that its hotkey
  keeps the old flags, against `main.rs:55`.
* Keybindings: the tab overwrites the file with its list in memory, and so takes from it
  what others have added since it was read (`unseen`); saving a captured
  combo writes all other unsaved edits; a capture is remembered by its row, which may
  be another binding's by then; with the filter box in focus, or a window closed while
  capturing, Hyprland stays in the submap; section headers change on save
  (`keybindings.rs:3`). Editing a web app deletes it before the new one is validated;
  renaming it onto another's slug overwrites that; hotkeys of old slugs stay.
* App centre: after a cancel the next log starts with lines of the cancelled run; a row is
  marked by index after a second search. `merge_results` (`catalog.rs:88`) removes no
  duplicates: of an application that a search lists twice, as the Arch API
  (`pacman.rs`) may for a package of two repositories, only the row that was clicked
  changes (`ListedOnce`). Rows of dependencies that came or went with an application, and
  of an AppImage whose file could not be removed (`installer.rs:304`), are wrong until the
  next search (`aside`). Removing an application shows again what the pills hid.
* Start menu: pins and usage of which a write failed differ from the file under an
  equal stamp (`main.rs:150`, `usage.rs:94`).
* Display: a reload that fails drops the warning that the taskbar could not be
  restarted, and a bar-ctl that cannot run is only logged (`hyprland.rs:117`).
* Power: a later success clears the message of another setting that failed.
* Calendar: saving an occurrence of a series moves the series' start.
* Hints: labels beyond pairs are not prefix-free (`hint.rs:49`); a drag's label is off by
  one and its commit is a click; `smpl-hints reload` from Settings starts a daemon
  when none runs; two daemons can meet at a stale socket (`daemon.rs:134`).

## Proofs

Checked by TLAPS, for every value of the constants that satisfies the named
assumptions (`KeysAssumption`, `ModAssumption`, `SessionAssumption`, `CoreAssumption`,
`ActionAssumption`, `PadAssumption`, `InputAssumption`, `ControlAssumption`, `MenuAssumption`, `InstanceAssumption`,
`SyncAssumption`, `IdentifyAssumption`, `StoreAssumption`, `CrcAssumption`, and those of the modules of `MCApps`), which TLC evaluates in the runs.

| Theorem | Says |
|---|---|
| `PadTypeCorrect`, `PadHeldIsDown` (`RawSession_proofs`) | the contract's types; outside raw mode nothing is held, and what is held is down |
| `SessionKeepsContract` | `Spec => PadSpec`: whatever the daemon, the losses and restarts do, the pad's part is a behaviour of `RawPad`; so `SessionHeldIsDown` follows by one line |
| `TypeCorrect`, `FollowedSessionStrandsNothing` | types of the session, for any ring size and number of losses; the action property of the run, by cases on the reader's steps |
| `NeverRefusesItself` | the daemon never refuses itself |
| `AnswersRestore` | one answer puts daemon and pad in step |
| `AccountOfDetents` | the account of detents (below), for any width of the counters |
| `NoDetentComesTwice`, `AnswersRestoreDetents` | from it: no detent reaches the engine twice; an answer gives back all that were lost, if fewer than half the counter's range |
| `CoreKeysAreSound` (`PadCore_proofs`), `PadKeysAreSound` (`Pad_proofs`) | `KeysAreSound` for any slots, layers, keymap and modifiers, of the component and of the run |
| `CoreTypeCorrect`, `CoreTapsInOrder` (`PadCore_proofs`) | types; what is typed is a prefix of what was turned and accepted, in order, for any number and length of runs in the queue |
| `CoreImplementsRawPad`, `PadIsRawPad` | `PadCore` implements `RawPad` |
| `KnobTypeCorrect`, `KnobIsExact` (`Pad_proofs`) | types of one knob; `RestIsExact` and `OlderFirst` for any reach, debounce and limit of the counts |
| `PadTypesCorrect`, `PadQueueInOrder`, `PadNoDetentTwice`, `PadDetentsRestored`, `PadKnobIsTrue` | the properties of the run of these names, of its instances of the modules |
| `StoreTypeCorrect`, `StoreIsSafe`, `PadFlashIsSafe` | the store's types; `BootFindsWhole` and `Durable` for any slots, keymaps and any CRC that is a byte and notices one changed byte, of the component and of the run |
| `StreamIsSound`, `KdenliveCanFollow` (`KdenliveControl_proofs`) | the inductive invariant of the daemon's end of the stream; from it `OneUpdateInFlight` and `StepsWithinLimit`, whatever Kdenlive answers, drops or delays |
| `CallsFlow`, `ControlTypeCorrect` | the inductive invariant of both ends, and the types; calls and contexts are handled in order, and per gesture what is applied, on its way and waiting is what was turned |
| `HostFollows`, `EndedGesturesAreWhole` | from it `HostCanFollow` and `EndedGestureIsWhole`, for any controls, limits and number of epochs, with automatic modes or without |
| `SentInItsEpoch` | `SentUnderItsEpoch` where no automatic mode matches (`~Rules`): what the finding shows to be needed |
| `MenuTypeCorrect`, `NothingLost` (`Menu_proofs`) | types and `NothingIsLost` of both programs' launches |
| `RefinesResidency` | `MenuResident` implements `OneResident`, its late removals included |
| `ServicesTypeCorrect` (`Services_proofs`) | types of the sync center and of identify mode; a slot that names a job names one whose rsync was not waited for |
| `OneKnownSync`, `WindowShowsTheDaemon` | `SyncIsKnown`, however calls race: an overtaken check is the only way to two rsyncs; `WindowFollows` |
| `EditsStay` (`Display_proofs`) | `EditsAreSafe`: edits are given up by the user only, and what a save replaces is among the backups |
| `BarComesBack`, `AppliedIsLive` | two parts of `ShownAsWritten`: a stopped taskbar is asked for again before the job ends, and a start that failed is told; the pointer card says "Applied" only of what Hyprland has |
| `LauncherIsCurrent`, `AppCentreIsTrue`, `AirplaneModeEnds`, `ChoicesStand`, `RemindersAreStamped`, `HintsDoAsAsked`, `OneDaemonKnows`, `RestartsAreVerified` (`Apps_proofs`) | what each window of `MCApps` shows, for its own specification |
| `WindowsAreTrue` | `WindowsTellTheTruth` of the run, from these |
| `ChangesWereAsked` | `ChangesAreAsked` of the run |

The arguments:

* **Raw session.** `NoSelfRefusal` is not inductive: the next read depends on the
  parked request. Its strengthening `AnswersInOrder` orders what is on its way: while the daemon
  asks or runs no stop is parked, the answer of a stop comes before that of the
  next GET_INFO, and while it runs no refusal is queued. `AnswersRestoreHeld` says what
  the daemon *will* believe once it has read what is queued (`EndsDown`). Its proof is a
  small theory of that operator (`EndsOfConcat`, `EndsOfLast`, `EndsOfTail`,
  `EndsOfRemoval`) and one lemma per action: appending the events of a scan changes the
  last word about exactly the slots the scan changed in `rawHeld` (`PassSaysHeld`), an
  answer is the last word about all, removing a report cannot hurt if an answer
  follows it.
* **Firmware core.** `CoreInv` says of the side that is typed that it is one of `Sides` and
  `SideOK`: the keys down at the host are those of held slots and of the tap, the
  modifiers are those they need, a momentary layer is a held slot's; in raw mode nothing is
  held or typed (`Silent`), and the raw variables are as `RawPad` has them (`RawOK`). Each
  function on a side has a lemma that it keeps this; each action then keeps the
  invariant and is a step of `RawPad` or a stutter.
* **Detents of a session.** A counter that wraps says nothing by itself, so `DetentsAccounted`
  relates three places: the totals on the pad, those in the queued answers, and what the
  daemon has made of the last it read (`base + recv`). Modulo the counter, each differs from
  the number of detents turned by one and the same offset (`TotalsAgree`); and the daemon
  with all that is queued before it reaches at most what was turned (`QueueIsBounded`).
  "What the queue brings the daemon to" is a running sum over the queue; that two
  running sums with the same steps grow alike is an induction (`StepAlike`, `GrowAlike`)
  from which follow the lemmas for a report appended, read and lost.
* **Queue of detents.** `QueueOK`: the detents accepted and not yet typed (`owed`) divide
  into one stretch of one direction per run of the queue, as long as the run says (`InOrder`).
  Its lemmas say what a new run, a longer last run and a detent taken from the
  first do to the division.
* **Knob.** `KnobOK` follows the cycle from one rest to the next: as long as no decoder could
  have lost count, the quarters turned are four for every detent sent, the count, and two for a
  missed state the count could not decide (`CycleTrue`, `Says`); so at rest it is exact. `LogTrue`: if
  the direction changed at most once, the log is what the two accumulators hold, the other
  direction first and then that of the last detent, which is the order they are taken in.
* **Stored keymap.** Neither promise is inductive: both speak of a boot, and power may go
  anywhere. `StoreInv` names the phase the flash is in as long as every write took.
  It is `Blank` or `Resting`; a whole save is `Before` its first write or `Saving`, when the
  magic is bad and each cell has its byte or is still to be written, the CRC after
  all cells; `SET_ACTION` is `Putting` one slot; or a `Small` write of one header
  byte runs. With `flipped` the stored CRC is the inverse of the right one instead. Power cuts keep the phase, so a boot in any of them finds the keymap before
  or the one asked for (`LoadsWhole`). The CRC is needed once: after the first byte of an
  action the magic is still good, and only the CRC keeps half an action
  from being loaded, unless that byte had not changed (`PuttingGoesOn`, `CrcNotices`).
* **Control stream.** Two invariants. `StreamInv` is about the daemon's end alone: for *some*
  set of epochs and positions told so far, the daemon's record is well typed over it, and
  nothing at all is said of Kdenlive. `Core` has three parts: only live gestures have slots
  (`SlotsOK`); a gesture has sent at most one update less than the limit, and two less where
  detents wait (`StepsOK`), so an end always has a step left; an update that may still be
  answered blocks its slot and is the latest of its key (`YoungOK`). Every operator of the
  daemon (`Control`, `TryFlush`, `AckSlots`, `EndGestures`, ...) has a lemma that it keeps
  `Core`, every handler one that it keeps `StreamInv`. Without `Rules` the epochs of gestures
  and calls are in it too (`EpochsOK`, `CallsOK`).
* **Both ends.** `FullInv` adds Kdenlive. It looks at one sequence, `OnWay`: what Kdenlive has
  pending, then the calls on their way, oldest first (`Flow`). Their epochs and gestures only
  rise (`InOrder`); those of an ended gesture close with its end (`EndsOK`); the gesture
  Kdenlive has open is of its epoch, nothing on the way is of an earlier one (`OpenOK`),
  so only a forgotten gesture is ever cut short (`CutOK`). `WholeOK` is the account of
  detents: per gesture of Kdenlive's epoch that was not forgotten, what is applied, the calls
  on their way and the slot add up to what was turned; the sum is a running balance over
  the sequence, with lemmas for a call appended, taken first, merged into an earlier one,
  dropped, or of another key. An update goes into what is pending under its key and epoch, so
  its detents overtake calls of other keys (`MergedFlow`); an end overtakes nothing, as all
  that waits is applied before it is put last. If that changes the epoch, the end waits
  under a past one, and nothing else can (`LateEnds`). A change of epoch discharges the
  account of every older gesture. Contexts
  on their way rise from the daemon's epoch to Kdenlive's (`ToldOK`). Each handler is followed
  call by call, since `Turn` or a context may end gestures, drop slots and send several calls
  in one step.
* **Residency.** `KeepsTo` is what each process keeps true of itself, the lock and the pidfile: a
  resident has the lock or could not use it, only a resident takes the pidfile back,
  and only one that no longer serves; while it does, no other name gets into the file. It is
  inductive with one lemma for what others may do meanwhile (`OthersKeepTo`). The step
  simulation maps every action to a step of `OneResident` or none. That the UI's queue is
  bounded needs a count: requests under way never exceed the launches and signals made
  (`CountInv`).
* **Sync.** `OneJob`: at most one job is between its start and its last step, and while it
  runs the fields of the daemon name it, the slot unless a cancel held it. It is false once a
  call acts on an overtaken check, so the invariant is `raced \/ OneJob`; `raced` ends
  when a job is started with no other under way, which gives `OneJob` again
  (`OneJobKnown`). `Follows` looks at the last signal on its way instead of the rows.
* **Display page.** `PageInv` says where the worker is and what it must know there: from the
  read of the file on, what it found, and from its backup on, that this is among the backups
  it made (`BackedUp`), so that pruning, which spares those, cannot take it. Edits are safe
  since the two jobs that refuse edits (`KeepCurrent`, `UseSaved`) can neither run nor wait while
  there are any, and a page not loaded has none. Layouts, clock, faults and changes outside
  are arbitrary. In `CardInv` only the job of the newest generation has the options shown, and
  "Applied" is only of that one.

* **The windows.** *Menu* (`LauncherInv`): a stamp is never ahead of the disk, so a source
  written while it is read differs from its stamp, and a failed write or read is in `failed`; views follow the sources that did not
  change. *App centre* (`AppInv`): while a process runs for a row, and rows were not
  replaced, the row is that of its application; what it changed besides is `aside`. *Radios*
  (`PlaneInv`): reads that can still be shown began after the last action; what airplane mode
  turned off is not remembered as off, so in a disable each such radio is still to be
  switched, failed, or was not found. *Files* (`PrefInv`): the last choice of a setting waits as the last of
  its queue, is being saved, or is on disk; a queue that replaces, the Taskbar's, holds
  one choice of each at most (`AppendIsLast`, `WithoutTakesOne`, `TailIsLast`). The proof showed
  `SilenceMeansApplied` to hold also where another program wrote between check and rename,
  which it used to leave out. *Reminders* (`AlertInv`): what was shown of an event as it is
  now has its stamp, is about to get it, or lost it. *Hints* (`HintInv`): the labels shown
  are those of the prefix, so the one typed in full is on the widget it leads to
  (`MeantIsOnTheLabel`); done, buffer and queue are, in this order, what was asked, up to the
  first shutdown in the queue (`FlowIsAsked`), of which nothing after it is claimed. *Hints'
  start* (`StartInv`): as long as no two met, who listens is at the path and who removes a
  path is alone; what the daemon does not know of the file is in its backlog or still to
  be sent.

Not proved, and left to TLC:

* Liveness (`ReleasedKeyComesUp`, `KnobNeverStalls`, `ShowIsAnswered`, `CancelStops`,
  `IdentifyFollows`, `ChangesEnd`): fairness and ENABLED are out of the prover's reach.
* What is counted or searched: `ViewsAreExact`, `NoneMissed`, `SaveKeepsWhatFollows` (days and
  occurrences of a series), `LabelsCanBeTyped` (digits of a number, by powers),
  `ValidLayoutsStay`, `ScaleIsKept`, `EditsGiveValidLayouts` (what an arrangement computes).
* Not tried: the Keypad tab, the lists of the mouse, the key bindings.

`TrimSteps` is at least 2 in `ControlAssumption` (128 in the code): with a limit of one step an update
would leave none for the end.

## Not modelled

Register-level USB and chip drivers, HID report bytes, encoders of fixed
records, tables, parsing, drawing, text, packaging and vendored code; the evdev
pad, the settings service, the flash job, trackers and sinks of the daemon; the Kdenlive lease
beyond one attachment; the Wi-Fi and Bluetooth lists and the pages of the settings
that are lists of commands; the notification centre. Other programs on the pad's hidraw node,
`setLayout` remapping slots under a held key, and a Subscribe granted after a
detach are not modelled either. Each component's note in `PROJECT.json` says what is left
out of it.

## Plan

1. Proofs of the pages of `MCKeypad`. Proofs share modules by program, so that
   each program has one.
2. `KdenliveLease`: attach, detach, late replies, generations, composed with
   `KdenliveControl`; `EngineTaps`: paced taps, layers, rules, focus changes.
3. `FlashJob`, the evdev pad and the settings service of the daemon.
4. The Wi-Fi and Bluetooth lists, whose rows are remembered by index while a
   refresh replaces them.
