# pi-topd: specifications and proofs

pi-topd is the system daemon of the pi-top laptops, of the pi-topCEED and of the
pi-top [4]. It talks to the *hub*, a microcontroller on I2C (and, on the first
generation, on SPI) that has the battery, the power button, the lid, the screen's
backlight, the buttons and the miniscreen; it sets up audio peripherals, dims the
screen of an inactive user, shuts the machine down on a low battery, and serves
clients over two ZeroMQ sockets. It is a Python program of one process and five to
eight threads with little locking: what is hard about it is the order of steps of
several threads, registers and mirrors of registers that each thread reads and
writes back, transfers that fail, and a stop that runs inside a signal handler.

This directory has TLA+ modules of that behaviour, configurations that check them
with TLC, and theorems that TLAPS checks. `PROJECT.json` is the index: the parts of
the system, the runs, the lines of the source each definition stands for, a mutant
for each property, the findings, the hazards and the theorems. Paths below are under
`src/pitopd/` unless they begin with `src/`.

    tlc -config MCPowerManager.cfg MCPowerManager      # a run
    tlapm HubBatteryProofs.tla                         # the proofs of a module


## 1. Inventory

| part (source) | state it keeps | operations | called by / calls |
|---|---|---|---|
| App (`app.py`, `__main__.py`) | `_run`, device id, the components | `start`, `stop`, a callback for each event and each request | everything |
| Hub manager (`hub_manager.py`) | the hub's module, the callbacks | `connect`, `start`, `stop`, screen, brightness, miniscreen | App; the hub modules |
| Hub v1 (`pthub/`) | `State`, a queue of changes, two threads (SPI, I2C) | exchange of bytes, battery reading, start, stop | hub manager; back to App through callbacks |
| Hub v2 (`pthub2/`) | `State`, one polling thread, backlight register | poll, read and write back of registers | same |
| Hub v3 (`pthub3/`) | `State`, one polling thread with three counters, OLED register | six stages of a poll, SPI bus and control of the miniscreen | same |
| Power manager (`power_manager.py`) | three counters, which warnings were shown, `shutdown_initiated` | a battery report, a shutdown request of the hub | App's hub callbacks, in the hub's threads; `shutdown -h now` |
| Idle monitor (`idle_monitor.py`) | last idle time, cycle, thread | a cycle, start, stop | App's callbacks blank and unblank the screen |
| Peripheral manager (`peripheral_manager.py`, `ptspeaker/`, `ptpulse/`) | list of enabled peripherals, thread | a pass over the I2C bus, set-up of a peripheral | App (ready, reboot needed); boot files, state file |
| Request server (`server/request_server.py`) | socket, thread | bind, receive, answer, stop | clients; App |
| Publish server (`server/publish_server.py`) | socket, lock, `emit_messages`, `_shutting_down` | start, publish, stop | every thread; clients |
| State file (`state.py`) | `/var/lib/pi-topd/state.cfg`, a lock | get, set | idle monitor, peripherals, pt-poweroff |
| Config parser (`config_parser.py`), sys config (`sys_config.py`), ALSA | `config.txt`, boot files | find, add, comment, write | peripherals, interfaces |
| Interfaces, notifications, pipes (`interface_manager.py`, `notification_manager.py`, `pipe_manager.py`) | SPI and I2C switches, a notification id, files | switch, show, close, write | App, power manager |
| pt-poweroff, pt-reboot (`poweroff.py`) | none | read the state file, one write to the hub | systemd, while pi-topd is being stopped |

How they interact. Calls go down (App, hub manager, hub module) in the thread of the
caller: the request server's, the idle monitor's, the peripherals', the main thread's
or one of the hub's. Events come up as callbacks in the hub's threads, out of the
midst of a poll: a changed field of `State` is at once a published message, a step of
the power manager, or a screen blanked. The only locks are in the publish server and
the state file. A signal runs `App.stop` in the main thread in between any two steps
of whatever that thread does.

What is hard, and what has to hold:

* *Low battery* (power manager, hubs): reports are of single fields, only of changes,
  and arrive from one or two threads. Exactly one shutdown, on a full series of low
  readings and not later, warnings neither early nor lost, a low battery not
  overlooked.
* *Start and stop* (App, servers): a stop in the middle of a start, failed starts,
  joins of threads that call each other's components, a lock taken in a signal
  handler. The process ends, nothing is used after it was closed, nothing is sent
  too early.
* *Screen* (hub v1, v2, idle monitor): brightness and blanking changed by up to four
  threads and by the lid. The last change wins, State and hub agree, the lid is
  followed, the stop leaves an unblanked screen, an inactive user's screen dims and
  only that one.
* *Miniscreen* (hub v3): register, State, the Raspberry Pi's buses and what the
  clients know, changed in different orders by different threads. All agree in the end.
* *Buttons and polling* (hub v3): stages of a poll that fail, counters of periodic
  readings. Nothing is starved; fast polling lasts as long as it should.
* *Peripherals*: plugged and unplugged during a pass, set up over several reboots.
  The list ends as the bus is, and the reboots end.
* *Files* (state file, `config.txt`): written in place, truncated first, by several
  threads and read by another process; crashes and power failures in between. Nothing
  that was set and has reached the disk is forgotten, the hub is told of a shutdown, a
  half-made switch is made in the end, other people's settings stay.

`PROJECT.json` lists under `hazards` each place where this can go wrong, with the
properties that would show it.


## 2. Modules

    SafeShutdown            what the low-battery policy promises
      PowerManager          the policy, implements SafeShutdown
        BatteryReports      State and the way of a report to the policy
          HubBatteryV1      battery thread of hub v1   \
          HubBatteryV2      polling thread of hub v2    > HubBattery composes them
          HubBatteryV3      polling thread of hub v3   /
    ShutdownV1              hub v1: two threads call the policy's shutdown
    PublishServer           the publishing socket and its lock  \
    AppLifecycle            App.start, App.stop, the threads      > AppMessages composes them
    IdleMonitor             dimming, in discrete time
    HubBacklight            hub v2: backlight register and four threads
    HubSpiV1                hub v1: queue of changes, exchanges of bytes
    HubPollV3               hub v3: stages, buttons, fast polling
    OledControl             hub v3: miniscreen, its SPI bus, five threads
    PeripheralManager       list of peripherals, boot files, reboots
    StateFile               the state file, pt-poweroff   \
    BootConfig              config.txt and its parser      > Files composes them

`X`Proofs has the theorems about `X` (AppMessagesProofs those about AppLifecycle and
PublishServer too, HubBatteryProofs those about PowerManager); `MCX` gives `X` the constants that a `.cfg`
cannot write down. Operators named `Faulty...`, each in front of the definition it
varies, are the mutants: the definition as a plausible bug would have it. No
specification uses them.

Correspondence of state and actions:

* **PowerManager.** `counter`, `shown`, `shutdownInitiated`, `batteryCapacity`,
  `batteryCharging`, `deviceId` are the attributes of `PowerManager`.
  `OnHubBatteryStateChanged` and `OnHubShutdownRequested` are App's handlers with all
  they call, one action each, since they run to the end in one thread; `SetDeviceId`
  is `App._set_host_device_id`. `commands` counts runs of `shutdown`, `requested`
  remembers that the hub has asked for one; `recent` is history, the levels at or
  below which the last reports were, and is what the properties compare with. The
  three `elif` branches are `TakeMostSevereStep`.
* **BatteryReports, HubBatteryV1, HubBatteryV2, HubBatteryV3, HubBattery.** `hubState`
  is `State`, `reading` what the poll has read. On hub v1 each value goes to State, and
  in a report if it changed, before the next is read (`ReadCurrent` to `SetWattage`), so
  a refresh that fails (`EssentialReadFails`) leaves half of it there; the twenty attempts
  for each value are one step. On hub v2 all registers are read first and then each
  field that changed is set and reported by itself (`SetField`); on hub v3 the reading is
  one report. Either may fail. `EmitShutdown` is the power button, which also ends the
  polling. On hub v1 the SPI thread sees it (`SpiShutdown`) and the battery thread goes on,
  so there `shutdown()` is three steps, `CheckInitiated`, `RunCommand` and `SetInitiated`,
  of either thread, and `calls` says where in it they are. The other two hubs call it from
  their one polling thread, in one step. `HubBattery` picks the hub that `HubManager.connect` finds.
  `lowReads` is history.
* **ShutdownV1.** The same three steps by themselves, in the SPI and in the I2C thread,
  for the shortest trace to the second command.
* **PublishServer.** One action for each step between taking and releasing
  `_socket_lock`, for each publishing thread, for `start_listening` and
  `publish_pitopd_ready` in the main thread, and for `stop_listening` in its signal
  handler. A main thread whose handler runs takes no step until the handler is done.
* **AppLifecycle.** `mainPc` is the main thread's place in `App.start` and `main`,
  `appStopPc` that of each run of `App.stop` (the handler's, and `main`'s own after a
  failed start); `run` and `thread` the run flags and threads of the request server,
  the idle monitor, the peripheral manager and the hub. `JoinRaises` is `join` of a
  thread not yet started, and `StartRaises` an exception out of `App.start`, from the
  pipes, the state file or a transfer of the hub: either ends `main()`, and the process
  goes on for as long as one of its threads does. The request server's receive and answer are actions, since
  it is blocked in the one and uses the hub in the other.
* **AppMessages.** The two modules above with the steps that they share: `StartListening`
  is App's first step and the server's `start_listening`, `BecomeReady` READY=1 and
  `publish_pitopd_ready`, `StopServer` the end of App.stop and `stop_listening`. A worker
  publishes while its thread runs (the request server's while it answers), and a thread
  that waits for the socket's lock does not end, nor let App.stop join it. A signal may
  come at any step. `greeted` says that `publish_pitopd_ready` has been called, and
  `stopper` whose App.stop, the handler's or `main`'s own, is inside `stop_listening`: the
  lock is not reentrant, so a handler that has interrupted its owner waits for ever.
* **IdleMonitor.** A tick is the sensitive cycle. `CheckIdletime` is a cycle of the
  thread, `SetConfiguredTimeout` a client's request, `XprintidleFails` the end of the
  thread, `Restart` pi-topd's end and next start, which finds the timeout in the state
  file and takes the screen for lit. `harmless` is history: no new timeout has yet had
  the last reading between itself and the old one, no restart has found the screen dark.
* **HubBacklight.** `register` is the hub's byte, `state` the copy in `State`, `copy`
  what a thread has read and not yet written back, `todo` the changes a thread still
  has to make. Reading and writing are separate actions for every thread. A poll reads
  the byte, sets State and runs the lid's callbacks.
* **HubSpiV1.** `queue` is `queued_changes`, `byte` the byte under way, with its real
  eight bits and both parities; `Begin` takes a change from the queue and sets State,
  `Exchange` transfers it, `Sync` is the second reading of the state. The link is full
  duplex and the answer is the hub's state from before the byte, so that of a byte with a
  change sets State back, and the next byte carries all of State. After `End` other
  threads send their own changes (`by`). `asked`, `sent`, `told` and `known` are history:
  the change queued last, those sent last of either kind, which kinds the hub has told of
  since, and the levels the screen has had.
* **HubPollV3.** One action for each stage of `_poll_hub`, `TransferFails` for an
  exception in any of them, `Check` for `check_button_pressed_recently`, `Head` for the
  head of the loop. `sincePress` is history.
* **OledControl.** Threads: main (App.start), poll, request, and one for each request
  for an SPI bus. `copy` as above. `Choose` to `Send` is the way of a new bus: Raspberry
  Pi, State, publication, hub, reset of the screen. A transfer that fails in App.start
  ends the main thread and nothing else: the polling goes on.
* **PeripheralManager.** `Scan`, `Purge` (one index of the loop that removes from the
  list it runs over), `Enable` and `Pass` are the thread; `Speaker` and `PulseWithI2S`
  are the set-ups as functions from boot files to boot files, a result and the wish
  for a reboot. `Reboot` lets boot files take effect, `Restart` is a service that
  starts without one.

* **StateFile.** `memory` is `config_parser`, `disk` the file. A set is three steps under
  the lock: `Set` changes memory, `Truncate` is the `open`, `Save` the write. `Start` is the
  read at import, `PtPoweroff` the other process's look at the file and its message to
  the hub, `Kill`, `PowerFails` and `Boot` end and begin everything. The code neither
  flushes nor syncs the file: `versions` has the contents that it may have after a power
  failure, which grows with each truncation and write and shrinks to the last one when
  the kernel writes the file back (`WriteBack`) or an orderly end unmounts it. `kept` is
  history: what the ended sets have left, unless the disk may have lost it.
* **BootConfig.** `file` is the sequence of lines of `config.txt`. `Load` and `Lines` are
  the parser's load and write; `Commented` and `Added` the edits of the overlay, `Driven`
  that of the HDMI drive, `CurrentOverlay` the look at the file and, failing that, at the
  device tree. `Check` decides as a speaker's set-up does, `OpenFile` and `WriteFile` are
  the two halves of a write. `onDisk` and `WrittenBack` are to it what `versions` and
  `WriteBack` are to the state file. `Crashed` is the end of the process, `PowerCut` that
  of the machine. `asked` counts the reboots asked for, `torn` remembers that one of these
  has left the file empty, `cuts` counts them, a power failure twice. A file of which only
  a part has reached the disk is taken for an empty one.
* **Files.** Both through the same crashes, boots and shutdowns; the peripheral
  manager's thread is in one file at a time.

Abstracted everywhere: the contents of messages and notifications, log lines, sleeps
(except in IdleMonitor), and register addresses. Atomic everywhere: a transfer of one
register, an access to one Python attribute.


## 3. Runs

All runs finish with two workers in about two minutes or less each.

| run | question | states | properties |
|---|---|---|---|
| `power_policy` | Does the policy, for every sequence of reports, requests and devices, shut down once, exactly with the fifth low report in a row, and not starve the warnings? | 901 000 | OneShutdownCommand, NeverLate, NoWarningStarved, ShutdownOnlyWhenVerified, ImplementsSafeShutdown |
| `battery` | Does it still with the thread of each of the three hubs in front, with mixed reports and failed reads? | 586 000 | StoppedForShutdown, PolicyUpToDate, VerifiedByReads, ChangingLowBatteryShutsDown |
| `hub3_steady_low_battery` | Does every low battery end in a shutdown? *No.* | | SafeShutdownOnLowBattery |
| `hub1_shutdown_twice` | Is the command run once on hub v1? *No.* | | OneShutdownCommand |
| `app_stop` | What does a signal at any step of start, loop and stop leave behind, with three threads that publish? | 8 432 | OneUserOfTheSocket, NeverSendsOnClosedSocket, SilentUntilReady, HubOutlivesItsUsers, StopEnds |
| `idle_monitor` | Is the screen dark for an inactive user, and only then, through restarts? | 31 168 | DimsWhenInactive, DarkOnlyWhenInactive |
| `hub2_backlight` | Do four threads that overwrite each other's bytes, and the lid, end well? | 354 000 | StateCatchesUp, LidFollowed, StoppedUnblanked |
| `hub1_spi` | Does the same hold of the queue of hub v1 over a bad link? | 921 000 | LastChangeWins, OtherChangeStays, StoppedUnblanked, BrightnessIsKept, StateCatchesUp |
| `hub3_poll` | Is a button ever starved, the fast polling ever too long? | 7 180 | FastAfterPress, ButtonsAreKnown |
| `oled` | Do register, State, Raspberry Pi and clients agree on the bus in the end? | 96 000 | StateSettles, BusIsEnabled, RequestIsMet, ClientsKnowBus, UnexpectedIsReverted |
| `peripherals` | Does the list end as the bus is, in at most four reboots? | 892 000 | FourReboots, ListIsAttached, AttachedIsListed |
| `files` | Do settings that have reached the disk survive restarts, crashes and power failures, is the hub told of a shutdown, is every `config.txt` edited to the end and no more than needed? | 427 000 | NothingForgotten, HubIsTold, RebootsBounded, OthersKept, SetupEnds |

Two runs end in a counterexample; both are findings:

* `hub3_steady_low_battery`: `State` reports only what differs from the last reading
  (`pthub3/pthub3_state.py:145`, and each field likewise in `pthub2/pthub2_state.py`).
  A low battery whose readings stay equal advances the counters once, or not at all
  if it was first read before the device was identified; the machine is not shut
  down. `power_manager.py:13`: "Handles safe shutdown when the hub is communicating
  that its battery capacity is below a threshold". `battery` shows the other half:
  readings that go on changing do end in a shutdown.
* `hub1_shutdown_twice`: `shutdown_initiated` is set after the command
  (`power_manager.py:198`) and two threads of hub v1 call it, so both pass the guard
  that logs "Shutdown already initiated" (`power_manager.py:191`).

### Bounds, and why they are enough

* `power_policy`: the thresholds and the five reads are the code's; one capacity for
  each threshold and one above them (comparisons with thresholds are all the code does
  with them). Devices with a battery, without one and unknown. Nothing else is
  bounded: counters stop at five by themselves, and `commands` saturates at 3.
* `battery`: a capacity that is low, one where charging is over, and 100, which hub v2
  treats apart; times and powers that distinguish a change from none. The power -1,
  which `app.py` reads as "undefined", is left out of `MCWattage` (see section 6).
  `Period = 2` polls instead of 20 still has polls with and without a reading. Hub v1's
  powers are the charging ones, as its code computes no other. `commands` saturates at 3,
  one more than `StoppedForShutdown` allows hub v1; the other hubs are held to one.
* `hub3_steady_low_battery`: two reads, two capacities; the counterexample needs no more.
* `app_stop`: the main, the hub's and the request server's thread publish, the other two
  only run; the theorems are for any set of publishing threads. One signal, at any step of
  the main thread; a second one, inside the handler of the first, is not modelled. In
  three cases the process does not end, and `StopEnds` names them (`LeftWithItsThreads`,
  `StoppedTooEarly`, `WaitsForItself`): see section 6.
* `idle_monitor`: timeouts off (0), shorter than a cycle, in between and longer than a
  cycle; idle times up to past the longest timeout and a cycle.
* `hub2_backlight`: brightness 0 to 3 of which 0 to 2 are the program's, so that a
  register above the program's range occurs; two requests, callbacks or warnings and
  two movements of the lid. Any two of the four threads can thus interleave all their
  reads and writes, with the stop as a third.
* `hub1_spi`: four scenarios, since the whole product is too large: a link that tells
  the device's id now and then, with two changes and one movement of the lid, and the
  other way round; a link that loses and garbles two bytes; a link with a transfer that
  raises, each with one change and one movement. With two changes, and the lid's and the
  stop's, one is set back in State while others wait in the queue. Brightness 1 and 10, the
  lowest and the highest; each byte has its eight bits. Screens are lit at the start.
* `hub3_poll`: one button besides the power button, periods 2 and 3 instead of 20 and
  50, and a limit of 3 for the fast loops. Periods that are coprime let every stage
  be due together with every other and alone.
* `oled`: four scenarios: one bus request and one control request by clients; a bus
  request and a failing transfer of the running system; the same with the failure
  anywhere in the start; no bus request, one for control, and a hub that changes
  the bus by itself twice. One bus request at a time: see section 6.
* `peripherals`: all four peripherals of the source in its order, on each of its three
  hosts, from every combination of boot files; two changes of the bus, so that a
  change can meet a pass over an earlier one, one restart and one failing set-up. The
  properties about the end need the bus to come to rest, which the bound gives.

* `files`: every `config.txt` of up to two lines over nine kinds of line (two tags, both
  overlays, on and commented out, both drives, another setting), through four boots;
  five longer files and the empty one with one crash or power failure at any step; the
  empty file with a set of each thread and one shutdown without need, and with these
  either a crash or power failure or a move of the card to another pi-top. One timeout is
  enough, since it is set once. The kernel's writing back is a step of its own only as
  long as the power may still fail. The longer files are those where the parser's rules
  meet: an overlay in another section, repeated sections, several lines of the same overlay. Four
  boots are as many as any of these files needs without a crash.

Deadlock is checked in `power_policy`, `peripherals`, `idle_monitor` and in
`hub1_shutdown_twice`; the others stop rightly, when the process has ended, the hub was
stopped or all the bounded events have happened. A stop that hangs would violate
`StopEnds`.

### Fairness

Weak fairness of each thread's next step is what the operating system's scheduler
gives. Strong fairness stands where the step depends on something that comes and
goes, and the code retries for ever:

* taking a lock (`AppMessages`): a lock that becomes free again and again is got
  once; Python's locks give no order, but none of the holders waits inside for long.
* a reading that fails now and then (`HubBattery`, `HubBacklight`, `HubPollV3`): the
  polling thread logs the failure and polls again, and liveness is claimed of a hub
  that answers some of the time. No fairness makes a hub answer always, and a battery
  that never answers again, which keeps hub v3's buttons unread, is assumed away.
* the end of a worker's thread after its flag was cleared, and the request server's
  after its socket was closed (`AppMessages`): the thread comes back to its loop's test
  again and again, the receive times out; and the answer to a request, which a stopped
  publishing server delays but does not end.

The device is identified in the end (`battery`, weakly): App waits five
seconds for it and goes on without, and a service that has not identified its device ends.
There is none on clients, users, lids, buttons, plugs, signals, failures or the
hub's own changes. In OledControl a hub does finish the reset that it was asked for;
in Files the system goes down and boots again, within the bound, when the user was asked
to reboot.


## 4. Proofs

TLAPS proves, for all values of the constants that satisfy the named assumptions
(`ThresholdAssumption`, `IdleAssumption`, ...), which TLC evaluates in the runs:

| module | theorems | argument |
|---|---|---|
| HubBatteryProofs, on PowerManager | Invariance, TypeCorrect, ShutdownCommandedOnce, ShutdownNeverLate, WarningsNotStarved, ShutdownVerified, WarningVerified, Implements | `PowerInv` |
| HubBatteryProofs, on the hubs | HubsKeepThePolicy, HubsShutDownSafely, PollingStopsForShutdown, PolicyFollowsReadings, ShutdownRestsOnReadings | `HubInv`, `Paced`, step simulation |
| AppMessagesProofs | SocketHasOneUser, SendsOnOpenSocket, SilentBeforeReady, HubIsOpenForItsUsers, ServiceImplementsApp, ServiceImplementsServer, ServiceIsSafe | `PublishInv`, `AppInv`, step simulation |
| FilesProofs | StateInvariant, SetsAreKept, RecordedHubIsTold, StateOfFiles | `StateInv`, step simulation |
| FilesProofs, on `config.txt` | RoundTrip, ConfigInvariant, OthersAreKept, RebootsAreBounded | induction over lines and sections, `ConfigInv`, `RebootsInv` |
| IdleMonitorProofs | InactiveScreenDims, ActiveScreenIsLit | `IdleInv` |
| HubBacklightProofs | StopLeavesScreenEnabled | `BacklightInv` |
| HubPollV3Proofs | FastPolling | `IInv` |
| HubSpiV1Proofs | ChangeIsTaken, BrightnessKept, LastChangeWinsAlways, OtherChangeStaysAlways, StoppedUnblankedAlways | `LevelsAreKnown`, `LinkInv`, `StopInv` |
| PeripheralManagerProofs | FourRebootsSuffice | `IInv`, with `Debt` |

Why each needs a strengthening:

* `PowerInv`. "The shutdown comes with the fifth low report" is not inductive: it says
  nothing of the counters. `CountersMatchReports` says that a counter is the length of
  the series of low reports that ends now, `ShutdownMatches` that the flag and the
  number of commands agree and that a full counter has shut down. For the warnings,
  `CriticalSlot` and `WarningSlots` say that an overdue warning is overdue because a
  more severe step has had its place in the `elif` chain, which each such step has but
  once; so the delay is one report for each more severe level. `Implements` maps
  `counter["shutdown"]` and `shutdownInitiated` to SafeShutdown's two variables and each
  action to one of its steps or a stutter. The proof is for every threshold that is
  ordered as the code's are, and every number of reads.
* `HubInv`. Each step of a hub's thread is a step of the policy or leaves it alone, so
  what was proved of PowerManager holds behind it (`HubsKeepThePolicy`). That is so of hubs
  with one thread that calls `shutdown()`; `HubsKeepThePolicy` and `HubsShutDownSafely` assume
  that `Hub` is without v1, where two threads do and the command may be run twice, which no
  behaviour of the policy does. `PollingStopsForShutdown` is about all three, and says of v1
  that it is run at most twice: once a thread has passed the test it runs the command once,
  sets the flag, and after that neither passes again. For
  `PolicyUpToDate` the invariant says at each stage of a reading which of its fields State
  has already taken, and that the policy knows State whenever all of State is defined.
  The theorem assumes that -1 is not in `Wattage`: State takes a power of -1 for an undefined one
  (`app.py:270`), does not report it, and the policy then keeps the reading before.
* `Paced`. That a shutdown rests on readings needs the count of reports held against the
  count of readings at every stage: one reading of the first two hubs is up to four
  reports, and a reading half set may be reported low though neither it nor the one before
  is. Such a report counts once at most, since the charging state is set first and a
  battery that was charging has just had its counter reset; by the end of the reading
  the counter is 0 again. Assumes `Reads >= 2` for that, and -1 not in `Wattage`.
* `PublishInv`. `LockHeldInside`: who is inside holds the lock. `ClosedInStop`: the
  socket is closed after `_shutting_down` was set, under the lock, so the second test
  in `_send_message` decides. `CheckedIsReady`: who has passed the first test has seen
  `emit_messages`, which is set after READY=1. It is proved for every number of threads.
* `AppInv`. That the hub outlives its users rests on the order of two orders.
  `StartedInOrder`: what the main thread has reached tells what it has made (no request
  server before the hub). `ClosedInOrder`: whoever is past the request server's join in
  App.stop has closed its socket, which is never bound again, so a start that goes on
  after a stop serves nobody; the hub is closed only with its thread joined. Exceptions
  out of App.start and out of App.stop are steps like the others.
* `ServiceImplementsApp`, `ServiceImplementsServer`. The composition is shown to implement
  each of its two parts, step by step: each of its actions is a step of the part or leaves
  the part's variables alone. `ServiceIsSafe` then takes over what was proved of the parts,
  with no invariant of its own.
* `StateInv`. "What was set is in the file" is not inductive: a set writes all of memory.
  `MemoryIsRight` says that memory has what the ended sets have left, but for the entry
  under way, `FileIsRight` that the file is empty while it is truncated and right
  otherwise, `WritesWhenUp` that nobody writes before the file was read or with the
  machine off. After a power failure that found something not yet written back, what was
  kept is what the disk has: an ended set may be gone, and `NothingForgotten` says so.
  Without bounds on sets, crashes, boots and moves.
* `ConfigInv`. Whatever is in `config.txt` or about to be written to it has what survives of
  the first file, and all of the first file's other settings or just those (`Good`); so has
  every version of it that a power failure may leave, but for the empty one
  (`WhatIsWritten`). A crash keeps it because the plan is lost with the process, and nobody
  edits unless pi-topd serves (`EditsWhenUp`, which needs `StateInv` for the machine that is
  off). The work is in what
  the operators compute, for every sequence of lines. `LoadKeeps` goes along the parser's
  loop: the sections it has closed hold the settings that are not followed by their own
  section once more, the one it is reading holds the rest, so a load loses exactly what
  `Survivors` leaves out. `Apart`: two loaded sections of one name are never neighbours,
  unless they are [all]; so what is written has no such neighbours either (`NoRepeat`), and
  the next load loses nothing. `AlikeKeeps`: files that differ in overlay and drive lines
  only have the same other settings, in the same sections. Assumes that no section is
  named as an overlay or a drive and that every file consists of lines
  (`ConfigAssumption`).
* `RebootsInv`. The bound on the reboots for `config.txt` is not inductive: the number that
  was asked for says nothing of what is left to do. `Left` is the number that may still be
  asked for, and the invariant says of each file, and of each plan to be written, that
  `Left` reboots are `Enough` for it: one for the drive only, if the overlay is switched;
  two or three, for overlay and drive, if the other overlay is not in the way; else one
  for each line of fkms in the section of [all] that has most, since a switch comments out
  the first of each section, and one for the drive (`CommentedMost`). The third is needed: the drive may be set
  twice, when a switch loses it with a repeated section. Between the two edits
  of a switch it is `EnoughOnceAdded`. What is tested is what the parser finds, so under
  this is what a load finds again of the sections that were written (`LoadsBack`), and
  that the drive changes nothing that the overlay's test sees (`LoadFinds`, `DrivenFinds`). A
  crash costs one more reboot: it leaves the file as it was, between the two edits of a
  switch, or empty, and an empty file has nothing to switch. A power failure costs two: it may
  also take back the edits made since the file was last on disk, and with them a reboot that
  was already asked for. So each version that it may leave is held to the bound with one
  reboot more, two while a reboot is due (`Slack`, `DiskIsEnough`, `OnceAddedIsEnough`). TLC shows that with one for a power failure the bound
  does not hold.
* `RoundTrip` is the claim of `src/tests/test_config_parser.py:89`, with the two conditions
  under which it is true.
* `IdleInv`. The screen is on the side of the timeout on which the *last reading* is,
  and the true idle time has moved from that reading by no more than the time since,
  or was reset; as long as no new timeout has crossed the reading and no restart has
  found the screen dark. The assumption
  wants each timeout to be 0 or at least the sensitive cycle.
* `BacklightInv`. Once the stop's unblank was written the screen is enabled, or the lid is
  closed, or the polling thread still has an unblank to write; and once the stop was
  begun nobody else is left with a change. Assumes `Faulty` within {request, idle},
  that is, that the stop's own transfer and those of the lid's callbacks succeed.
* `IInv` (HubPollV3Proofs). The counter of fast loops is one more than the loops since the
  press, and the polling is fast just while these are below the limit (`CountFollows`).
* `LevelsAreKnown`. Every brightness in the hub, in State, in the queue and in the byte
  under way is one that the screen had or that was asked for (`Possible`); before the first
  answer counts the screen has not been blanked. Only `BrightnessKept` assumes
  `Starts = {FALSE}`, a screen lit when the service starts (see section 6); without it the
  invariant says that these are brightnesses at all, which the next two need. The lemmas under it are about bytes: `BitsCarry`, `ReportTells` and
  `ChangeIsTaken` say that encoding, parity and decoding agree for all levels.
* `LinkInv`. That the hub has the change queued last is known only when the queue is empty
  and nothing is under way. `AskedIsMet` says where it is before (`Met`): it is the last of
  its kind in the queue; or none of its kind is queued and State has it as wanted
  (`Target`), and the hub has it or the byte under way carries it (`Carries`). The answer
  of a byte sets State back to what the hub had *before* the byte, so State loses a change
  for a while that the hub has. `ToldIsKnown`: of a kind that the hub has told of since it was
  sent, State and hub agree again, so a byte for the other kind carries it too
  (`SentStays`). A failed transfer empties `asked` and `sent`; nothing is assumed of the
  levels, the number of attempts or which of the failures occur.
* `StopInv`. Once the main thread has queued its unblank, every blanking that is queued or
  under way is an unblank (`EndsLit`), unless State has the lid closed: request and idle
  threads are done by then (`StopsInTurn`), the battery's thread only unblanks, and a lid
  seen open queues an unblank. A thread that ends its loop with its queue empty leaves the
  hub unblanked; what is queued after its last look is sent by others, or not at all, and
  is not covered.
* `Debt` (PeripheralManagerProofs). The bound on reboots is not inductive: nothing in it
  says why the last one is the last. `Debt` counts the reboots to come, one each for a
  reboot that is due, a sound card that is not configured, an HDMI drive that is not set and
  boot files that do not have the rest of what the peripheral wants (`Settled`). A set-up
  asks for a reboot only when it pays one of these, and no step makes a new one: a session
  sets up only one audio peripheral, the first on the bus that the host knows (`First`,
  `Session`), so no second one undoes what the first has settled. Hence
  `reboots + Debt <= 4` once a reboot has been made since the last plug. Rests on
  `AddressAssumption`: the audio peripherals exclude each other and the first speaker,
  whose set-up may fail, has the last address.

Only model-checked: everything under fairness (`StopEnds`, `ChangingLowBatteryShutsDown`,
`StateCatchesUp`, `LidFollowed`, `ButtonsAreKnown`, `ListIsAttached`, `AttachedIsListed`,
`SetupEnds` and all properties of `oled`), which is out of the prover's reach. Every
invariant that a run checks is proved.


## 5. Not modelled

* Notifications: each message is one call of `notify-send`, made and answered in one
  function. The id of the battery's message is the only state, and nothing else reads it.
  See section 6 for what becomes of it.
* The twenty attempts of hub v1's battery reader for each value (`pthub/pthub_i2c.py`) are
  one step that succeeds or fails; its voltage, which goes nowhere but into the power,
  is part of that step.
* Of the config parser, `remove` and `cleanup`, which the program never calls. Of
  pt-poweroff, the bytes and registers that inform the hub.
* The request server's table from messages to callbacks: one straight line for each.
* Pipes, plain accessors of single registers (fan, serial numbers, display), ALSA's
  output: input and output without state.
* Packaging. What the units say of restarts and of the order at a shutdown is used in
  AppLifecycle and StateFile.


## 6. What the modelling showed, and the limits of the runs

Some things that one would like to hold do not, and no document of the repository
promises them; no run claims them, and the bounds named here keep them out.

* A signal that finds the main thread inside `start_listening` or
  `publish_pitopd_ready`, or inside its own `stop_listening`, waits for a lock that this very
  thread holds (`server/publish_server.py:49`), for ever. `WaitsForItself` in `StopEnds`.
* A signal between the creation and the start of the idle monitor's thread makes
  `join` raise out of the handler (`idle_monitor.py:38`), and the threads of the
  peripherals and the hub go on with nobody to stop them. `LeftWithItsThreads`.
* An exception out of `App.start` (`app.py:99-109`, `pthub3/pthub3.py:56-57`, the state file)
  ends `main()` with a traceback and nobody calls `App.stop`; the polling thread, which is no
  daemon (`pthub3/pthub3_connection.py:38`), keeps the process alive, without READY=1 and
  without a request server, until a signal comes: systemd's start timeout (`Type=notify`) or
  a shutdown. `AppLifecycle` has it (`StartRaises`), and `StopEnds` claims that a signal ends
  such a process too; except that a signal that was served *before* the polling was started
  stops nothing that comes after it (`StoppedTooEarly`).
* A new idle timeout below the last reading, or switched on after it, does not dim the
  screen; one above it, or switched off, leaves it dark until the next input
  (`idle_monitor.py:103` compares the old reading with the new timeout). The properties
  of `idle_monitor` are claimed up to the first such change. In the same way a pi-topd
  that is started again on a dark screen takes it for lit (`idle_monitor.py:18`), and input
  does not light it before it was dimmed once more.
* Hub v2: a brightness once set may be undone by another thread's write
  (`pthub2/pthub2_connection.py:168`). The stop unblanks while the polling goes on
  (`hub_manager.py:87`), so a lid that is seen closed then leaves the screen dark. The
  comment above it (`hub_manager.py:81-82`) says "unblank the screen and set it to full
  brightness": the code only unblanks, with every hub, and a screen whose brightness was set
  to 0 is left enabled and dark. `StoppedUnblanked`, of hub v2 and of hub v1, claims what the
  code does.
* Hub v2: up to four reports come of one reading (`pthub2/pthub2_connection.py:304`), so
  the "five reads" of `power_manager.py:16` may be two; `VerifiedByReads` claims that
  many.
* Hub v3: a power of -1 is a valid reading and also the mark for "undefined"
  (`app.py:280`, `pthub3/pthub3_connection.py:738`): such a report is dropped.
* Hub v3: the battery's period is counted in polls, which are shorter while the polling
  is fast (`pthub3/pthub3_connection.py:703-704`).
* Hub v3: the first reading of the OLED register overwrites or keeps the bus of State
  depending on how far `App.start` is (`pthub3/pthub3_connection.py:769-783`, `app.py:99`);
  a start with a failed transfer can leave the bus of the hub disabled on the Raspberry
  Pi and unknown to the clients, which is why three properties of `oled` are claimed of
  starts without. Such a failure ends the main thread and not the polling, which still brings
  State and register together (`StateSettles`, claimed of every start). A write back may
  clear the control bit (`:195`). Two concurrent bus
  requests (`server/request_server.py:213`) can leave the hub on a bus that the other
  has just switched off.
* Hub v1: an exception ends the SPI thread (`pthub/pthub_spi.py:556`); a service restarted
  on a blanked screen takes brightness 0 for its own (`:297`). Threads that send their own
  changes after the SPI thread's end are taken one at a time.
* Hub v1: a change queued after the SPI thread's last look at the queue stays there (`:161`,
  `:492`), and can leave the screen blanked after a stop: `StoppedUnblanked` is about what
  that thread leaves.
* Hub v1: the link is full duplex, so the answer of a byte with a change tells the state
  before it, and State is set back to that (`:148`, `:383-390`) although the comment says that
  it syncs states; the next byte carries all of State. Two changes in a row on a screen, an
  unblank and a brightness, thus leave it blanked, and a brightness set on a blanked screen is
  lost at the next unblank. `LastChangeWins` claims it of the change queued last alone,
  `OtherChangeStays` of a change of the other kind that the hub has told of in between.
* Hub v1, battery: what `initialise` reads first is in State before anybody listens, so a
  battery that does not change from then on is never reported. As long as the time was
  never read no report passes `app.py:280`, although `pthub/pthub_i2c.py:109` calls the
  time not essential. `stop` and `shutdown` of the two threads are separate: a shutdown
  request does not end the battery's thread, and the two may run the shutdown command twice
  (`power_manager.py:191-198`), the second finding of section 3.
* State file: a crash between the truncation and the write (`state.py:42`) loses all
  entries, not only the one that is set; and since the file is neither flushed nor synced
  (`:41-43`), a power failure may take back a set that has ended, or leave an empty file,
  until the kernel has written it back. `NothingForgotten` and `HubIsTold` exempt both. A
  start that finds no hub, or one that does not tell its id, records "unknown" over the
  id of the last start (`app.py:79`), and a shutdown then informs no hub; `HubIsTold` is
  claimed of a hub that is recorded.
* `config.txt`: as little synced as the state file (`config_parser.py:130`, `sys_config.py`): a
  power failure may take back an edit that has ended, which costs a reboot more, or leave an
  empty file. `OthersKept` exempts the empty one (`torn`). A section that follows one of the same name, other than [all], replaces it
  on loading (`config_parser.py:76`), and a tag that ends the file is dropped: a load and a
  write lose them. `src/tests/test_config_parser.py:89` has "Reading
  a file and writing it back should result in the same file"; its files have no such
  sections. `OthersKept` exempts them and shows that nothing else is lost. A new drive
  is appended below whatever section is last (`sys_config.py:455`), and an empty file
  never gets one, since the line is made up in the loop over the lines (`sys_config.py:439`).
  With several lines of fkms in one section the machine is rebooted once for each, and once
  more for the drive, which is the bound of `RebootsBounded`.
* Notifications: every message replaces the one with the battery's id
  (`notification_manager.py:67`) and leaves the id as it was, so the end of the battery's
  warning closes the message that came later, and a warning may be replaced while it is due.
* pt-poweroff on hub v1: `resp & MASK_BRIGHTNESS >> 3` (`poweroff.py:89`) shifts the mask and
  not the answer, so the brightness sent with the shutdown is not the screen's.
* A speaker replugged before the reboot it asked for is marked as ready without I2S
  (`ptspeaker/ptspeaker.py:184`).
* `__main__.py:34` exits with 0 when an internal service has failed, and
  `__main__.py:21` sends STOPPING after the clean-up; `src/debian/changelog` (lines 327
  and 329) can be read otherwise.
* A request for the lid's state always answers 0: `app.py:190` returns 1 and
  `server/request_server.py:163` tests `is True`. `pthub3/pthub3.py:81` always answers 16
  for the brightness. Both are constants and have no property.


## 7. Plan

Done, in the order in which a fault would hurt: the low-battery policy and all three hubs
in front of it; the stop of the servers and of App, together; the screen (idle monitor, hub
v2, hub v1); hub v3's polling and miniscreen; the peripherals; the files.

What would come next:

1. What of OledControl is safety, stated and proved.
2. OledControl with the stop: the threads of bus requests are joined by nobody.
3. The notifications, if the id gets a meaning for other parts.
