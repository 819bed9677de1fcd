# Freeway Pi: specifications, model checking and proofs

Freeway Pi is a Raspberry Pi that controls one ventilation unit over a serial Modbus line,
shows it on a local web page, shares the line with other Modbus masters over TCP, keeps a
history, sends notifications, and looks after its own network, clock and updates. This
directory holds TLA+ modules of the parts where order, concurrency, failure and time decide
whether it works, the TLC configurations that check them, and proofs that TLAPS checks.

Every definition is translated from the Go and shell sources; `PROJECT.json` says from which
lines, and which configuration goes with which module. Run a configuration with
`tlc -config Gateway.cfg MCGateway`, a proof with
`tlapm BusProofs.tla`.

Sections: 1 the system; 2 modules and runs; 3 proofs; 4 what the code does not keep; 5 bounds;
6 what is not modelled.

## 1. The system

One process, `freewayd` (cmd/freewayd/main.go), with goroutines that share memory; a root
helper, `freeway-helper`, started by systemd for one request per connection to a socket; a few
shell scripts at boot and installation.

```
 browser --HTTP--> web ---> control.Unit ---> bus.Bus ---> modbus.Client ---> serial.Port --- unit
                    |            |              ^   ^
                    |            v              |   |
                    |        bus.Poller --------+   +---- gateway.Server <--Modbus TCP-- Homey, ...
                    |        (snapshot)                     (ACL, Breaker, Resolver)
                    |            ^
                    |            +---- notify.Watcher --+
                    |            +---- store.Recorder   +--> notify.Notifier --> webhooks, mail
                    |      power.Watcher, WatchReboot --+
                    +--unix socket--> freeway-helper: network, wifi, ssh, apt, power, time
```

| Component | State it keeps | Operations | Meets | What makes it correct |
|---|---|---|---|---|
| bus (`internal/bus/bus.go`) | three queues, closed flag, counters, fault state | `Do`, the goroutine's loop, `Close`, `Stats` | every caller of the wire | one job at a time; a job has one fate and its caller learns it; commands first; nobody starves or waits for ever |
| poller (`internal/bus/poller.go`) | published snapshot | pass, `Reread`, `Refresh`, `Close` | bus, control | a swap loses nothing; what was not read is marked; the snapshot catches up |
| control (`internal/control`, `internal/web/control.go`, `internal/eda/command.go`) | line-unstable flag, clock sync, timed mode | `Apply`, `State`, `SyncClock` | web, poller, bus | success means written; the answer reflects the writes; one mode at a time |
| gateway (`internal/gateway/server.go`, `acl.go`) | listener, connection table, access list | accept, serve, `SetACL`, listen/stop, `Close` | clients, web, bus | off is closed, on listens, the list decides who is served, shutdown ends |
| breaker (`internal/gateway/breaker.go`) | failures in a row, `retryAt` | `Allow`, `Record` | gateway | one probe at a time; recovers |
| resolver (`internal/gateway/resolve.go`) | names with expiry, lookups under way | `Name` | gateway page | one lookup per address |
| Modbus client, serial port | last exchange, file descriptor | exchange with retries and draining, `Reopen`, `Close` | bus | an answer belongs to its request |
| authentication (`internal/auth`) | PIN verifier, nonces, attempts, lock | challenge, verify, change PIN | web, config | a nonce works once; locks end; a changed PIN ends sessions |
| notifications (`internal/notify`) | raised conditions, channels, threshold | `Raise`, `Clear`, `dispatch`, `SetChannels`, the watcher's check | poller, web, outside world | one message per condition, an all-clear for what was announced |
| power and restart watch (`internal/power`, `internal/hostctl/reboot.go`) | undervoltage count, two tickers | sample, tell, drain; poll, restart | helper, notifier, recorder | events are not lost; the restart is announced and on time |
| history (`internal/store`) | tiers of samples | record, roll up, prune, query | control, power | nothing twice, nothing lost before it is rolled up |
| configuration (`internal/config`, `saveConfig` in main.go) | one JSON file | load, change, save | all pages | no update lost |
| network, wifi, ssh (`internal/netconf`, `packaging/freeway-helper`, `freeway-unwind`) | saved settings, transient timers, profiles | apply, confirm, revert; open, expire | NetworkManager, systemd | a box that becomes unreachable comes back |
| updates (`freeway-helper`, `internal/system`) | one background apt job | start, follow | apt, systemd | one job; its end is told |
| daemon start and stop (main.go) | order of defers | - | all | shutdown ends |

What is hard here: callers that leave while their job is queued or running; `select` choosing
between a closed bus and a free queue; a snapshot read before a write and used after it; two
parties writing the same coils, one of them the unit's own panel; partial passes; a listener
stopped while a connection is on its way in; half-open probing; conditions raised and cleared
while the settings change under a message being sent; changes of address with the power cut
between any two commands of a shell script; failing commands under `set -e`.
`PROJECT.json` lists these hazards by line, with the properties that would catch each.

## 2. Modules and runs

One module per component, with its state as variables and one action per operation, critical
section, exchange on the wire or command of a script. MC modules hold the instances, `.cfg`
files the constants and what is checked. Every module's `TypeOK` holds in its run's instance;
those of Bus, UnitControl and Gateway are part of `BusSafe`, `UnitSafe` and `GatewaySafe`.

| Run | Modules | Instance | Distinct states |
|---|---|---|---|
| bus | Bus, BusService | two callers, one with a deadline; every kind of priority; queues of one; reopening after one failure; Close | 187,000 |
| unit | UnitControl | two modes, two durations, a request of each kind, a panel, failing exchanges | 336,000 |
| unit_half_done | UnitControl | the mode buttons, failing exchanges; expects a violation | |
| gateway | Gateway | three connections, two machines, a table of two, one settings request after another, sockets that fail, Close | 123,000 |
| breaker | Breaker | two clients, the code's threshold, cooldown and timeout, a unit that comes and goes | 9,800 |
| net_revert | NetRevert | three settings that work, of which the revert refuses one, one that does not, two helper processes, two power cuts | 364,000 |
| notify | Notify | one channel, one alarm, one other condition, two thresholds, a wait of a tick | 374,000 |
| history | History | three tiers, nine buckets, one metric of the unit and one of the box | 166,000 |
| auth | Auth | two PINs, two challenges, a form, restarts | 127,000 |
| line | Line | three requests of three shapes, two attempts each | 3,200,000 |
| unit_state | UnitState, UnitPages, Eda | two callers of `State`, two timed modes; three requests of the pages | 52,000 |
| box | UnitClock, Power, Reboot, SshDoor, WifiRevert | see below | 291,000 |

`unit_state` and `box` hold components that share no variable. `part` picks the one that moves
in a behaviour, and the others stay as they begin: their state spaces are explored one beside
the other, which is what a product of independent parts comes to for properties that each
speak of one part.

`CHECK_DEADLOCK FALSE` stands where the system may really stop: a closed bus or gateway, or a
model that has used up a bounded number of requests, readings or power cuts. Breaker,
NetRevert, Notify and UnitControl never stop.

### Bus, BusService (internal/bus/bus.go)

*State.* `queues`, `closed`, `done` (the one-place channel of each job), `counted` (what
`record` counted), `worker`/`current`/`outcome` (the goroutine), `consecutive`, `reopens`,
`reopenFailed` and the last two journal lines (the fault). `pc` is where a caller is inside
`Do`. *Actions.* One per `select` or locked section: entering `Do`, the closed check, the
three-way select that queues, the select that waits, the three nested priority selects, the
context check before running, the run, counting, noting success or failure with `Reopen`,
answering, `Close`. A Go `select` with several ready cases is a choice.
`overtaken` is a history variable: how many jobs of lower priority were started meanwhile.

*BusService* is what `Do` promises without queues or goroutines: a function meets its fate at
most once, an answer tells that fate, `ErrClosed` tells that it has none and never will.
`KeepsItsPromise` is the refinement (`Service!Spec`), checked and proved.

The run checks that a job is in one place and no answer blocks the goroutine, that nobody is
overtaken twice, that the journal tells each fault once and truly (`BusSafe`), that a job is
counted once (`CountedOnce`), the refinement, that commands are not starved
(`WritesGetThrough`), and that `Close` and callers with a deadline come back (`CallsEnd`).
A queue of one place and two callers is what it takes to overflow, overtake and empty; one
failure is enough to reopen; priority 7 stands for one out of range, which `Do` takes as 2.

*Fairness.* Weak for the goroutine and for each caller's own steps: Go schedules runnable
goroutines, and a run on the wire is bounded by the client's timeouts. Strong for the select
that queues a job: its queue is a channel that is free again and again, and Go's channels hand
a place to the senders in the order in which they began to wait. `Expire` is weakly fair for
callers with a deadline.

### UnitControl (poller.go, web/control.go, control.go, eda/command.go)

The register map is cut down to the coils that select a mode and the duration of the timed
mode, in the two blocks the poller reads (holding registers, coils). One step is one exchange
on the wire, since the bus serves one job at a time, or one atomic load, compare or store of
the snapshot pointer. Requests decide from the snapshot (`Press`), write one register at a
time and re-read each (`WriteOne`, `Reread`, `LoadSnapshot`, `Swap`), and answer from the
snapshot (`Reply`); a pass fills a new one block by block and publishes it unless every block
failed (`EndPass`); the unit's own panel may change the mode at any time; exchanges may fail.

Checked: unread values are marked (`UnitSafe`), a timed mode starts on its own duration
(`DurationFirst`), a re-read publishes its own address and nothing else
(`RereadKeepsTheRest`), the snapshot catches up once nobody changes the unit
(`SnapshotCatchesUp`), requests are answered. Two durations tell one's own from a stale one;
two modes and "normal" make clearing the wrong mode possible. One request at a time in this
run: what does not hold with two is in section 4.

*Fairness.* Weak for the poll loop and a request's steps (a goroutine each), strong for reading
the coil block: the unit does not refuse it for ever, without which nothing could catch up.

### UnitState (control.go `State`, `link`, `unstableAt`; overpressure.go)

`State` is called by every page, the recorder and the watchers at once. It keeps what it has
learnt about the line in atomics that are loaded and stored one by one, and a count of the
timed mode behind a mutex; each load, store and locked section is a step of one of the callers.
`rate` is the band the error rate of the bus is in: below the lower mark, between, past the
upper. `dip` is a history variable, the ticks since a call found the rate below the mark.

Checked: the line is called unstable only by a call before which no other found it better for
the whole delay (`WarningIsEarned`), the verdict settles one way or the other
(`LinkSettles`), a countdown is its own mode's (`CountdownIsItsOwn`). A tick is about a
minute and no call of `State` takes one.

*Fairness.* Weak for the steps of a call and for calling again, which the recorder and the
watchers do at every turn of their clocks; calls end and leave room between them (`[]<>NobodyLooks`),
and whatever is still being counted is counted on (`SF_Counted(Tick)`: once all ages are past
what they are compared with, a tick changes nothing and is not asked for); strong for publishing
when the snapshot is stale, since passes that read something come again and again. Behaviours in
which the line is bad, or good, for good are among the fair ones.

### Eda, UnitPages (internal/eda, web/programs.go, settings.go, control.go)

Eda is the register map as pure operators, with the program's own addresses, ranges and
rounding: timer programs, alarms, named settings and the one that lives in two registers,
the clock, the setpoint, fans and the output ladder. Registers are sixteen bits wide (`Word`),
read signed where the program does. UnitPages lets people save, remove and set in any order on
a map full of neighbours, with values at and beyond every end, and a clock that drifts or is
lost, which `clockGuard` asks about.

Checked: after any requests everything a page shows is what was last accepted, to the nearest
step of its register (whole degrees or minutes for some settings, tenths for others; seconds are
not kept), and what was refused or belongs to another has not moved; the two copies of the
overpressure duration may differ until somebody sets it (`EverythingReadsBack`). Readings make
sense whatever the unit reports (`ReadingsMakeSense`), but for the ladder's lowest number, -32768:
it has no opposite in sixteen bits and shows as no cooling at all. What register 49 means the
sources do not agree on (section 4); the properties take it as `readOutput` does.

### UnitClock (control.go `SyncClock`, web/clock.go, main.go `keepClockInStep`)

A clock is its offset from the right time, and offsets that differ do so by more than any
tolerance. The keeper and a person may synchronise at once; each load, exchange, question
before a suspect write, comparison and verdict is a step. The box's clock is stepped and the
unit's runs away, and exchanges fail, `MaxUpsets` times in all. Checked: a unit that obeys is
called unsettable only by a try during which something else moved a clock
(`VerdictsAreEarned`), and a unit that obeys ends up in step unless the keeper gave up
(`StaysInStep`). *Fairness.* Weak for passes, the unit's own clock task and a caller's steps;
strong for the keeper's check, whose turn comes every few minutes for ever.

### Power, Reboot, SshDoor, WifiRevert (internal/power, hostctl/reboot.go, the helper)

*Power.* The kernel's lines about the supply in a ring buffer that other lines wrap around; the
watcher counts afresh at every beat and raises a condition that is over when all has been quiet
for `OverAfter` beats. `ConditionIsRight`: after a beat that could read the log the condition is up
exactly if a sag the watcher has seen, or one in the log, is younger than that or the log's last
word is that the supply is low, whatever has wrapped away meanwhile.

*Reboot.* Two tickers in one select, the flag of an update, the policy read afresh from the
file, or that of the start when the file does not load, a page that changes it, a clock that is
set, a restart that works or fails. Time is half a minute and a tick may be handled late by
`Slack`. `PromiseIsKept` has two parts. `GoneInTime`: a restart that was wanted as the chosen time
came, under a policy nobody has changed and a clock nobody has set since, has been tried before
the window is over, unless the time is so late in the day (23:59) that there is no room for a tick
that is late. `OnlyThen`: the box goes only when a restart is required and announced, in the
window and under the automatic policy that is in the file, or was at the start if the file does
not load.

*SshDoor.* The policy file, the deadline file, the firewall's chain, and one helper process per
request, whose commands are steps; the page, in two tabs, the minute timer, the units at boot and
the card ask, also at once, for nothing keeps helpers apart; any command may fail and the power
may be cut between any two. `broken` and `crossed` are history variables: a command has failed,
helpers have overlapped. `DoorIsAsSaid`: when no helper is at work, and one has ended well and
alone since the last that failed or overlapped, the port is open exactly if the policy says so or
an opening is running, and openings end. Right after an overlap it need not be (`OverlapsSettle`,
section 4).

*WifiRevert.* Leaving one wifi network for another, one command of the scripts at a time: the
file with the old network, the new one and whether its profile was there; the timer; the join,
which fails or is cut short and may leave a profile or no network behind; the revert, which may
refuse the old network's name or fail to delete the new profile, the confirmation, `wifi-forget`
and freeway-unwind after a power cut. NetworkManager does anything its answers leave open: a radio
without a network finds any it has a profile for, at boot too. `halted` is a history variable: a
revert has stopped short and left its file. `AirHasWayBack`: a box on a network nobody chose to
keep has the file that says where it came from, to a network that was kept, and a timer, a revert
or a helper at work, or freeway-unwind still to come; after a revert that stopped short only the
file, for the next boot. `Unhurried = TRUE`: nobody asks for anything on top of what is under way
or unconfirmed, which the page suggests and nothing checks. Without it the property fails.

### Gateway (server.go, acl.go, web/system.go)

Each section under `Server.mu` or `ACL.mu`, and each system call, is a step: a connection
is accepted, enters the table unless it is full, is refused or served by the list, and hangs up
or is severed; a settings request saves, sets the list, and starts or stops the listener;
`Close` takes the listener and a copy of the table, closes them and waits.

Listening may fail whenever it is tried, and an accept loop may end at any time (`AcceptFails`).
Checked: off listens nowhere and serves nobody; on listens, or the caller was told that it cannot
(`unbound`); the table is exact (all `GatewaySafe`); saving drops nobody who may stay
(`SavingDropsNobody`); and `Close` returns when no connection is on its way into the table as it
begins (`ShutdownEnds`). What off leaves of a gateway that could not listen when it was last turned
on, and a loop that has ended, are in section 4. Three connections make a ceiling of two
bite. The web server has stopped before the gateway closes (the order of the defers in
main.go), so no request is being handled when `Close` begins.
*Fairness.* Weak for connections that have been severed or not yet been judged, for requests
and for `Close`; none for a client hanging up, which is the client's affair.

### Breaker (breaker.go, `execute` in server.go)

Time passes in ticks of a second, with the code's defaults: 3 failures, 5 s cooldown, 4 s
timeout. A client gives up on its request after the timeout; a job that is still queued then is
dropped, one on the wire runs on with all its attempts, for as long as it likes, and is nobody's
(`orphan`). While a probe through an open breaker is on the bus no other client waits there, so the
next outcome the breaker learns is the probe's (`ProbeIsAlone`), which is not what the code says
line by line but what the cooldown being longer than the timeout makes of it; the breaker does not
stay open once the unit is back for good (`Recovers`). That a probe has the wire to itself
(`ProbeHasTheWire`) does not hold: it may wait behind an orphan.
*Fairness.* Weak for time, for clients that ask again and for jobs on the wire, which the client's
timeouts end; strong for taking a queued job and for success, since a unit that is back answers a
request now and then.

### Line (internal/modbus/client.go, rtu.go, internal/serial/port.go)

One request at a time, byte by byte: drain, write, header, rest, checksum, exceptions, retries with
silences, one deadline for an attempt's reading. A write takes as long as the adapter makes it.
The unit answers as late as it likes or not at all, bytes are lost or spoilt, the adapter is
pulled out and put back, and `Reopen` clears the slate.

Modbus RTU answers carry no number, and nothing bounds how late one is, so an answer to an earlier
request can be taken for this one's when code and length agree. `muddled` is a history variable
that says when: it is set by an answer that is later than an attempt and its silence, or by an
attempt cut short by a frame that does not answer it, and cleared by a drain that finds nothing
received or on its way. Checked (`LineSafe`): what a request returns is the unit's answer to it and
not to an earlier one unless the line is muddled (`AnswersAreOurs`), and apart from its writes it
returns within its attempts' timeouts and silences (`ReturnsInTime`). Without the exception it is
what the comments say, and fails (`LateIsHarmless`, section 4). Three shapes tell answers apart by
code, by length, and not at all.

### Auth (internal/auth, web/auth.go, the auth section of config.go and main.go)

A key is a PIN and its salt; a proof is right when it was made with the stored key. Steps are
the sections under the mutex, with `Save` in progress between them; other forms load and save
the same file; a restart reads it back, with or without a PIN on the card. `guesses` and
`since` are history variables. Checked: the stored key can be proved with the salt that
challenges hand out, and sessions are only those of the PIN in force (`KeysHold`); a wrong PIN
waits its turn after `Grace` others and the owner is never kept out longer than `MaxLockout`
(`BrakeHolds`).

### History (internal/store/store.go, recorder.go, web's chart query)

Time passes in buckets of the finest tier; a row is the set of readings it aggregates.
`Record`, each statement of `Rollup` and `Prune`, and giving up between any two of them are
steps; readings come in any order and late. Checked: some tier keeps every reading
(`NothingIsLost`), redoing a coarse row never takes from it (`RedoingLosesNothing`), and a
chart misses nothing its tier should hold (`ChartsAreWhole`). Three tiers whose widths and
retentions differ let a row be redone from rows that are being pruned.

### NetRevert (packaging/freeway-helper, freeway-unwind, internal/netconf)

Commands are steps: a helper process remembers the profile, saves the file, stops and arms
the transient timer, modifies the profile and brings the connection up in the background;
confirming disarms and deletes the file; the timer's service, or freeway-unwind at boot, reads
the file, puts it back, brings the connection up and deletes it. Any command of a change may
fail (`set -e` ends the script, `Dies`); a revert refuses settings whose values its checks do not
accept (the profile's own, which were saved as nmcli printed them), and its `nmcli` may fail at
the change as well as at bringing the connection up; the cable may come out,
NetworkManager tries again by itself, and the power may be cut between any two commands.
Timer units and processes are gone then, files stay. NetworkManager and systemd are modelled
from how the scripts use them.

`short` is a history variable: a revert has stopped before it put the settings back. The file is
in place then, no timer is left, and the next boot tries again.

Checked: unconfirmed settings always have a way back, under way or, after a revert that stopped
short, in the file (`WayBack`); but for that, a left-over file does no harm (`LeftoverIsHarmless`),
unconfirmed settings end (`UnconfirmedEnds`) and a box that nobody can reach comes back
(`ComesBack`; without the exception it is `AlwaysComesBack`, which fails). `Patient = TRUE`: nobody
asks for a change before the last one has ended and is confirmed. A confirmation comes from a browser that has reached the box on its new
settings, which is what the code's comments take it to be. Two power cuts: one during the
revert that the other caused. *Fairness.* Weak for processes, timers and NetworkManager; none
for people.

### Notify (internal/notify, web/notify.go)

The poller publishes any snapshot (link, conditions that are on); a degraded one may show
less than is true. A check reads it, turns the link, the clock and the service into calls of
`Raise` and `Clear`, then reads the alarms and sweeps those that are over. Each call goes
through `dispatch` step by step: the map, the threshold, the copy of the channels, the sending,
the writing down; the form may be saved between any two. `owed` and `fresh` are history
variables: what was announced and not ended, and what has been seen off since its last
announcement.

Checked: all-clears go out exactly for what was announced (`AllClearsAreExact`), nothing is
announced again before it was seen off (`AlertsAreNews`), short outages do not add up to an
alert (`HiccupsAreQuiet`), lasting conditions are raised and ended ones cleared
(`ConditionsAreFollowed`). One channel that may be removed is enough for every path of
`dispatch`; the link's two keys have their own paths. *Fairness.* Weak for the watcher, whose
sends end after 20 s, and for time.

## 3. Proofs

| Module | About | Theorems | From |
|---|---|---|---|
| BusProofs | Bus, BusService | TypeCorrect, JobsInOnePlace, NeverBlocks, AnswersCounted, NoSecondOvertaking, ClosedNeverRuns, NeverCountedTwice, FaultsToldOnce, BusIsSafe, ImplementsService | `BusAssumption`: any callers, depth >= 1, reopening after >= 1 failure |
| UnitProofs | UnitControl | ZeroesAreMarked (`UnitSafe`), NothingPutBack (`RereadKeepsTheRest`); DurationComesFirst (`DurationFirst`) for `Alone` | `UnitAssumption`: any modes and durations, any number of requests at once; `Alone`: one |
| | UnitState | NoWarningTooEarly (`WarningIsEarned`), CountsAreTheirOwn (`CountdownIsItsOwn`) | `StateAssumption`: any callers, any delay >= 1, timed modes of which one is longest |
| | UnitPages | EverythingIsShown (`EverythingReadsBack`), ReadingsAddUp (`ReadingsMakeSense`) | `PagesAssumption`: any registers at first, any numbers in programs and settings, a host whose clock shows a date of this century (the year is written as its distance from 2000) |
| GatewayProofs | Gateway | SwitchIsObeyed (`GatewaySafe`), SavingKeepsClients (`SavingDropsNobody`) | `GatewayAssumption` and `OneAtATime`: one settings request at a time, any connections, machines and ceiling, any failures of the sockets |
| LineProofs | Line | SafeLine (`LineSafe`) | `LineAssumption`: any shapes, timeouts and retries, a unit however late |
| | Breaker | TypeCorrect, ProbesGoAlone (`ProbeIsAlone`) | `BreakerAssumption`: a timeout shorter than the cooldown |
| AuthProofs | Auth | KeysAreRight (`KeysHold`), BrakeIsABrake (`BrakeHolds`) | `AuthAssumption`: wrong PINs are remembered at least as long as the longest lockout |
| NotifyProofs | Notify | TypeCorrect, EndsMatchStarts, NothingIsRepeated, OutagesAreWaitedOut | `NotifyAssumption`: distinct keys, finitely many alarms, a wait of at least a tick |
| HistoryProofs | History | NeverLost (`NothingIsLost`), RedoingSafe (`RedoingLosesNothing`), WholeCharts (`ChartsAreWhole`) | `HistoryAssumption`: any tiers, each width dividing the next, each retention outlasting the gaps (section 5) |
| BoxProofs | NetRevert | TypeCorrect; AlwaysAWayBack and NoHarmLeft for `Patient` | `NetRevertAssumption`: the first settings are good ones |
| | WifiRevert | AirComesBack (`AirHasWayBack`) for `Unhurried` | `WifiAssumption`: any networks and names |
| | SshDoor | DoorTruthful (`DoorIsAsSaid`) | `DoorAssumption`: any durations and any number of requests at once |
| | Reboot | PromiseKept (`PromiseIsKept`) | `RebootAssumption`: any day, poll and chosen times, a window of at least a minute and the lateness of a tick |
| | Power | ConditionStands (`ConditionIsRight`) | `PowerAssumption`: any length of the condition >= 1 |
| | UnitClock | VerdictEarned (`VerdictsAreEarned`) | `ClockAssumption`: any errors of the clocks |

Where a theorem has a hypothesis beside the assumptions, section 4 says what happens without it:
`Patient` (no change of network settings on top of an unconfirmed one), `Unhurried` (nor of the
wifi network), `Alone` and `OneAtATime` (one request that changes the mode, one that saves the
gateway's settings). Where a property excepts something, because the code does not keep it there,
the exception is in its statement, and section 4 says what is lost.

Each follows from one inductive invariant (two in Auth, whose keys and brake share nothing).

* **Bus.** `IInv` = types, `QueuesOK` (bounded, no duplicates, each job in its own priority's
  queue), `HandsOK`, and for each call `Journey` (where its job is decides what has been
  counted, answered and returned) and `Turn` (an overtaken job is found by the select that
  listens to its queue and nothing lower, so the goroutine never gets past that select).
  `JobInOnePlace` alone is not inductive: that a job is in one place depends on a caller that
  has returned not queueing it again. The refinement proof maps each step to one of the
  service's or to a stutter.
* **UnitControl.** `Shown`: a snapshot is marked from the moment its holding registers have
  been tried, the pass's own as well as the published one. `Copy`: a request's copy is marked,
  and while nothing else has been published it is the published snapshot but for one address;
  the compare-and-swap is what makes "while" true. For `DurationFirst` `InOrder` adds that only
  the first of a request's writes may be the duration, and that it stays on the unit as long as
  the request goes on, which with a second request it need not.
* **UnitState.** `NoEarlier`: the clock of the warning, and the start each call has loaded, are
  no older than the last call that found the rate below the mark; `dip` in a call's record ties
  what it loaded to what was known when it asked the bus. `Counting`: a count that is shown has
  its own mode's duration.
* **UnitPages.** `PagesInv`: the pages show what is saved from the beginning on, and everything
  saved has its type. Each request is reduced to what it writes where (`WeekSaved`, `YearSaved`,
  `SettingSaved`, `ValueSaved`, `ClockSaved`), and one lemma for each says that this moves nothing
  else. Those rest on the map of registers: where each block lies (`WeekPlace`, `YearPlace`,
  `SettingPlace`), that a key names one row and a row one register (`ByKey`, `OneRow`), that a page
  reads its own block only (`WeekFrame`, `LogFrame`), that sixteen bits give a number back
  (`RoundTrip`) and that rounding loses half a step at most (`KeptSetting`).
* **Gateway.** `Stage`: where a settings request stands decides what listens and whether the
  list is already the one asked for; `Barred`: behind a switch that is off only those are served
  whom the request at work is about to hang up on, or whom a failure to listen has left. Neither is
  true for two requests.
* **Line.** `Air`: at most one answer is on its way, and unless the line is muddled one that has
  not begun by the end of an attempt's silence is too old not to be a late one. `Heard`: of what
  has been read since the drain, a first byte is from an answer to this request, so a stale answer
  can only be joined in the middle, which its header gives away. `Paced`: what an attempt has spent
  and may yet spend.
* **Breaker.** `Spacing`: a client that waits while the breaker is open is at least as old as the
  part of the cooldown that has passed. When a probe is due all others have given up.
* **Auth.** `Salts`: every copy of the configuration, in memory, in the file, in a form's hands,
  has a key that fits its salt, and before there is a PIN the challenges that are out carry the
  salt that is held. `Secrets`: a session's secret goes with one key wherever it is kept.
  `BrakeInv`: what the code counts is never less than the wrong proofs there were, and what is
  left of the lock makes up for what the last has yet to wait.
* **NetRevert.** Per process `Stage` (what a script may rely on between two commands), `Alone`
  (one process at a time, from `Patient`), `Kept` (only confirmed settings are saved or put
  back) and `UnderWay` (while the box is on unconfirmed settings a timer or a revert is about, or
  a revert has stopped short and its file is there).
* **WifiRevert.** `Accounted`: a profile nobody chose to keep is the one the file calls new, and
  the timer, the revert or the helper is about, or a revert has stopped short; `JoinStage` and `UndoStage` say of each command
  what the file, the profiles and the timer are by then.
* **SshDoor.** `DoorStage`: what a helper that works alone has written, removed and read so far;
  of helpers that overlap only the types are known, and that `crossed` says so until all have
  ended. A helper that begins alone needs nothing of what others left.
* **Reboot.** `InTime`: how much of the window is left, by the minute the clock is looked at in
  and how late that may be.
* **Power.** `RingOrder` and `RingTrue` (the log is in order and tells what happened) and `Seen`: a
  sag that is left in the log is no later than the last one the watcher knows of, so wrapping
  takes nothing away.
* **UnitClock.** `OneSync` (the flag lets one caller in) and `TryStage`: how far a try nothing has
  interfered with has got with a unit that obeys, which is never to a verdict against it.
* **History.** `Done`: a tier has every reading older than its newest row, unless it has been kept
  for long enough. `Held`: what is not older is in the tier below, once that has had its say;
  `Settled` says when, which while housekeeping runs depends on the statement it has got to.
  `NotAhead`, `Dense` and `Caught` say how far apart two tiers may be, and so that what is pruned
  is older than the newest row of the next tier. `NothingIsLost` is not inductive without all of
  it: the last trace of a reading may be in any tier, and one statement moves it. The arithmetic
  of buckets (`Nested`: the coarse bucket of a fine bucket is that of its times) and the greatest
  and least of sets (`GreatestOf`, `LeastOf`) are lemmas of their own. A chart's tier is the last
  in which there is something to draw; going up the tiers from it (`Climb`) none lacks a reading.
* **Notify.** `Books` ties the map to what is owed around a message being sent; `News` says
  that a key that is not fresh is raised and nothing is about to clear it, and why one check
  never both raises and clears a key; `Waits` that the wait began after a check last saw the
  link up.

Only model-checked: liveness (`WritesGetThrough`, `CallsEnd`, `SnapshotCatchesUp`,
`RequestsAreAnswered`, `ShutdownEnds`, `Recovers`, `UnconfirmedEnds`, `ComesBack`, `ConditionsAreFollowed`,
`LinkSettles`, `StaysInStep`: fairness and ENABLED are beyond the prover). The bounds of time, draws and cuts in
the models are guards of actions that the proofs leave as they are, for any value.

## 4. What the code does not keep

One run expects a violation: **unit_half_done** refutes "Apply performs the writes in order"
(control.go:298). When a re-read between two writes fails, `Apply` returns success with the
rest unwritten (control.go:310-313): a mode change that has cleared the old mode answers that
all is well with the new one never set.

The rest was met while modelling. Where a property is named it is stated in its module and
does not hold of the instance given; add it to the configuration to see the steps. The ones that
contradict a sentence of the sources are among the findings in `PROJECT.json`, with the lines.

* **Bus.** A caller without a deadline, such as the poller, whose job enters the queue as the
  bus closes waits for ever, though bus.go:51 promises `ErrClosed`. `CallsEnd` therefore speaks
  of callers with a deadline.
* **Modes.** "choosing one clears the others" (state.go:10-11): a late pass puts an old mode back
  into the snapshot and the next press clears that one only (`OneModeAtATime`, two requests).
* **Answers.** A pass that began before a write is published after the re-read, and the answer
  shows the old value (`AnswerReflectsWrites`; control.go:298-299).
* **Failed blocks** are published as zeroes, not as "stale data" (`FailedBlocksKeepTheirValues`;
  poller.go:204-205). `ZeroIsMarked` is what holds instead. The alarms are in such a block, so
  the watcher sends an all-clear for an alarm that is still on (watch.go:187).
* **Gateway.** `Close` does not hang up on a connection that is accepted but not yet in the table
  (`CloseHangsUp`; server.go:480-489). A client taken off the list is served until it hangs up
  (`ListTakesEffect`). Two settings requests that pass each other between saving and applying,
  or between stopping and starting the listener, leave the gateway other than the file says
  (`SavedIsApplied`, `OffMeansClosed`, with `Callers = {k1, k2}` and `Listeners = {l1, l2}`). A failed
  accept that is not a timeout ends the loop with the socket open: nobody is served, and `Listening`
  says yes (`OnServes`; server.go:173-177). Turning off a gateway that could not listen hangs up on
  nobody, so a connection from before that is judged late is served on (`OffHangsUp`;
  server.go:249-265). "Applied on the next start rather than live" (system.go:184-186) is out of date.
* **Breaker.** The job of a client that has given up runs on with its retries, and a probe let
  through meanwhile waits for it (`ProbeHasTheWire`).
* **Line.** A late answer can be read as a later request's (`LateIsHarmless`; client.go:13-14,
  port.go:183-184). "Timeout bounds one attempt" (client.go:45) leaves out the write, which tries
  again without a deadline (port.go:194-213).
* **What the unit is doing.** registers.go:72-75 says that register 49 is not it, and state.go:134-153
  and 183-195 show it as that. The documentation (docs/eda-registers.md) is on the code's side, and
  `ReadingsMakeSense` speaks of the code's reading.
* **Notify.** `dispatch` "reports whether anybody was told" (notify.go:245) but returns true when
  every channel failed (notify.go:299), so an all-clear may follow what nobody heard. In the
  model "told" means that somebody was tried.
* **Network.** A second change before the first is confirmed saves the unconfirmed settings as
  the ones to go back to (`WayBack` with `Patient = FALSE`; freeway-helper:332-345). A revert that
  refuses the saved values, or whose `nmcli` fails, ends with the timer gone, and the box stays where
  it is until the next boot (`AlwaysComesBack`; freeway-helper:305-318). At boot freeway-unwind takes
  silence for success (freeway-unwind:43-59).
* **Ssh.** An opening that expires as the port is being closed leaves it open, and one that is
  extended as it ends is shut with time left (`OverlapsSettle`; freeway-helper:235-245): the helper
  is one process per request and has no lock. `DoorIsAsSaid` therefore excepts what helpers that
  overlapped have left, until one has worked alone.
* **Wifi.** A revert that finds no profile to delete ends there (freeway-helper:497, `set -e`):
  the old network is not brought up, and the file stays. The next boot goes by it, though
  freeway-unwind:18-19 says that reverting deletes it, and deletes a network of that name that
  has been joined since by cable. A revert also ends when it refuses the old network's name (492)
  or cannot delete the profile: the box stays on a network nobody chose to keep until the next boot,
  which a refused name does not help (`AirAlwaysHasWayBack`). A second join on top of an unconfirmed
  one makes that the one to go back to (web/wifi.go:62; `AirHasWayBack` with `Unhurried = FALSE`).
* **PIN.** A form that loaded the file before a PIN was changed puts the old PIN back when it
  saves, in force after the next restart (`OldPINsStayOld`; main.go:502-512). A PIN whose save
  failed is in force until the next restart all the same (auth.go:181-189, 396-399).
* **Unit's clock.** The page says the clock is fine when it cannot be read, and refuses the edit
  (programs.go:63-84). When the box's clock steps during a try, a unit that took the write is
  called one that ignores it, and the keeper gives up for good (control.go:213-248); this is why
  `VerdictsAreEarned` excepts such tries and `StaysInStep` a keeper that gave up.
* **Undervoltage.** A drained sag is overwritten by the next snapshot of the same ten seconds
  (recorder.go:120-163); after a restart old sags are recorded as new, and after the log has
  wrapped new ones are not recorded until the old count is passed (power.go:131-222). The
  condition, which `ConditionIsRight` is about, does not rest on the count.
* **Restarts.** A `Reboot` that fails ends `WatchReboot` until the daemon is restarted
  (reboot.go:141-145); the window of 23:59 ends at midnight after sixty seconds and one late tick
  misses it (reboot.go:58-67; `AlwaysKept`, while `PromiseIsKept` excepts those windows). While the
  file cannot be loaded the policy of the start is followed (`FileIsObeyed`; main.go:184-191).

## 5. Bounds

| Bound | Where | Why it is enough |
|---|---|---|
| `reopens`, `overtaken` exact up to 2, `consecutive` up to `ReopenAfter` - 1 | Bus | the code only tells none, one and more apart, and resets the count |
| `Patient` | MCBus | which of the callers has a deadline; each kind once |
| `consecutive` exact up to `Threshold` + 1 | Breaker | it is only compared with the threshold |
| one request, one settings request | UnitControl, Gateway | with two the promises in section 4 do not hold; the proofs about UnitControl are for any number |
| `MaxCuts` = 2 | NetRevert | a second cut may hit the revert after the first; the proofs hold for any number |
| ages up to `DownAfter`, `OverAfter`, `LongAgo`, `AttemptDecay` | Notify, Power, UnitState, Auth | they are only compared with it |
| `MaxNow` = 8 | History | nine buckets: the second tier, kept for 7, is pruned as well, between rows of the coarsest |
| `MaxGap` = 3, `HostTimes` | History, MCHistory | how long nothing is stored (see below); the box's own readings, when there are some beside the unit's and when not |
| `Offsets` three, `MaxUpsets` = 3 | UnitClock | right, wrong one way, wrong the other; a step, a runaway and a failing exchange in one try |
| `MaxSags` = 3 | Power | one on either side of a wrap, and one more |
| `Day` = 12, `Poll` = 5, `Window` = 3, `Slack` = 1, `Hours` three | Reboot | half minutes; a poll that drifts against the minute meets every place in the window; a window early in the day, one late, one that midnight cuts short |
| `Minutes` {1, 2}, `MaxOpens` = 3, `Pages` two | SshDoor | an opening, one on top of it that is longer or shorter, and one after a policy; two helpers and the timer at once |
| `Networks` three, `MaxOutages` = 2 | WifiRevert | one to come from, one that does not work, one whose name the revert refuses; a cut during the revert after the first |
| `MaxRandom` = 4, `MaxTokens` = 2 | Auth | a salt and a secret for a first and a second PIN; a session under each |
| `MaxReq` = 3, `Retries` = 1, ages up to the end of an attempt and its silence | Line | an answer from two requests ago would be a third request's, and one from a first attempt a second's; later is later |
| `MaxSaves` = 3 | UnitPages | two neighbours and a removal; a request changes one slot |

`HistoryAssumption` says what the tiers rely on: each is kept at least until the coarse row that
is made of its oldest rows is no longer the newest and redone. That is twice the next width, less
one, and the rows that `MaxGap` may leave empty in between, `MaxGap` being how long nothing is
stored: the box is off, or its database is full. With less the newest coarse row is redone from
rows of which some have been pruned, and `RedoingLosesNothing` fails (retentions 3 and 5, or a gap
of 3 with retentions 4 and 9). The program keeps its finest tier for two days, so the theorems
cover outages of almost that; what they do not cover is a box that was off for as long as one of
its tiers is kept and no longer than one of the next tier's buckets more, 30 days and some
minutes, say, whose newest row of a quarter of an hour may lose some of its minutes.

A member of `Calls` in Bus and NetRevert is used again once it has returned, so a few members
stand for any number of calls.

## 6. Not modelled

| Part | Why |
|---|---|
| package updates | one apt job that systemd refuses to start twice, and the reading of its output |
| the box's own clock | single requests to systemd, which keep nothing; that the clock steps is in UnitClock |
| privileged helper's caller | one connection per call with a deadline, nothing kept between calls |
| resolver of client names | display only; the one lock covers each of its two sections whole |
| mail and webhooks, system information, translations, pages | pure output or input |
| installation, image, bench tool (cmd/fwprobe) | run once, or by hand |
| wiring, flags and the order of starting (main.go) | straight-line code; of stopping, only that the web server ends before the gateway closes is used |
| validation of the configuration's sections | functions of one file, which table tests cover |

Left out of modules that are there: in Bus the wait times and the ring of recent errors; in
UnitControl `nextDelay`, the pass counters and `Close`; in Gateway the prefixes of the list (they
are sets of machines), a change of address and the counters; in Notify `Test`, the counters and
the journal; in Auth the expiry of sessions after 90 days and logging out of a browser; in Line
the settings of the port and the arithmetic of the checksum; in History the columns, the names of
metrics and the table of events, to which lines are only added; in SshDoor keys, the account and
a box without the firewall; in WifiRevert the country, scanning, joining from the card and two
helpers that join at once. The poller's re-read of a snapshot and the
bus are not composed with UnitControl byte by byte: one step there is one job of Bus, which is
what `KeepsItsPromise` licenses, and one exchange of Line, which is what `AnswersAreOurs`
licenses.
