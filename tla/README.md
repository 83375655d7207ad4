# hp-thermal: TLA+ models, model checking and proofs

hp-thermal controls the thermal mode of HP laptops. One executable plays
several parts: a SYSTEM service that talks to the BIOS over WMI, an unprivileged
tray application with the menu, an installer/updater, and a set of command-line
roles. Tray and service meet in a local named pipe and in a few named kernel
objects. This directory models the concurrent and stateful parts of that program
in TLA+, checks them with TLC on small instances, and proves with TLAPS, for every
value of the parameters, each safety property that those checks find to hold.

Paths below are relative to `src/app/src/` unless they say otherwise.

## 1. Inventory

| Part | State it keeps | Operations | Meets the others through |
|---|---|---|---|
| Service request handler (`service.rs` `dispatch`, `CacheSet`; `wmi_com.rs`) | four cached reads with their instants, the limiter, the BIOS/EC itself | five reads, one batched read, three BIOS writes, a log switch | called once per pipe transaction by the service's one thread |
| Write limiter (`service.rs` `WriteLimiter`) | tokens, instant of the last attempt | `allow_write` | `dispatch` asks it before every write |
| Pipe (`pipe.rs`) | one pipe instance, its overlapped accept, a client handle per call | create, wait, validate, read, write, flush and disconnect; connect, validate, send, receive with timeouts | carries two-byte requests and responses between any number of clients and the service |
| Service lifecycle (`service.rs`, `main.rs`) | SCM state, stop event, event subscription | start, report running, stop, restart | SCM, pipe, the svc-start and Fn-key events |
| Tray: menu cache (`tray.rs` `maybe_warm`, `cache_store`) | two cached values, a stamp, an in-flight flag | warm in a worker thread, optimistic store after a selection | UI thread, worker thread, pipe |
| Tray: screen toggle (`screen_off`, `screen_on`, black window) | on/off, method, saved brightness, black window, wake lock | Fn+F12, escape from the black window, choice of method | UI thread, pipe, monitor-off worker |
| Tray: monitor-off worker (`request_monitor_off`) | dirty flag, active flag | request, drain, release, recheck | UI thread and ephemeral threads |
| Tray: Fn+F12 path (`handle_fn_key`, `FnKeySink::Indicate`) | last press acted on, suppression until, two settings | deliver, drop, act, sleep and resume | firmware, service, auto-reset event, UI thread |
| Capability ladder (`capability.rs`, `mode.rs`) | cached verdicts of the read and the write tier | read, build check, write probe with restore, verdict | several transactions in a row, in a tray or command-line process |
| Tray lifecycle (`tray.rs`, `app.rs`) | mutex, two event handles, tray icon | single instance, exit when the service is of another build, re-adding the icon | session mutex, `Global\` auto-reset events |
| Installer and updater (`install.rs`) | files in Program Files, service entry, Run key, uninstall entry, set-up mutex | install, update, start, stop, uninstall; elevated child and waiting parent | SCM, registry, UAC, running trays |
| Role dispatch, consent, onboarding (`main.rs`, `consent.rs`, `onboarding.rs`, `hwinfo.rs`) | accepted hardware fingerprint per user | choose a role, gate on hardware, ask once | comes before everything else |
| Noise adaptation (`audio.rs`, feature `noise-adapt`) | calibration table, running flags, microphone information | measure, A/B test, stress calibration, decide | worker threads post messages to the UI thread, write modes over the pipe |
| GPU telemetry (`nvml.rs`) | a library loaded on demand, last use | load, query, unload when idle | menu and timer of the tray |
| Logging, hardening, names (`log.rs`, `win_harden.rs`, `win_harden/dll.rs`, `app.rs`, `wide.rs`) | trace switches; one-way process policies | - | used by all |
| Candidate gate (`src/xtask/src/gate.rs`) | evidence store, acknowledgements | verdict per axis, combination, staleness | CI |
| Exploration, freeze, monitor (`src/xtask/src/{explore,freeze,monitor,toolchain}.rs`) | lock files, recorded baselines | enumerate candidates, freeze a resolution, compare with newer knowledge | CI, network |
| Virtual-service-account trial (`src/xtask/src/vsa.rs`) | snapshot file, service identity | reconfigure, revert by guard, recover | SCM |
| Binary inspection (`src/xtask/src/{caps,elf,provenance,hardening,canary,allowances}.rs`) | none | parse and compare with committed manifests | CI |
| Experiments, self-test tools, CI, supply-chain records | - | - | not part of the product |

### Where it is hard, and what makes each part correct

* **Service request handler.** A BIOS call takes time and may fail before or
  after its effect, while the firmware and HP's own tools change the same
  quantities. Correct means: a write is never followed by a cached value from
  before it; a successful reply is no older than the cooldown and the calls it
  took; `set_coolsense` gives the flags byte back.
* **Write limiter.** The danger is at the boundaries: cap, fractions of a token,
  denied attempts. Correct means: over *any* window the BIOS sees at most a burst
  plus the rate, and nobody is denied below it.
* **Pipe.** A client gives up at any moment, dies, or calls again; the service is
  stopped or killed at any step. Correct means: every call returns; a response is
  the response to that call; a response is never cut off; a stop request always
  ends the service; the only instance is always given back.
* **Menu cache.** An asynchronous read competes with an optimistic store. Correct
  means: the menu shows a selection that went through, and in the end the truth.
* **Screen toggle.** Three methods leave three kinds of traces, the method may
  change between off and on, and the escape from the black window races the key.
* **Monitor-off worker.** The classical lost wake-up: a request between the last
  drain and the release.
* **Fn+F12.** Presses travel, merge in an auto-reset event, and wait while the UI
  thread is busy or the machine sleeps.
* **Capability ladder.** Seven transactions in a row, none of them atomic with the
  next, on a rate-limited service other people use too.
* **Set-up and lifecycle.** An install or update is a dozen steps of an elevated
  helper, any of which may fail or be the last, while its parent waits for a bounded
  time, the service comes up or goes down, trays of the old build run, and another
  user starts the same thing. Correct means: set-up without a failed step leaves
  what it promises; a process that died never blocks the next set-up; a tray hears
  of a service of another build; no role gives up the right to start processes
  before its last use of it.
* **Noise adaptation.** Two threads and the window's thread share one machine, one
  microphone, one file and two flags. Correct means: the mode a measurement decides on
  is the one that is set when the balloon names it; a calibration file of many
  measurements stays in order and keeps what the other kind of measurement put there;
  every measurement ends.
* **GPU telemetry.** A timer that unloads the library also fires inside the message
  loop of an open menu, which may load it again.
* **Developer tools and workflows.** Everything they say is about state that moves
  between two runs: a database that grows, a digest that was produced earlier, bytes
  that passed through an artifact store, an account changed by a command that was
  ended. Correct means that nothing unsigned or unverified gets through by that.

Every hazard with its line and the properties that watch it is in
`PROJECT.json` under `hazards`.

## 2. Plan

The order was: the concurrent core of tray and service (MonitorOff, WriteLimiter,
ServiceDispatch, PipeTransact, MenuCache, Screen, Capability, FnKey) with the first
proofs; the product on one machine (Footing, Machine, ServiceHost, Setup, Launcher,
Lifecycle); the tray's instruments (CalTable, NoiseAdapt, Gpu); the developer tools
and workflows (Candidates, Advisories, Supply, Image, Release, Closure,
AccountTrial). All of these are written and checked.

The service lifecycle, the trays, the update and role dispatch are one composition,
because the interesting cases are between them: a helper that replaces the
executable under a running tray, a stop that meets a starting service. The
instruments, and likewise the developer commands, share nothing with each other;
they are checked side by side, a behaviour being one of them.

Every safety property of a passing run is proved (section 6): the types, the
invariants, the action properties and the two refinements without their liveness.
What could still be proved is about operators rather than behaviours:

1. `Gpu`: that a library is never loaded with neither a menu open nor the timer armed,
   the invariant under `GpuReleased`.
2. `Advisories`: that raising the number of known advisories never turns a verdict
   from bad to good, and `split_regressions` as a partition.
3. `Footing`: that what remains in a stripped token beyond the set to keep is exactly
   what resists removal, and that consent to a machine never extends to another board.

Liveness stays with TLC.

## 3. Modules

Every model is a plain module with constants; its configuration gives the bounds.
An `MC` module stands between the two only where a constant needs a definition or a
symmetry (`MCScreen.cfg`, for one, is a configuration of `Screen` itself).
Definitions called "Changed form" in a comment are plausible wrong versions of the
definition that follows them. They are not part of any specification: they show that
a property would notice the change.

| Module | Models | State and actions in terms of the code |
|---|---|---|
| `MonitorOffSpec` | what `request_monitor_off` promises | requests merge, broadcasts do not overlap, every request is followed by a broadcast that starts later |
| `MonitorOff` | `tray.rs` 1530-1573 | one program counter per thread; one action per atomic access: `SetDirty`, `Claim` (swap of ACTIVE), `Spawn`, `Drain` (swap of DIRTY), `Broadcast`, `Release`, `Recheck`, `Reclaim` |
| `TokenBucket` | the state and the arithmetic of `allow_write` | `tokens` and `idle`, shared by three models; a token is `Cost` units and a tick regains one unit, so that fractions of tokens are exact |
| `WriteLimiter` | `service.rs` 311-339 | requests at any time; history variables hold a window that begins anywhere |
| `ServiceDispatch` | `dispatch`, `CacheSet`, the BIOS operations | one thread; a BIOS call is split where time passes (`Miss`, `Sample`, `Stamp`; `AcceptSet`, `ReadFlags`, `Write`), and `External`, `ExternalFlags`, `Tick` happen in between |
| `TransactSpec` | what `client_transact` promises | a call ends in an answer or a failure; an answer was handled by the service |
| `PipeTransact` | `pipe.rs`, the loop of `service_main`, `ctrl_handler` | clients (installed or copies), one instance with its accept I/O, the frames in it, service steps from `Start` to `Teardown`, `Kill` |
| `MenuCache` | `maybe_warm`, its worker, `cache_store`, Smart Sense, mode selection | the three atomics are written one by one, by two threads; each transaction may fail before or after its effect |
| `Screen` | `screen_off`, `screen_on`, the black window, `WM_SCREEN_ON` | UI steps between transactions; the broadcast worker comes in as `MonitorOffSpec` |
| `Capability` | `verdict` down to `probe_write` | one action per transaction; the service is a mode, a token bucket and a build |
| `FnKey` | `Indicate`, the main loop's wait, `handle_fn_key` | presses on the wire with the time they are due, the auto-reset event, the stamps, the UI thread's absence, sleep |
| `Footing` | `win_harden.rs` profiles and tokens, `classify_role`, `consent.rs`, the write check of the image | pure operators: which mitigations a role locks, which hardware is known or accepted, what a stripped token keeps |
| `Machine` | what set-up leaves behind and what processes share | files, registrations, SCM state, the two mutexes with abandonment, the svc-start event, processes and helpers; one registration or directory is one element of `arts`, named after the function that makes it |
| `ServiceHost` | `service_main`, `native_start`, `native_stop` | start, footing checks, opening, RUNNING and its signal, stop, end, a deletion that waits for the process |
| `Setup` | the elevated helper: `install_service`, `update_service`, `uninstall`, `copy_exe_to_install_dir`, `wait_or_kill_other_instances` | one action per step that can fail; a helper remembers whether one did and whether it was alone |
| `Launcher` | `main`, `default_run`, onboarding, `guarded_setup`, `install`, `update`, `start`, `stop`, `ensure_tray` | one process per slot, from its role to its end; the set-up mutex, the message boxes and the bounded waits |
| `Lifecycle` | the tray beside it: singleton, svc-start event, `exit_if_service_newer`; the whole composition | `Enter`, `Wake`, `Compare`, `Quit`; an administrator who swaps executable and service |
| `CalTable` | `audio.rs`: decision, crossover, `insert_point`, sorting, choice of the device | pure operators; decibels in halves where the code halves; `sort_points` puts each point at its rank, the number of points that a stable sort leaves before it |
| `NoiseAdapt` | `run_smart_measure_thread`, `smart_measure_and_set`, the stress calibration, their messages, `ID_NOISE_ADAPTED`, `ID_CALIBRATE` and the other menu items that write the same state | two threads, the window's thread, the file, the load threads with their deadline, the firmware that selects under Smart Sense; `Balloon` is the name the window gives the result |
| `Gpu` | `nvml.rs` and the timer in `tray.rs` | menu, load, use, idle time, sweep |
| `Instruments` | `NoiseAdapt` beside `Gpu` | |
| `Candidates` | `explore.rs`, `check_target` of `freeze.rs` | releases by number and line, the day, the soak and the cadence of the scheduled run |
| `Advisories` | the verdicts of `gate.rs`, `split_regressions` of `freeze.rs`, `toolchain.rs` | pure operators over a database that grows |
| `Supply` | `freeze`, `build-tools`, `gate`, `monitor` and their workflows | the branch and main as two trees (lock, revision, digest, baseline, records, sign-offs); a digest is named by the revision and the lock it was built from; a commit may move the revision with the digest (`Bump`) or without (`Repin`); the database grows, the auditor may go blind |
| `Image` | `caps.rs`, `hardening` and timestamp checks on a PE image | an image is a record of what the checks look at |
| `Release` | the jobs of `release.yml` with the commands they run | stages of one release, with signing switched on or off; between jobs, before `publish` too, the artifact store may hand back other bytes |
| `Closure` | `audit-dll-closure` | the queue of the walk, in any order of imports |
| `AccountTrial` | `vsa.rs` | the account configured, the account running, the snapshot file, an end of the command at any step |
| `Xtask` | the developer commands side by side | |
| `ScreenProofs` (with `MonitorOff`), `TrayProofs` (`FnKey`, `MenuCache`), `ServiceProofs` (`WriteLimiter`, `ServiceDispatch`), `PipeTransactProofs`, `CapabilityProofs`, `LifecycleProofs`, `InstrumentsProofs`, `XtaskProofs` | theorems | section 6 |

How they compose: `ServiceDispatch`, `WriteLimiter` and `Capability` extend
`TokenBucket`; `MonitorOff` implements `MonitorOffSpec`, which `Screen`
instantiates in place of the worker, so that what is checked of the screen holds
with the real worker too; `PipeTransact` implements `TransactSpec`, and
`MenuCache`, `Screen` and `Capability` use a transaction as that promise
describes it: it is carried out or not, and answered or not. `Lifecycle` extends
`Launcher`, `Setup`, `ServiceHost`, `Machine` and `Footing`, a chain in which each
module adds the actions of one kind of process on the same machine; its service is
the one whose accept loop `PipeTransact` details, here a process that answers a
build query or does not. `NoiseAdapt` extends `CalTable`; `Supply` extends
`Advisories` and `Candidates`, so that the gate, the freeze and the monitor judge by
the same operators.

## 4. Runs

| Run | Question | Answer |
|---|---|---|
| `monitor_off` | two callers, three workers, every interleaving of the atomic accesses | one owner (`OneHolder`), no lost request (`NoLostRequest`), the promise with its liveness is kept (`Implements`) |
| `write_limiter` | the code's five tokens at five per second, windows of up to 1.2 s starting anywhere | `WindowBudget`, and its converse `DeniedOnlyWhenSpent` |
| `service_dispatch` | the requests on thermal mode and Smart Sense and their batch, hardware that changes on its own, calls that fail half way | `ReadYourWrites`, `RepliesFresh`, `FlagsKept` |
| `pipe_transact` | an installed client and a copy, two calls each, two service lives | `OwnReply`, `NoReplyDropped`, `StopHonoured`; `InstanceFreed`: the only instance is always given back, unless somebody opened it before `ConnectNamedPipe`; `Implements`: every call returns, and a copy is never served |
| `menu_cache` | selections, warms and failures in any order | `QuietSelectionShown`: a selection that met no worker is shown next; `Converges`, as long as the menu is triggered |
| `screen` | every method, changed at any time, one failing transaction, the escape | `NothingLeftOver`, `BrightnessRestored`, `EscapeWorks` |
| `capability` | firmware that ignores writes, two lost responses, a replaced service, a user | `VerifiedIsProven`, `ProbedOnce`, `NeverLeftSwitched` |
| `fn_key` | presses that travel, merge and wait, sleep and resume | `NoWakeBounce`, `OneActPerBurst` |
| `lifecycle` | two users' starts of any command, their helpers, the service, a tray, an administrator, and one failing step, death or expired wait anywhere | `SetupOutcome`: a helper of a downloaded copy that met no failure and no competitor leaves exactly what it promises; `StaleTrayTold`; `RefusedOnlyByLiving`; `TypeOK`, which also says who owns the mutexes and that no role loses the right to start processes too early |
| `lifecycle_repair` | does the installed copy's repair leave the machine with its executable? | no (finding) |
| `instruments` | two measurements of either kind, a full or an empty table, a lost device, Smart Sense, selections, quitting; up to four menus | `AnnouncedIsSet`: the balloon names the mode that is set, if it is one of the two compared; `CalibrationKept`: what was measured stays in the file; `MeasurementEnds`, `GpuReleased` |
| `xtask` | the developer commands, each with the workflows that run it | `SoakShoutedOnce`: a fix is announced once; `NothingUnsigned`: under a passing watch every known advisory is signed; `VerifiedIsBuilt`: what the verify job accepts is the image this build stamped and checked, signed exactly when signing is on; `ClosureExact`; `AccountRecoverable` |

The type invariant (`TypeOK`, `LimiterTypeOK`) is a run's property in `monitor_off`,
`write_limiter`, `pipe_transact`, `fn_key` and `lifecycle`. Elsewhere it is a part
of the invariant that is proved, and of no interest by itself.

### Finding

**The repair removes what it repairs** (`install.rs:523`). The installed copy that
finds its service gone offers the installation as a repair (`main.rs:331`).
`copy_exe_to_install_dir` then renames `hp-thermal.exe` to its `.old` name and
copies `current_exe()` to `hp-thermal.exe`; for the installed copy both paths are
the same, so the source is gone, the copy fails, and nothing is renamed back.
`RepairKeepsExe` is violated without any fault, in a handful of steps from the state
`Unregistered`. It is quoted with the comment in `PROJECT.json`.

### Seen while modelling

What follows came up while the code was translated. It has no run of its own; where
a property's premise exists because of it, the property is named.

Pipe, service and tray:

* `server_wait` ignores the result of `ConnectNamedPipe` (`pipe.rs:117`). If a client
  was first, the call fails with ERROR_PIPE_CONNECTED, the event is never signalled
  and the service waits with its only instance taken until it is stopped, although
  `pipe.rs:103-104` speaks of a client or the stop event. `InstanceFreed` shows that
  this is the only way to lose the instance.
* On the stop event `server_wait` returns with its accept still pending on the
  OVERLAPPED of its frame (`pipe.rs:124`); lifetimes of memory are not modelled.
* The warm worker's stale read may overwrite the optimistic store of a selection
  (`tray.rs:513`, against `522-523`); `QuietSelectionShown` excludes a worker that
  was reading, and `Converges` shows that the truth returns.
* `screen_on` does not withdraw a power-off broadcast that is pending or under way
  (`tray.rs:1505`); the monitor may go dark once after it was switched on.
* The double-tap debounce compares the moments of handling (`tray.rs:1431`); a press
  that waited while the toggle blocked the UI thread for longer than the debounce
  acts again. `OneActPerBurst` counts with that absence (`MaxAway`).
* The write that restores the mode after a probe pays the limiter like any other and
  is tried once (`capability.rs:93`; `NeverLeftSwitched` says exactly when the
  machine is left in the probe's mode). The service may be replaced between the
  build check and the probe's write (`capability.rs:67`; `Replace` in `Capability`).

Set-up:

* The `install` command gates on the hardware but does not ask for consent, which
  the tray does; the message that a start failed is shown with the set-up mutex
  held, although `main.rs:368-371` says never across a dialog.
* The parents of `uninstall`, `start` and `stop` give the mutex back as soon as they
  have launched their helper; two helpers can then overlap. `SetupOutcome` speaks of
  helpers that were alone.
* Uninstalling does not take back the ETW provider's access rights (`arts` may keep
  `EtwRights`).
* `is_service_current` asks through a pipe that serves the installed copy only, so a
  downloaded copy never hears "already up to date" and always offers the update.

Noise adaptation:

* In mode 2 or 3 a measurement of low confidence keeps the mode and is recorded with
  `chosen` 2 or 3, although `audio.rs:163` says 0 or 1. The new point is then of
  neither side; in a full table "all points are the opposite side" is false and the
  only point of a side may go. `CalibrationKept` lets a side lose its last point only
  where a third mode has points. The split of four points for each side that
  `audio.rs:263-264` describes is not enforced.
* The balloon has two names: every mode but 0 is "Balanced" (`tray.rs:392-401`). A mode
  2 or 3 that a measurement of low confidence keeps is announced as Balanced, with the
  reason that the fans would be heard. `AnnouncedIsSet` asks of such a mode only that the
  machine was left in it.
* An error in the slow path leaves the test mode set and its load threads running to
  their deadline; the balloon at the end says "Chose" and the mode in which it began
  (`tray.rs:1131-1134`), so that a failure looks like a decision. Quitting in the middle leaves the test mode, and may
  leave a torn file, since the save is not atomic.
* A stress calibration leaves Balanced set and does not switch Smart Sense off. A
  stale calibration is not refreshed by an adaptation, so the fast path stays off
  until the next calibration; the first A/B test without one stores raw powers as fan
  powers, which enables the fast path; a calibration that hears nothing stores zero.
* Clearing the calibration between another thread's load and its save is undone by
  the save.

Developer tools:

* In the walk of `audit-dll-closure` a library first met over a delayed import is
  reported as delayed though a longer load-time path to it exists; `ClosureExact`
  therefore states the other direction only.
* `vsa-spike` ignores the result of the change that puts the account back and deletes
  the snapshot after it; `AccountRecoverable` assumes that the manager never refused.
* The gate and the monitor scan the lock in the tree, and nothing ties that lock to
  the digest; a lock frozen again after the build goes unnoticed (`Merge` without a
  gate), which is why `NothingUnsigned` asks for `Resolved(main) = main.sha.lock`. The job
  of the monitor has no canary, so it needs a live auditor.
* A malware record with detections but without named engines (`flags` empty or missing)
  asks for no sign-off: `mal_verdict` finds nothing to cover and passes
  (`gate.rs:472-491`). The record is in the model ("unnamed"), and on this axis
  `NothingUnsigned` claims what `MalVerdict` does and no more.
* `publish` downloads the artifact once more and compares no digest
  (`release.yml:887-891`; the scan and the attestation before it likewise), although
  `release.yml:537-541` says that a swap on the hop from build to publish fails before
  publish. In the model `Publish` may get other bytes than `Verify` saw, and
  `VerifiedIsBuilt` ends at the verify job.
* With `SIGNING_ENABLED` unset the sign job seals the unsigned bytes and verify does not
  ask for a signature; the release notes then say "Not yet Authenticode-signed." Hence
  `exe.signed = signing` in `VerifiedIsBuilt`.

### Bounds, and why they are enough

* `MonitorOff`: three workers are one more than can be past `Release` while another
  owns the flag; a second caller stands for the reclaiming worker's competitor.
  The proofs need no bound.
* `WriteLimiter`: Burst 10 and Cost 2 are the code's five tokens and one token per
  200 ms; windows of twelve ticks cover an empty, a refilling and a full bucket.
* `ServiceDispatch`: two slots are what the batched read needs; two values tell old
  from new; a bucket of two writes is spent and regained; a call of one tick
  (50 ms) against cooldowns of two makes an entry expire during a call.
* `PipeTransact`: `MaxCalls` 2 lets a client time out and call again, which is what
  a stale reply needs; `MaxStarts` 2 lets the service be killed and started again.
* `MenuCache`: `MaxChoices` 2, `MaxFaults` 2: a second selection during the worker
  of the first, and a failure of each of the two writes.
* `Screen`: three brightness levels tell off, dimmed by the user and bright apart.
* `Capability`: a bucket of two writes makes the probe's own two writes and one
  selection compete; `MaxReports` 2 is needed for a second probe.
* `FnKey`: half-second units keep the code's 2 s and 3 s; `MaxTime` 8 leaves room
  for an act, a sleep, a resume and another act after it.
* `Lifecycle`: two slots, `MaxLaunches` 2, `MaxFaults` 1. Two starts are what an
  update against a tray, two set-ups against each other and a retry after a death
  need; an administrator's swap counts as a start. One fault is a failed step, a
  death or an expired wait anywhere. The machines are one that is known, one that
  must be asked about and one that is no HP. The slots are symmetric (`SYMMETRY`);
  the run checks invariants and one action property, no liveness.
* `Instruments`: a table of three points is full early and may have all three sides; modes 0 to
  2 include one that is neither side; four measures stand for a clear, a marginal, a
  low-confidence and a zero difference; two lists of devices make the microphone
  change between two measurements; two measurements of either kind. For the library,
  an idle time of two sweeps and four menus.
* `Xtask`: six releases on three lines (one pre-release, one without a date) with a
  soak and a cadence of two days over eight days; one advisory on
  two releases; two revisions of the pin, one of them affected, and one more resolution
  of the lock; two merges; a release with signing on and one with signing off; nine images, eight of which
  break one check each, with five manifests; four import graphs with a cycle, a
  diamond and a delayed path; two account trials.

`CHECK_DEADLOCK FALSE` stands where the system may stop: `PipeTransact` when all
calls and service lives of the instance are used up, `MenuCache` and `Capability`
when choices and reports are, `FnKey` when its clock ends, `Lifecycle` when nobody
starts anything any more, `Instruments` and `Xtask` when what was started is over.

### Fairness

* `MonitorOff`: weak fairness of each thread's own steps. The system schedules
  runnable threads, and `SendMessageTimeoutW` returns after a bounded time.
  Nobody is obliged to press the key.
* `PipeTransact`: weak fairness of the service's steps and of each client's steps
  inside a call; a client's wait is bounded by its timeout. No call, start, stop,
  kill or death is forced. The model's clients send their request once they are
  connected, or close, or die; a program that connects and then stays silent is not
  modelled (the server's read has no timeout, see the hazards).
* `MenuCache`: weak fairness of the UI thread, of the worker, and of time passing
  beyond `CACHE_FRESH_MS`. `Converges` states its own premise, weak
  fairness of `Trigger`: sooner or later the user comes back to the menu while no
  warm is in flight.
* `Screen`: weak fairness of the UI thread inside a toggle and of the delivery of a
  posted message.
* `Instruments`: weak fairness of the two measuring threads, whose waits are all
  bounded, of the delivery of their messages, and of the deadline of the load
  threads; for the library, of closing a menu, of time and of the timer. Nobody has
  to start a measurement or to open a menu.

`ServiceDispatch`, `WriteLimiter`, `Capability`, `FnKey`, `Lifecycle` and `Xtask`
check safety only and assume no fairness.

## 5. Modelling decisions

* Integers that only grow (ticks, instants, call numbers) are ages or bounded
  counters. `GetTickCount64` is 64 bits wide and cannot wrap in practice; the
  subtraction of `Instant`s is exact.
* A two-byte frame is the client and the number of its call; a mode or level is a
  small integer. `from_u8` masks to two bits.
* `ServiceDispatch` has no overlapping requests because `service_main` handles one
  connection at a time on one thread. Its instance has the two slots of the menu; the
  temperature's second source, which may answer for another sensor, is left out.
* An error of a BIOS call is a choice before or after its effect, because the code
  sees a return code only.
* The atomics are modelled one access at a time in program order: those of the
  monitor-off protocol are `SeqCst`, those of the menu cache acquire/release with
  one writer of each field at a time.
* In `FnKey` the event has priority over window messages, because
  `MsgWaitForMultipleObjects` reports the lowest signalled index first. `MaxAway`
  is the longest time between two waits: an open menu, a dialog, or a toggle that
  waits for the pipe. Sleep by other means than Fn+F12 sets no suppression in the
  code and is not modelled.
* In `Lifecycle` a build is a number, 1 for the one installed earlier and 2 for the
  downloaded one; a registration, directory or shortcut is one element of a set. A
  helper's step is one call of the system that may fail by itself; calls whose
  failure is only logged and changes nothing else are taken as done. The accept loop
  is one state here and the whole of `PipeTransact` there.
* `Launch` takes any command from either the installed or a downloaded copy, as a
  standard user (an elevated start without arguments ends at once in `main`).
* A measurement is one of a small set of results; decibels are integers, in halves
  where the code takes the mean of two. The interpolation is compared crosswise
  instead of divided, so no rounding is hidden.
* In `Supply` a candidate is a pin whose revision or digest differs from main's, as in
  `candidates`. Advisories and sign-offs are only added. In `Release` `SIGNING_ENABLED`
  is one value for the whole run; a signature is asserted where it is set, and its
  content (chain, key usages) is one Boolean.
* A library that sorts may put equals in any order; `sort_points` is Rust's stable
  `sort_by`, and `SortPoints` states its result by ranks. Inserting and sorting are
  written over sequences and cardinalities, so that they can be proved about.
* `Instruments` and `Xtask` choose one part or command in their first state. The parts
  share no variable, so every behaviour of theirs side by side projects to these.

## 6. Proofs

The theorems hold for every value of the constants that satisfies the named
assumptions; TLC evaluates those assumptions in the runs. Few of the properties are
inductive as they stand. Each part below names the invariant that is, and what it
adds. The step that preserves it is split by action, and the invariants were checked
by TLC before they were proved.

**`ScreenProofs`: the worker** (any sets of callers and workers). `TypeCorrect` is
inductive on its own. The safety properties are not: `NoLostRequest` alone does
not survive `Release`, because nothing says that the thread which gives ACTIVE
back will look at DIRTY again. `IInv` adds that the holder is unique and that ACTIVE
is set exactly while there is one; then `SetDirty` leaves its caller on the way to
`Claim`, a failed `Claim` means there is a holder that will drain, and `Release`
leaves the worker at `Recheck`. `SingleOwner`, `NothingLost` and `FlagExact`
(a leaked claim can never switch the feature off) read their property off `IInv`,
and `Refines` proves that every step is a step of `MonitorOffSpec` or changes nothing
it sees.

**`ScreenProofs`: the toggle** (any number of levels, faults and methods). Between
the two halves of a toggle the traces on the panel do not agree with `isOn`.
`ScreenInv` adds `Halves` (`screen_off` runs with the flag cleared, `screen_on` with
the flag set) and `Saved` (until a transaction fails, the user's level is either on
the panel with nothing saved that would replace it, or it is saved). From these
follow `LeavesNothing` (the black window and the keep-awake) and `RestoresBrightness`
(the level of the panel).

**`TrayProofs`: the Fn key** (any debounce, suppression, delay and absence). `IInv`
carries the age of every press: on the wire it is due `Delay` after it was made or
after the resume, at the event it waits no longer than the UI thread is away. With
`resumed + Suppress = until` and `acted <= last`, a press that passes both guards
is younger than the last resume and at least `Debounce - Lateness` after the last
act. `NeverBounces` needs `Prompt` (way and wait together are shorter than the
suppression) and says so; `Coalesces` needs nothing.

**`TrayProofs`: the menu cache** (any modes, numbers of selections and faults).
`QuietSelectionShown` speaks of the end of a selection and of what a worker started
later does to it. `MenuInv` follows both: `HalfWay` says which of the two atomics
and of the two settings are right at each step of `handle_menu`, with no worker;
`Afterwards` says that a worker of later can only have read what the selection left
(or nothing), and which of the two atomics it has written so far. `ShowsSelection`.

**`ServiceProofs`: the limiter** (any burst, cost and window). `WindowBudget` says
nothing of what is left in the bucket, so it is not inductive; `Ledger` adds the
refilled tokens to the left-hand side. `DeniedOnlyWhenSpent` rests on the opposite
bound, `NothingForgotten`. The arithmetic is in three lemmas about `Refilled`.
`Budget`, `Fair`, `LimiterTypeCorrect`.

**`ServiceProofs`: the request handler** (any slots, values, cooldowns and lengths
of a call). A value that was read can be in three places: the sample of the call under
way, a cache slot, or the reply that is being put together. `SampleTrue`, `CacheTrue`
and `PartsTrue` tie each of them to the hardware: it is what the hardware holds unless
somebody else changed that, and it was so at most this many ticks ago. A write breaks
these ties for one slot; `Phases` says that by then the request has emptied the cache of
that slot and holds no part of a reply. `ReadsItsWrites` and `AnswersAreFresh` are the
two halves of that tie at the reply. `FlagsTrue` follows the byte that
`set_coolsense` reads, and gives `PreservesFlags`, an action property.

**`PipeTransactProofs`** (any clients, copies, calls and starts). A response carries
no number, so `OwnReply` rests on where frames can be: `FramesInFlight` says that a
frame in the pipe or at the service is the owner's, that it is the owner's current
call as long as its end is open, and that it is newer than anything handled until it is
dispatched; `ServiceShape` ties the owner and the frame to the step of the service's loop;
`ReplyFits` says that a response waits only for the client that asked. `IInv` gives
`AnswersOwnCall` and `TypeCorrect`; `KeepsReplies` is the action property that nothing
which waits is cut off; `Refines` proves the safety part of `Implements`: every
step is one of `TransactSpec` or a stutter.

**`CapabilityProofs`** (any modes, bucket, numbers of reports, losses and restarts).
`VerifiedIsProven` compares what the probe found with what the machine did seven
transactions ago. `IInv` keeps the probe's progress (`OneProbe`), when its switch can be
open (`Opened`), the mode this leaves unless the user chose another (`InForce`), and what
the checks passed so far have shown (`Evidence`). `ProofIsReal`, `OnlyOneProbe`,
`RestoresMode`.

**`LifecycleProofs`** (any finite set of slots, any numbers of starts and faults).
`TypeOK` is inductive together with what ties the mutexes to the steps of their owners
(`Mutexes`), and gives `RefusesForLiving` (a set-up is refused only while another lives).
`SetupOutcome` is about the end of a helper's work, so `Stages` says what a helper that
worked alone and without a failure has done by each of its steps. It stays done because
of `OnlyQuiet`: whoever else is alive waits for the tray's singleton, is the tray, or
ends. `KeepsItsPromise`. `TellsStaleTrays` is inductive with `World` and `NoChildLate`.

**`InstrumentsProofs`** (any modes, results, old files and size of the table). For the
balloon, `Alone` (one measurement at a time, a thread or its message) and `Quiet` (nothing
else selects while an adaptation that nobody overrode runs) make inductive that the
mode a measurement decided on is set until it was announced (`ChosenIsSet`); with the
two names of `Balloon` this gives `Announced`. For the file, `OnePointMore` and `SamePoints` say that what a
thread is about to save is the file as it is with one point more, or with new fans: so
no save loses what another one wrote. `Kept` then needs what `insert_point` does to
order and sides, for tables of any length: it takes out at most one point, of the other
side when the new one's has none, and that side's last only where a third one has points
(`NotAlone`, from room for two). A point of a table has a farthest one because its indices
are finite, and `SortPoints` is a permutation because distinct points have distinct ranks and
every rank is taken. The lemmas prove this with cardinalities instead of an
induction over the table.

**`XtaskProofs`** (any releases, advisories, locks, images, import graphs and accounts).
A behaviour follows one command, and `IInv` has one part for each. `Announcements`:
one and only one scheduled run falls into the window of a release, so that it is
announced once, neither twice nor never (`AnnouncedOnce`). `Chain`: what the gate saw
stays true of the branch while it stands; what the merge vouches for is that, whatever
the database learns (`SignedOff`). `Digests`: up to the verify job the digests stand
for the image this build stamped, so what that job accepts is that image, signed when
signing is on, although the bytes in between were anybody's (`ShipsWhatItBuilt`). `Walked`: what is seen or queued is reached,
and what is reached is seen, queued or still to come from there (`WalkIsExact`). `Trial`:
at each step what was saved suffices to put the account back (`CanPutBack`).

### Assumptions

| Assumption | Says | Because |
|---|---|---|
| `ThreadsDisjoint` | callers are not workers | a worker is a thread the code spawns |
| `BucketAssumption`, `WindowAssumption` | natural numbers; a token costs something and fits into the bucket | constants of `service.rs` |
| `DispatchAssumption` | the slots are among the code's four, cooldowns and the length of a call are numbers, nothing cached is told from any value | `CacheSet` |
| `CopiesAssumption`, `NoClientAssumption`, `BoundsAssumption` | copies are clients; nobody is a client; bounds are numbers | - |
| `TimesAssumption` | times are natural numbers | constants of `tray.rs`; `Prompt` is a hypothesis of its one theorem and no assumption |
| `ModesAssumption` | `MenuCache`: there are modes, none of them is "unknown"; `NoiseAdapt`: modes are integers | `cache_store` keeps a value of its own for "unknown" |
| `BrightAssumption`, `MethodsAssumption` | full brightness is positive; methods are the code's three | `ScreenOffMethod` |
| `IgnoresAssumption` | whether the firmware ignores writes is a Boolean | - |
| `MachineBounds` | finitely many slots, natural bounds | - |
| `TableAssumption`, `MeasuresAssumption`, `FilesAssumption` | a table has room for two points; results are integers; an old file holds a sorted table that fits | `MAX_POINTS`; a file was saved by an earlier session |
| `Policy` | soak and cadence are positive, days are numbers, the resident version is a release | `explore.rs`, the schedule |
| `ImagesAssumption`, `GraphsAssumption` | images and import graphs have their shape, a linker signs nothing; finitely many libraries | - |

### What proving corrected

* `Release`: the stamp check skips the date of a null debug entry, so the theorem is about
  the dates it does look at.
* `Candidates`: a resident version that is a pre-release has no candidates.
* `Launcher`: what follows a wait depends on whether the process was started without
  arguments, which `cmd` no longer says once it carries out what the user chose; a field
  of its own (`bare`) now keeps it.
* `Setup`: an installation that could neither create the service nor finds one afterwards,
  because the old registration was marked for deletion, counts as a failed step.
* `CalTable`: the library's sort has no defined result for points of one level; the
  model now says what a stable sort gives.

### Only model-checked

All liveness: `StopHonoured`, `InstanceFreed`, `Converges`, `EscapeWorks`,
`MeasurementEnds`, `GpuReleased` and the liveness parts of `Implements`. They need
reasoning about fairness and ENABLED, which is beyond the prover. `RepairKeepsExe` is
violated (section 4). No safety property of a passing run is left unproved; `Gpu` has
none, since it is about a release that must come.

## 7. Not modelled

* Signal processing in `audio.rs` (FFT, A-weighting, harmonics, peak tracking): pure
  floating-point arithmetic, about half of that file. What it delivers is the input
  of `Decide` and of the table.
* The telemetry thread of a debug measurement (`audio.rs:1174-1179`): it reads
  temperature and mode over the pipe and changes nothing. It is told to stop at
  `audio.rs:1365` only; a measurement that fails before that (`audio.rs:1184`, `1203`,
  `1230`) leaves it running, which no property here depends on.
* COM, WMI and SCM themselves, the parsing of security descriptors and process
  tokens: `Footing` takes what they say, and one abstract check stands on each side
  of the pipe. Of the process mitigations only the set a role locks is modelled.
* Texts, dialogs, icons, DPI and layout; the taskbar's restart and the end of a
  session; the JSON and text of the hardware report.
* Logging and tracing: nothing else depends on their state.
* In xtask the parsing of PE and ELF bytes, the ELF checks, provenance, the planting
  audit and allowances: functions of one file without state. The canary is `Detects`.
  Of the workflows, those outside a release, the gate, the producer and the monitor.
* `identity`, build scripts and resources (generated names), the experiments and the
  self-test tools: not part of the running product.
* What a reader might expect and the code does not have: a record of the brightness
  that was saved when the screen went off, a timeout of the server's read, a restart
  of an update that ended half way. The hazards of `PROJECT.json` without a property
  name these, with the reason.
