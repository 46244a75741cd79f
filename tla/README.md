# Formal models of the Bosch Smart Home Camera frontend

The program is a NiceGUI web frontend (one Python process, one asyncio event
loop, worker threads, child processes) for Bosch cameras: it talks to the Bosch
cloud through the CLI module `bosch_camera`, plays live video through a local
go2rtc process, and records continuously with one ffmpeg process per camera.
These TLA+ modules model the parts of it whose behaviour depends on the order in
which threads, coroutines, processes and users act. Paths below are relative to
`src/src/bosch_camera_frontend/`.

## Inventory

| Component | State it keeps | Operations | What is hard | Modules |
|---|---|---|---|---|
| Local recorder, `adapters/nvr_manager.py` | dictionary of recorders; per recorder a stop event, a watcher thread, an ffmpeg process | `start_recording`, `stop_recording`, `stop_all`, the watcher `_run`, the shutdown hooks | start, stop and watcher interleave; ffmpeg dies or ignores SIGTERM; the join times out | `NvrManager` |
| go2rtc process, `adapters/go2rtc_manager.py` | the child, its configuration, the flag of an adopted instance, two locks | `ensure_running`, `stop`, the stream requests, the shutdown hooks | start races with start and with stop; the child crashes; other programs hold the port | `Go2rtcManager` |
| Stream session, `adapters/stream_session.py`, and the live view, `camera_detail.py` 217-348 | the selection, the page's session, players, timer, disconnect handler | `_setup_live`, `_on_quality_change`, `start`, `refresh`, `stop` | awaits between test and effect; runs overlap; the page closes during the start | `LiveView` |
| Cloud requests, `adapters/cli_bridge.py` 246-1301 | the documents in the cloud | `get_*`, `set_*`, rules, friends | read-modify-writes overlap; a read fails before a write; a PUT times out | `Register`, `CloudBridge` |
| Firmware update, `cli_bridge.py` 930-972, `camera_detail.py` 673-739 | what the page has announced | load, confirm, check, install | the offer changes, another page installs | `Firmware` |
| Configuration and cameras, `cli_bridge.py` 94-189, `settings.py`, `app.py` | one dictionary in NiceGUI's storage, the camera dictionaries in it, a file | load, save, reload, `get_cameras` | pages hold old dictionaries | `CameraConfig` |
| Local data interface, `adapters/local_data_interface.py` | last status per camera | `fetch_status`, the gate, the choice of the source | stale status; version numbers | `LocalData` |
| Switches, `camera_detail.py` 360-947 and 1183-1223, `components/camera_card.py` | value, guard, handlers under way | load, toggle, revert | handlers run later than the change that caused them, and for the page's own changes too | `ToggleControls` |
| Forms, `camera_detail.py` 436-798 and 1026-1073 | widgets, label, handlers under way | load, edit, apply | widgets change during the await | `FormControls` |
| Lists, `camera_detail.py` 957-1021, 1078-1262, 1265-1327; `nvr_manager.py` 72-126 | rows, handlers under way, the segments on disk | load, delete, add | loads overlap | `RowLists` |
| Live player, `components/live_player.py` (JavaScript) | peer connection, hls.js instance, retry counters, timers | start, stop, recover | nothing cancels an attempt | `LivePlayer` |
| Snapshot player, `components/live_snapshot_player.py` | `_playing`, `_in_flight`, timer | start, stop, `_tick`, visibility | a tick in flight across stop and start | `SnapshotPlayer` |

How they interact: the camera page calls both managers through
`asyncio.to_thread`, so their methods run concurrently in worker threads; the
SIGTERM handler and the atexit hook call `stop` and `stop_all`. A watcher thread
of the recorder calls the CLI bridge (synchronously) for a URL. A stream session
asks its resolver (cloud or local data interface) for a URL and registers it
with go2rtc under the camera's stream name; the browser's player reads that
stream from go2rtc. Every switch, form and list of the page awaits a function of
the CLI bridge, which runs in a worker thread; the settings page and the
recording switch write into the camera dictionaries that `get_cameras` replaces.

## Modules

Each component has a module. The theorems of `NvrManager`, `Go2rtcManager`, `LiveView`,
`CloudBridge` and `CameraConfig` are in `<module>Proofs`; those of `Firmware` and
`LocalData`, and of the four cloud modules together, in `CloudProofs`; those of the two
players in `PlayerProofs`; those of switches, forms and lists, and of the five page
modules together, in `PageProofs`. `Register` is the abstract specification that
`CloudBridge` implements. `MC*` modules and their cfgs are the instances that TLC
checks: `MCNvrManager`, `MCGo2rtcManager`, `MCLiveView`; `MCCloud` puts
`CloudBridge`, `Firmware`, `CameraConfig` and `LocalData` into one run, `MCPage` the
five modules of the page and its players. A variable `part` says which of them a
behaviour is about; the others stand still.

Operators whose comment begins with `Slip:` are plausible mistakes in the
operator that follows them. Nothing uses them; they replace that operator when
the strength of a property is tested (`mutants` in `PROJECT.json`).

### NvrManager

A step is one region under a lock or one blocking call. A caller is a thread
inside `start_recording` (`LookUp`/`Create` under the manager's lock, then
`StartRunning`/`StartThread` under the recorder's), `stop_recording`
(`StopRecording`, then `Signal`, `Terminate`, `Terminated`/`Kill`,
`Joined`/`JoinTimeout`, `Clear`) or `stop_all` (`StopAll` or `AtExit`, then the
same for each recorder it took). A watcher is at a place of `_run`
(`CheckLoop`, `Spawn`/`SpawnFails`, `HandOff`, `SelfTerminate`, `SelfWait`,
`Reap`, the four exits, `Retry`, `Backoff`, `Woken`). `Event.wait` returns True
to a waiter that was woken even if the event has been cleared since: that is
what the place `woken` is for. Recorders, threads and processes are objects, and
an identity is used again once nothing refers to it.

Abstracted: the order in which `stop_all` takes its recorders (any order),
`last_error`, the folder and the resolver of a recorder, the wording of the
ffmpeg command. A resolver that fails and a Popen that fails are one action.
The exponent of the backoff is a counter up to `FloatExpLimit`, which is 1024 in
the program (the least n for which 5.0 * 2**n raises) and 2 in the instances.

Properties: `NoLeakedFfmpeg` (the claim of the comment in `_run` on a stop that
overtakes a spawn), `OneWatcherPerTracked`, `StopHitsOnlyForgotten`,
`TrackedWatcherSurvives`, and under fairness `StopEndsRecording` and
`CallsReturn`. `ForgottenIsStopped` and `ReapedOnShutdown` are
what the docstrings promise; they hold for one calling thread and a prompt
resolver.

### Go2rtcManager

A caller is a thread in `ensure_running` or `stop`; the places of the start-up
are those where it holds `_start_lock`. `_proc` and `_cfg_path` are assigned
together, so the child names its configuration (`files` is the set of children
whose configuration is on disk). The child boots (`Bind`), dies at any moment
(`Die`), and may ignore SIGTERM; another go2rtc (`external`) or another program
(`foreign`) may take and leave the port at any moment. `_api_reachable` takes
any HTTP answer for go2rtc's, as the code does. It catches `URLError` only: an answer
that comes too late, or breaks off, raises something else, which leaves
`ensure_running` with the child in `_proc` (`AwaitRaises`).

Properties: `NoLeakedChild`, `SingleChild`,
`StartIsExclusive`, `AdoptsOnlyOthers`, and under fairness `CallsReturn` and
`StoppedLeavesNoConfig`.

### LiveView

One event loop: a step is the code between two awaits, or what a request does to
go2rtc. Each run of `_setup_live` makes one `StreamSession`, so a run and its
session have one identity; the place in `pc` is that of the run, of `start()` or
of `refresh()`. `stop()` is `StopAll` up to its await and `Remove`,
`RemoveFails` or `RemoveRaises` after it. A registration is a PUT and a
verification, and each may fail although go2rtc has the stream: the PUT is taken
and its answer comes too late (`PutFails`), the verifying GET goes wrong
(`VerifyFails`). `start()` then reports a failure and nobody owns the stream.
`orphans` is a history variable of such cameras, which `ClosedIsFreed` leaves out. NiceGUI is modelled from how the page uses it: the
handlers of `app.on_disconnect` are called for every client that goes, timers
die with their page, a coroutine that is under way does not. `streams` is
go2rtc's table: the quality of the source under the camera's name.

Abstracted: the resolver answers, or not. Which source it chooses, what a
local-only camera changes, and the snapshot tier are in `LocalData`.

Three constants bound what users and go2rtc do. `Tabs` is the number of pages
open at a time. With `Overlap` FALSE a user acts only while nothing is in
flight, refreshes included. With `Faults` FALSE go2rtc keeps its streams and
obeys a DELETE; failing registrations are there in every instance.

### Register and CloudBridge

The vendor's API has one document per section and camera. A PUT replaces it, and
resets every field it leaves out. `CloudBridge` runs any number of worker threads
on one document of one of twelve sections (`kind`): seven whose function sends the
whole document, the light override, whose function fills in what it was not given,
and four that read the document, change it and write it back (`Merged`), in two
requests and without a lock: lighting schedule, siren duration, rules, friends.
A read that fails counts as an empty document, except in `edit_rule`. A request may
raise before or after the cloud has taken it. Rules and friends are also created
and erased.

`Register` is what a caller may rely on: a call takes effect at one instant or not
at all; `(True, None)` means it did, an error means it did not, an exception leaves
it open; fields the call does not name stay as they are. `Implements` is the
refinement, with the document as the register and a read as a stutter. The last
promise is only made when `exact` holds: either the section's function does not
merge, or merging calls do not overlap and their reads succeed (`tidy`). That is
the lost update of `share_camera` and the like, stated as the condition under which
it cannot happen; without it, a call still gets the fields it names.

### Firmware

Several pages of one camera: load, button, confirmation, the check that
`install_firmware` makes by itself, the PUT. The vendor offers and withdraws
updates meanwhile. `InstallsAFreshOffer`: whatever a page has announced, what it
asks for was on offer after the user confirmed. A read that raises ends the handler
and leaves the panel as it was (`FwRaises`). `InstallsOnce`: users who wait for
each other never start an install while one runs, from however old a page.

### CameraConfig

Dictionaries are objects named by numbers: `cfgs` the configurations that were
loaded, `cams` the camera dictionaries. A tab holds what it found when it was
opened. `AskCameras`, `CamerasListed`, `CamerasReplaced` are the three moments of
`get_cameras`: it takes the cached dictionaries, copies their local fields, puts
the copies in place. A save writes the configuration the page has, as it is now.
`asked` is what the user has been told is saved (after a failed save: either
value). The program keys its dictionaries by title, so of two cameras with one title
one is there (`Listed`). `SavedIsKept` holds for a careful user, who reloads, and opens
pages again, after a dashboard or `token fix`, and whose cameras have different titles;
the run `config_stale` shows why he must keep his pages fresh.

### LocalData

The status cache, the firmware gate and the source of each view of one camera, while the
owner switches the interface, updates the camera and changes the password. A view has the
password of the camera entry its page holds, which a save on another page changes only if
both hold the same entry. `_setup_live` reads `local_source_wanted` once; the resolver
reads it again at the start and at every refresh (`Decide`), and then awaits the cloud
(`Opened`). `learned` says that the cached status comes from an answer given since the
last switch. `FailsClosed`: once it is known that the interface is active, and while it
is, no view with a good password asks the cloud for a stream. A stream that was asked for
before another view learned it may still be opened: the code checks before the await and
not after it. `UpdatesKeepTheInterface`: comparing versions as tuples agrees with "newer"
for versions of any length.

### ToggleControls, FormControls, RowLists

One switch, form or list at a time (`switch`, `form`, `list`), chosen in the
initial state, with its handlers as tasks of the event loop. NiceGUI is modelled
from how the page uses it: assigning a value that differs queues the change
handler, whoever assigns; the body of a handler runs later. A write is taken,
refused, or raises with or without effect. `patient` users act only while nothing
is under way, `hasty` ones at will; in a form, an `editing` user sends one request at a
time and moves the widgets meanwhile. A ping that raises leaves the card at its error
and no load follows.

What a form sends is not always what its widgets hold, and what the camera has is not
always what they show. `Blank` stands for both: in a widget a cleared field, which is
sent as a default (`Sent`: intrusion, siren) or left out (lighting, where the cloud's
document keeps the old time, `Written`); in the camera a time with seconds, or none, or
a mode that a selection does not list, which leaves the widget as it was (`Shown`).
`FormIsTruthful` checks the label in these states too, and compares the widgets where
they can show what the camera has.

`SettledIsTruthful`, `FormIsTruthful` and `ListIsTruthful` say that what the page
shows once everything has ended is what the other side has, `OnlyClicksAreWritten`
that a load or a revert writes nothing (for the guarded switches of the cloud),
`HandlersEnd` that a failing write is not repeated for ever. What is excluded is
stated in each: a request that raised, a load that failed, a click that was
swallowed.

### LivePlayer and SnapshotPlayer

`LivePlayer` is the JavaScript class and its control bar. Every `start` makes an
attempt in a slot: the promise with its timer, and beside it the chain of awaits
(`gathering`, `fetching`, `answered`), then the HLS fallback, by hls.js or by the
browser itself (`HlsNative`). `stream` is the object all attempts share. Nothing cancels
an attempt, so it may go on after a stop or a second start. Fatal errors of hls.js are
counted per kind and retried up to `HLS_FATAL_RETRY_MAX`; the counter passes the cap by
one, and the model does not count further. The stall checker runs from the moment the
listeners are attached to the next stop, recovery or tick that finds the stream not live
(`CheckerTick`); only the first two are followed by another.

The code lets a viewer click at any time. `May` is an assumption on the `patient` viewer:
he clicks, and comes back to the tab, only once an attempt has ended; the `hasty` one does
what he likes. `NothingLeaks`, `StickyIsHls` and `LiveIsLive` are for the patient viewer,
`OneRecovery` for both. `LiveIsLive` says that a bar that shows a stream torn down by a
recovery as live does not do so for ever.

`SnapshotPlayer` has the loop timer, the one-shot timers of `start`, the request in
flight. `OneFetch`: one request at a time. `KeepsFetching`: for a user who goes on
playing and watching, frames are asked for again and again.

## Runs

Passing runs:

| Run | Instance | What it shows |
|---|---|---|
| `nvr` | 2 cameras, 2 recorders, 3 watchers, 2 ffmpeg, 2 calling threads, joins may time out | no ffmpeg out of reach, one watcher per tracked recorder, a stop hits what it was for, a wanted watcher goes on |
| `nvr_live` | 1 camera, 1 recorder, 2 watchers, 2 ffmpeg, 2 calling threads, fairness | calls return, a stopped recording ends |
| `nvr_one` | 2 cameras, 1 calling thread, prompt resolver | the promises of the docstrings |
| `go2rtc` | 2 children, 3 calling threads, both kinds of other program, fairness | no child lost, one wanted, exclusive start, calls return, configurations of stopped children go |
| `live` | 2 successive pages of one camera, 2 sessions, 2 qualities, patient user, failing registrations | the player has its stream, the quality, alone; a closed page frees it |
| `live_overlap` | 2 pages at once, impatient users, faults, fairness | what survives all of it: `RemovingIsStopped`, `SetupEnds` |
| `cloud` | each of 12 sections with 2 threads and 2 values; 2 pages and 2 updates; 2 tabs, 1 camera, 2 titles, 2 local values, 4 objects; 2 views and 6 versions | the refinement `Implements`, and the properties of `Firmware`, `CameraConfig`, `LocalData` |
| `page` | each of 6 switches with 2 clicks, 6 forms with 4 acts, 4 lists with 2 items and 3 moves, 2 attempts of the player, 2 one-shot timers; fairness | what is shown is true once settled, handlers end, nothing leaks, the player recovers |

Violation runs: what a docstring or a comment promises and the code does not do.

| Run | Promise | What happens |
|---|---|---|
| `nvr_forgotten` | `stop_recording`: "stop and forget" | a start that overlaps it revives the removed recorder |
| `go2rtc_reuse` | `ensure_running` "returns True if a usable instance is running afterwards" | an adopted instance that has ended counts as running for ever |
| `live_tabs` | the session "keeps the source fresh while the view is open" | closing any page stops the sessions of all |
| `config_stale` | local-only fields "are preserved across refresh, keyed by camera id" | a page opened before a refresh writes its password into dictionaries that are no longer saved |

Met while modelling, and not kept as runs.

Recorder: after 1024 fast exits in a row the product of the backoff overflows and
the watcher ends unstopped (`nvr_manager.py` 252; the model has this exit,
`ExitOverflow`, and `TrackedWatcherSurvives` allows no other). With two calling
threads `start_recording` may return True for a recorder that is being stopped;
with a resolver slower than the join's ten seconds an ffmpeg may outlive the
program.

go2rtc: `ensure_running` returns True from its first test while another thread
still waits for the child's API; a start that follows a stop closely adopts the
manager's own dying child; after a crash and a respawn the configuration of the
first child stays on disk.

Live view: a refresh that awaits the resolver while its session is stopped registers
the stream again (`stream_session.py` 83, against lines 80-81); a quality change during
the start-up leaves two players (`camera_detail.py` 342-344); a page that closes during
its start-up leaves a stream behind, because the handler is registered after the
disconnect (`camera_detail.py` 333); so does a registration that go2rtc has taken and not
confirmed (`orphans`); a start or refresh with the old quality may register last. These
are why `live` has a patient user.

Configuration: two cameras to which the vendor's app gives one title share one entry, and
the next save drops the local fields of the other (`cli_bridge.py` 160); a page that was
opened before `token fix` and a reload writes the old token back (`settings.py` 151).

Page: the guard of a switch is raised even if the load changes nothing, and then
takes the first click for the page's own (`camera_detail.py` 825; `swallowed`);
the privacy and light switches and the card's have no guard that lasts until
the handler runs, so a load writes what it has just read; a request that raises
leaves a switch where the user put it (`unsure`); motion and intrusion labels read the
widgets after the await; two loads at once show a row twice; a
cleared time leaves a blank widget and a label that says updated, with the old time in
the camera (`camera_detail.py` 783). In the player a
hasty viewer can leave a connection that nothing names, and a fatal error of hls.js
before the first frame ends in no recovery, because `_recover` returns while not
live (`live_player.py` 482); a tab that is shown again while the player connects starts a
second attempt beside the first, whose connection outlives a stop (line 633); a stream
whose first frame comes after the checker's first tick is live without a checker (line
381). `_setup_live` reads `local_source_wanted` once and the
resolver again (`camera_detail.py` 300 and 281): the two may differ, and a
local stream that then fails falls back on the snapshots of the cloud. A resolver that has decided for the cloud
opens it even if another view has learned meanwhile that the interface is active
(`camera_detail.py` 286).

### Bounds

The instances are as small as the hazards allow. Recorder: two callers are needed
for a start to overlap a stop; two recorders for a name to get a second one while
the first is being stopped; three watchers so that the old thread of a recorder,
its new one and one of the other recorder coexist; two ffmpeg so that an old and a
new one do. go2rtc: two children for a respawn, three callers so that a start, a
start that waits for the lock and a stop coexist. Live view: two sessions for an
old and a new run; two views for the shared disconnect handler. Cloud: two threads are a read-modify-write and its
rival, two values tell a stale field from a new one. Configuration: four objects
allow a reload and two refreshes, so that a tab may hold any of three generations.
Versions: the empty one, equal ones up to a missing part, and 9.41 against 9.40.105
against 10.0.0. Page: two clicks are a click and one that overtakes its handler, or
one after a revert; three moves are a change, a load and a load that overlaps;
two attempts are one that lingers and its successor. The violation runs use instances
just large enough for their counterexamples. Clicks, moves, acts, tokens and
objects are bounded counters. Identities elsewhere are recycled, so behaviours are
not bounded in length. Every bound is a CONSTANT; an action that needs a free
identity waits for one, which only removes interleavings with more live objects
than the instance has; the proofs hold for any number.

### Fairness

`NvrManager`: weak fairness of each thread's next step, since threads are
scheduled and every wait but `proc.wait()` has a timeout (the resolver's requests
have), and of the death of a process that got SIGKILL. Nothing is assumed of an
ffmpeg that only got SIGTERM. `Go2rtcManager`: the same, and strong fairness of
taking `_start_lock`: a thread that waits for a lock that becomes free again and
again gets it. `LiveView`: the event loop runs what is ready, requests have
timeouts and timers fire. `ToggleControls`: the loads, the queued handlers and the
requests of a switch go on. `LivePlayer`: timers fire and a script loads or fails;
nothing is asked of the network or of the camera. `SnapshotPlayer`: timers fire and a
request ends. Users, crashes and other programs are never assumed to
do anything.

## Proofs

Checked by TLAPS, for any number of names, threads, processes, callers, pages, sessions,
clicks and items, from the named assumptions on the constants (null values are not
members, the limits are positive, the flags are Booleans) and, where a theorem has one,
from the hypothesis it states. Every invariant and every action property of the passing
runs is a theorem.

- `NvrManagerProofs`: `Invariance` (`Spec => []IInv`), and from it
  `TypeCorrectness`, `NoLeak`, `OneWatcher`, `StopHits`, `WatcherSurvives`.
  `NoLeakedFfmpeg` is not inductive. It needs that a process has one owner and
  that whoever refers to it through a recorder or through the local of a `stop()`
  means that owner's recorder (`ProcInv`), that a recorder is stopped once at most
  (`RemovalInv`), that only a removed recorder is stopped (`StopInv`), and that
  until its `stop()` has ended a recorder knows its watcher and its process
  (`ThreadInv`): only then does a `stop()` that reads `_proc` see the process it
  has to terminate. After `stop()` has ended, a start may revive the forgotten
  recorder, which is why `OneWatcherPerTracked` speaks of tracked ones.

  `ForgottenStops` and `Reaped` are the promises of the docstrings. They assume one
  calling thread (`OneCaller`), because with two the run `nvr_forgotten` refutes the
  first; `Reaped` also assumes that a resolver returns before the join gives up
  (`~SlowResolver`). `ForgottenInv`: the recorder a `start()` is working on is still in
  the dictionary, so no start can clear the stop event of a forgotten one; a forgotten
  recorder with a live watcher is stopped, or its `signal` is still to come. `ReapInv`:
  such a recorder is inside its `stop()` before the last region, and the join is of this
  very watcher, so when the call returns the watcher has ended, and with `NoLeakedFfmpeg`
  its ffmpeg is not recording. `PhaseInv`: after the atexit hook the dictionary stays
  empty.
- `Go2rtcManagerProofs`: `Invariance`, `NoLeak`, `Single`, `Reaped`, `Exclusive`,
  `AdoptsOthers`. The invariant says who holds `_start_lock` (`LockInv`), that
  locals and `_proc` name different children (`KidInv`), that no old child is
  alive from the second test of `running` to the store of the new one
  (`StartInv`), that a child holds the port no longer than it lives (`PortInv`),
  and that the shutdown hook meets no start (`ExitInv`).
- `LiveViewProofs`: for any pages, users and faults `TypeCorrectness` and `Removing`. The
  invariant is the conjunction of the two: a run that has not ended has
  a session that is neither active nor being removed, so its end cannot cross the
  removal of the same session.

  Under `Patient` (one tab at a time, no overlapping acts, a go2rtc that keeps its
  streams: the instance of the run `live`, whose refutations without it are listed above)
  `StreamWhileWatched`, `SelectionApplied`, `SinglePlayer`, `FreedOnClose`. The four speak
  of moments when nothing is in flight; `PatientInv` says what holds in between: one
  coroutine is under way at most (`BusyIsAlone`), a removal runs alone (`RemovedAlone`),
  an active session is that of the open page (`ActiveIsShown`), a player belongs to an
  active session or to a page that waits for a `stop()` (`ShownIsActive`), go2rtc has no
  stream that nobody owns but one that a failed start left (`StreamIsOwned`), and what was
  or is about to be registered has the selected quality (`StreamIsSelected`).
- `CloudBridgeProofs`: `CloudTypeCorrectness` and `Implementation`
  (`CloudSpec => Implements`). `CloudInv` says what each call asks for (`CallsAsk`),
  that the body of a PUT has the fields the call gives and none it drops, and, while
  calls are tidy, that it is the present document with the call's changes
  (`BodiesServe`): the document cannot have moved since the read because nobody else
  is under way (`TidyCallsAreAlone`). Each step is then a step of `Register` or a
  stutter.
- `CloudProofs`: of `Firmware` `FwTypeCorrectness`, `FreshOffer`, `OneInstall`, from the
  facts that what a page is about to install was read after its confirmation, and that
  users who wait have one page busy. Of `LocalData` `NoCloudStream`, by the invariant that
  an answer given since the last switch is the present state, and so is a cache that was
  learned from one, so that a view that decides for the cloud while the state is known to
  be active has no good password; and `UpdatesKeep`, from the lemma `NewerIsAtLeast` on
  versions of any length. Of the run `cloud` `CloudTypes`: the four invariants side by
  side are an invariant of the composition, since a step of one part leaves the others
  alone.
- `CameraConfigProofs`: `ConfigInvariance`, `ConfigTypeCorrectness`, `Saved`. For a
  careful user `SavedIsKept` needs that one dashboard at a time is on its way, that a
  dashboard of the loaded configuration asked with the cameras that are still in it, and
  that the copies it is about to put in place hold what the user may find; pages of an
  older configuration replace cameras that no new page will see.
- `PlayerProofs`: of the live player `PlayerTypeCorrectness`, `SingleRecovery`, `NoLeak`,
  `NoFlip`, for any number of attempts. `NothingLeaks` needs, for a patient viewer, that
  an open connection or instance is the one the stream names, that one attempt at most
  can still do something, and that the bar is stopped only when nothing is open. Of the
  snapshot player `SingleFetch`, and `Quiet` (the loop rests while the tab is hidden and
  while the user has stopped).
- `PageProofs`: `Truthful` and `OnlyClicks` of the switches. For a user who waits one
  handler is queued or one request is under way, never both, and its value is what the
  switch shows (`ToggleOrder`); a handler the page queued for a guarded switch finds the
  flag up; a click makes the switch the opposite of the other side until a request is
  taken or reverted (`ToggleTruth`). `FormTruthful` of the forms: an answered request
  carries what the camera has (`FormOrder`, but for a time that was left out), and the
  label is right unless a request has just changed the camera (`FormTruth`).
  `ListTruthful` of the lists: an item that was there when the last load began has a row
  or a handler under way that will bring one or count its failure (`NoneMissing`; it holds
  however loads overlap), and for a user who waits a load finds the container empty
  (`OneJob`). `PageTypeCorrectness` is the type invariant of the run `page`. The lemma
  `Removed` says what is left of a sequence from whose middle an element is taken:
  requests end in any order.

Only model-checked: what needs fairness, which this prover cannot do (`StopEndsRecording`,
both `CallsReturn`, `StoppedLeavesNoConfig`, `SetupEnds`, `HandlersEnd`, `LiveIsLive`,
`KeepsFetching`); and the four violation runs, which are counterexamples.

## Not modelled

Rendering, wording and layout of the pages; the CLI module `bosch_camera` itself; the
video protocols; audio, picture in picture and full screen of the player; functions
that only read from the cloud and show what they read (wifi, feature flags, unread
count, the page's single snapshot); the debounced snapshot of a card; the path guard
of `delete_segment`, since the page only passes names that a listing returned; the
stub `hls_player.py`, the options of `app.py` and the package set-up. The components
with their status are listed in `PROJECT.json`.
