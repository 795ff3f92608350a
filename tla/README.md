# TLA+ models of aoahid_player

aoahid_player plays CSV scripts of touches, keys and other HID input on Android phones
over AOA 2.0, records such scripts, and sends live input. This directory holds TLA+
modules of the program, the TLC runs that check them, and proofs by TLAPS of all the
safety properties that the runs check. Paths below are relative to the repository.

| To | Run, in this directory |
| --- | --- |
| check a model | `tlc -workers 2 -config Player.cfg MCPlayer` (`Engine.cfg Engine`, `LiveInput.cfg LiveInput`, `Devices.cfg MCDevices`, `Parts.cfg MCParts`, `Window.cfg MCWindow`) |
| check the proofs | `tlapm PlayerProofs.tla` (`EngineProofs.tla`, `DevicesProofs.tla`, `ScriptProofs.tla`, `TimelineProofs.tla`, `PartsProofs.tla`, `AppProofs.tla`, `SequenceFacts.tla`) |

`PROJECT.json` lists the components, the runs, for every definition the lines of code it
stands for, the hazards and the findings.

## 1. The system

### Parts, their state and operations

| Part | Code | State | Operations |
| --- | --- | --- | --- |
| Player | `src/player.cpp`, `src/timing.cpp` | request bits, `want_paused_`, seek target, speed, time limit, offset, wake word; the walk over the script, `live_` (what is held), anchors | `run()` on the playback thread; `stop`, `pause`, `resume`, `seek`, `set_speed`, `set_stop_at`, `adjust_offset_ns`, `wake_live`, `status` on any other |
| Device group | `src/device_group.cpp` | one slot per phone (active, Nodes, counters), dirty mask | `apply` to all, `flush`, drop a device, `reconfigure`, battery levels, `snapshot` |
| Script and laps | `src/event_script.cpp` | rows, segments with their lap selectors | parse, lap arithmetic, walk over a lap |
| Input state | `src/input_state.cpp` | contacts, keys, buttons, axes, styluses | `apply`, `transition`, `state_at` |
| Engine | `apps/aoahid_player_gui/engine.cpp` | command queue, `phase_`, `running_play_`, `playlist_abort_`, Live's switch and inbox, setup and bridge inboxes | calls of UI and HTTP threads; the worker's `loop()` and `execute()` |
| Session, Device | `src/session.cpp`, `src/device.cpp` | the libaoahid Context, the discovery, the group | refresh, accessory, connect, reconfigure, disconnect |
| Control API | `apps/aoahid_player_gui/control_api.cpp` | none | routes that call the engine, or post to the UI thread |
| App | `apps/aoahid_player_gui/app*.cpp`, `main.cpp` | everything on screen, requests posted to it | the frame loop and its waits; playing, recording, Live input |
| Live tab | `apps/aoahid_player_gui/app_live.cpp`, `app.cpp` | which edges it has sent, what the worker reports as sent, the pointer's capture | callbacks for keys and the pointer, one frame |
| ADB Bridges | `app_adb.cpp`, `app_devices.cpp`, the engine's bridge inbox | switches, rows, running adb commands | switch, poll, connect and disconnect, restart of adb's server |
| Files | `settings.cpp`, `playlist.cpp`, `app_settings.cpp`, `app_playlist.cpp` | settings and what was saved of them, playlists, presets | load, save, apply |
| Recorder | `src/recorder.cpp`, `src/getevent_parser.cpp` | the `.part` file, slots and pending rows | `run`, `stop`; `feed`, `finish` |
| Processes | `src/process.cpp`, `src/adb.cpp` | a child and its pipes | start, read a line in time, finish |

### How they interact

- **Threads.** UI thread, engine worker, one to eight HTTP threads, and short-lived
  recording, paste and adb threads. All calls into libaoahid are the worker's (in
  `aoa_touch`, the main thread's). The worker *is* the playback thread of a run.
- **Commands.** UI and HTTP threads queue commands under `mutex_` and show the phase they
  expect; the worker executes one at a time and sets the phase when it is done.
- **Controls.** Any thread stores a value, sets a bit of `requests_` and wakes the
  playback thread through a futex word; the thread takes all bits with one exchange.
- **Live input.** Callers fold into an inbox under `mutex_`; the worker drains it from
  `run_live()`, or, through a callback, from the player between rows and while paused.
- **Status.** The player publishes through a seqlock, the engine through atomics, a ring
  of sent events, and copies made under the mutex.

### What is hard

Interleavings of lock-free flags with a sleeping thread; a check under one lock that is
acted on under another; controls that outlive the run they were meant for; devices that
are lost at any send; what the devices hold after any order of seek, pause, resume and
loss; Live input and a script sharing one thread; leaving while anything is going on.
`PROJECT.json` has each hazard at its line.

### What makes each part correct

- Player: no control and no live input is slept through; at rest the run agrees with the
  last value of every control; the devices hold what the script holds; a stop always ends
  the run, seek and pause are served once.
- Engine: a stop ends the playback it was posted for and no other; one playback at a
  time; the phase tells the truth; Live that is on is served; leaving never hangs.
- Live input: nothing accepted is lost, reordered or doubled; what Live pressed is
  released when it ends.
- Device group: the devices that are left agree with the record of what is held, however
  others refuse or fail; a request to change one is answered, and never changes a Node
  under a running script.
- Laps, input state, clock: a jump gives the state that playing every row would give; no
  lap drifts; every lap runs, or is passed over because nothing runs on it.
- Reader: a file is accepted exactly if it follows the format, and its rows run on the laps
  they were written for.
- getevent parser: the rows give back what the panel did. Recorder: an earlier file
  survives anything, and the new one is whole.
- UI requests: each is answered exactly once, in time, and runs only if the answer says so.
- Control API: an answer tells what happened.
- Bridges: no bridge is forgotten, none outlives its connection on adb's list.
- Live tab: what is down on the phone is what the user holds down.
- Files: what counts as saved reads back.

## 2. What is modelled

| Module | Models | Extends / uses |
| --- | --- | --- |
| `Playback` | what the player promises: an abstract, sequential playback | |
| `Player` | the playback thread of `run()` and its control threads | refines `Playback` |
| `MCPlayer` | `Player` with a one-row script for TLC | |
| `PlayerProofs` | proofs about `Player` | `Player`, TLAPS |
| `Engine` | the command queue, the worker, playlists, Live's switch | |
| `EngineProofs` | proofs about the engine and the routes of the control API | `Engine`, `Requests`, TLAPS |
| `LiveInput` | the inbox, the pump, `run_live()` and its sleep | |
| `InputState` | what is held on a device's controls, and the way from one state to another | |
| `DeviceGroup` | the slots of the group, `send`, `flush`, drops, `reconfigure`, batteries | `InputState` |
| `Devices` | the worker that owns the group: player, Live and setup requests on the same devices | `DeviceGroup` |
| `MCDevices` | `Devices` with two phones of different setups | |
| `DevicesProofs` | proofs about `Devices` and its group | `Devices`, TLAPS |
| `Laps` | lap selectors, lap lengths, `next_lap`, `LapWalk`, `state_at` | `InputState` |
| `ScriptReader` | `EventScript::load()`, line by line | `Laps` |
| `Timeline` | the player's clock over the script that was read | `ScriptReader` |
| `Getevent` | the getevent parser against a multi-touch panel | `InputState` |
| `Bridges` | the App's bridges, its adb commands, the worker's bridges, adb's server | |
| `Capture` | the Live tab against the window system and the worker's reports | |
| `Stores` | settings, presets, playlists and their files | |
| `Requests` | the routes of the control API against an engine that moves on | |
| `MCParts` | the six of these that stand alone, side by side | `Timeline` .. `Requests` |
| `Desk` | main()'s loop, `handle_ui_requests()`, `post_ui_request()`, closing | |
| `Recorder` | `Recorder::run()` with its child, its files and its end | |
| `MCWindow` | the two parts with fair threads, side by side | `Desk`, `Recorder` |
| `ScriptProofs` | proofs about what `load()` makes of a script, and about laps | `Timeline`, TLAPS |
| `TimelineProofs` | proofs about the playback of a script | `ScriptProofs` |
| `AppProofs` | proofs about Live input, requests to the window, recordings, settings and playlists | `LiveInput`, `Desk`, `Recorder`, `Stores`, TLAPS |
| `PartsProofs` | proofs about the bridges, the Live tab and the getevent parser | `Bridges`, `Capture`, `Getevent`, TLAPS |
| `SequenceFacts` | lemmas on queues, on what is computed step by step, on least numbers | TLAPS |

The names of actions and variables are the code's. Definitions called *Variant* are not
part of a specification: each is what a named definition would be with a plausible bug,
and is used to see that a property notices.

### Player

Each access of the two sides to an atomic, to the seek mutex or to the wake word is a step
(`pc` names the next one), and what the playback thread does between two accesses is part
of the step before. A control call is `BeginCall` (store the value), `FetchOr` (`post()`),
`Bump` and `FutexWake` (`WakeSignal::notify()`); a control without a request bit (time
limit, offset, live input) goes straight to `Bump`. On the other side `Poll`, `Service`
(`Exchange`, retime, seek, pause) and `Hold` are `service()` and `hold_paused()`;
`ReadEpoch`, `Pump`, `ChooseWait`, `Sleep`, `Woken`, `Interrupted` and `Expired` are
`wait_to()` with `Timing::wait_until()`, whose futex compares the word once more before it
sleeps.

The script is a number of rows and `HeldAt[p]`, what uninterrupted playback holds before
the row at `p` (the code's `state_at()`). `Settle` is `settle()`: releases, a flush,
presses, a flush, each of which may lose the last device, so that what `live_` says
afterwards may be the old state, the releases only, or all. Time is abstract: a deadline
may pass at any moment the thread waits for it.

`Playback` is the same without threads: a mode, a position, what is held, and the set of
controls asked for and not served. `Player` maps its request bits, and those taken but not
yet served, to the latter.

### Engine

A section under `mutex_` is one step, every access to an atomic outside of it another.
So `live_start()` is four steps (it reads the phase, resets, switches on, pushes),
`live_stop()` and `disconnect()` two and three, and a seek two (the phase is checked in
`App` or the control API, the request posted later). The worker's `pc` is the command it
executes, or the step of a playlist (`list_check`, `list_run`, `list_next`), of Live
(`live_loop`, `live_off`), of `finish_run()` (`finish`) and of the end of `loop()`
(`done`). A run is numbered; `stop_of` and `seek_of` are the player's pending bits, each
with the run its caller meant, which is what the properties compare. What `Session` and
libaoahid answer (found, opened, lost) is a choice.

Some calls act on what they looked at before (`live_start()` on a phase, `disconnect()` on
a cleared queue), or rely on a playback that is then cancelled. `raced` remembers that
this has happened (`Overtaken`): the properties it breaks are checked without it in the
passing run, and refuted with it in runs of their own (section 4).

### LiveInput

Here the inside of the worker's wait matters too. The condition of `ready_.wait()` is
looked at with the mutex (`Check`), which is held until the worker is blocked (`Block`);
callers that need the mutex are kept out in between (`Locked`), but `live_pending_` is
set, and the condition variable notified, without it (`Pend`, `Notify`). `Push` folds or
appends, `Refuse` is the full inbox; `PumpOff` to `Flush` are `pump_live()`, entered from
`run_live()` or from a playback (`PlayPumps`). Input is a press or release, a Consumer
toggle, or one unit of motion or wheel. Positions and axis values, where the latest wins,
are left out, and so is the retry after BUSY, whose flush changes nothing here.

`wanted`, `accepted`, `sent` and `spoiled` are history: what the accepted edges leave
pressed, and how much motion came in, went out, or was folded into a toggle.

### InputState, DeviceGroup, Devices

A state is a set of payloads, one per control at most: contacts, keys, buttons, axes and
pens all follow this pattern. A profile's Spec is a level: what a phone declares grows
with it, level 0 is off, and one level fails validation. A group operation is an operator
from a group (the slots, what their Nodes hold, what the phones were told, the dirty mask,
the battery levels sent) to the group it leaves, with the devices that fail in it as a
parameter: `Send` is `send()` with its flush and its one retry after BUSY, `Flush` submits
to all and then drains all, `Reconfigure` is `reconfigure()` with validation first.

`Devices` puts them on the worker: rows, pauses, resumes and the end of a run; Live's switch,
`pump_live()` (`PumpOn`, `PumpApply`, `PumpFlush`, `PumpOff`) and `pump_setup()`, which
reconfigures in a pause or without a run and answers "refused" in a playing run. A request
is posted in two steps (`AskLook` tests the phase, `AskPost` queues), so a resume can come
in between. `missed` remembers an edge dropped for one device alone while another took it
(its queue was full twice, or its contacts are used up), which
`docs/ARCHITECTURE.md:123-125` allows.

### Laps, ScriptReader, Timeline

`Laps` is a translation of the arithmetic (`LastRunBefore`, `NextRunFrom`, `NextLap`,
`StateAt`), with `MaxLap` for the largest 64-bit lap, so that the code's care at
`UINT64_MAX` matters. The properties compare it with definitions that walk over the laps.
`ScriptReader` gives `load()` one line per step. A line is its kind with what the reader
tells apart: malformed numbers, waits, coordinates that are integers or fractions, block
heads and ends. `RowsRunWhereWritten` reads the file a second way, by the nesting of its
blocks.

`Timeline` plays what was read on a discrete clock: `DeadlineFor` and the anchors,
`SendRow`, `Wait`, retimes, the offset, seek, pause, resume and the end of a lap; the
thread may be late for any row. The controls are served at once here; the threads
behind them are in `Player`.

### Getevent, Recorder

A panel with more slots than the parser tracks, and a keyboard with frames of its own
between the panel's lines, print lines; the parser reads them one at a time. `truth` is
what the panel held at its last frame, for the fingers the lines told all about: the
code starts a slot at place 0 and learns a place only when it changes. The panel gives a
slot one state per frame.

`Recorder` is `run()` with `ChildProcess`: start, read, drain, flush, finish, the last
rows, `commit_recording()`. adb prints in halves of lines, may exit at any time, and may
leave a server behind that holds the pipe open; writes and the rename may fail; the
program may die anywhere; there are several recordings of one name.

### Desk, Requests

`Desk` has the UI thread's loop as in `run()` of `main.cpp`: the long wait for events
(`Enter`, `WaitEnds`), the comparison of `g_activity` (`Activity`), `App::poll()` with the
batch of requests (`TakeBatch`, `RunOne`), the short doze, the wait of a minimised window
and of the frame cap. Callers post, wake, time out and withdraw; the API's switch joins its
threads, and so does closing. Of the seven kinds of request, one that runs beside
the frames and one the engine answers stand for all.

`Requests` has each route as a record: the phase it looks for, the parameters in the order
they are read, and the call. Between the look, the reading and the call the engine moves.
Numbers are small, and 2^32 is 4, so that a value cut to 32 bits shows.

### Bridges, Capture, Stores

`Bridges` has poll()'s five parts as steps, the switches, the worker's start and stop of a
bridge, adb's commands as jobs that end at any time, retry, recordings, and adb's server
as a set of links. `Capture` has ImGui's event queue (two edges of one button never fall
into one frame), the callbacks between frames, and one frame as one step; what the worker
reports as sent comes back through the ring. `Stores` writes over a temporary file in three
steps, each of which may fail or be the last the program does; a file is a sequence of
lines that is read back by what `settings.cpp` and `playlist.cpp` make of it.

## 3. What is checked

| Run | Instance | Distinct states | Shows |
| --- | --- | --- | --- |
| `player` | 2 control threads, 3 calls (`run()` included), one row, two speeds | 454,000 | `NoLostWakeup`, `ControlsAgree`, `HoldsTheScript`, `StopEndsTheRun`, `RequestsAreTaken`, `LiveInputIsPumped`, `ImplementsPlayback` and its `TypeOK` |
| `engine` | 2 callers, 5 calls, playlists of 2 runs | 318,000 | `StopsOnlyItsOwn`, `OnePlayback`, `PhaseIsTrue`, `LiveIsServed`, `StopEndsPlayback`, `DestructorReturns` |
| `live_input` | 2 callers, 4 calls, a key and a usage, an inbox of 2 | 318,000 | `InputIsPending`, `EdgesKeepOrder`, `MotionIsSentOnce`, `StopReleases` |
| `devices` | 2 phones of different setups, a key and two contacts, 1 request, 1 faulty step | 330,000 | `RetryIsEnough`, `HeldIsRecorded`, `Lockstep`, `BatteryIsTold`, `NodesStayWhilePlaying`, `RequestsAreAnswered` |
| `parts` | scripts of up to 5 lines on up to 7 laps, 3 frames of getevent, 2 bridges, 5 acts on the Live tab, 3 edits with a crash, 2 requests | 1,801,000 | `AcceptsTheFormat`, `RowsRunWhereWritten`, `LapSearchIsExact`, `HeldMatchesStateAt`, `LapsDoNotDrift`, `LapsAreComplete`, `RowsFollowThePanel`, `BridgesAreFollowed`, `ClosedIsDropped`, `PhoneFollowsTheHand`, `SavedIsOnDisk`, `OkIsTrue` |
| `window` | 2 API threads, 2 requests, 1 event; 2 recordings of 2 lines | 466,000 | `DoneOrWithdrawn`, `CallsAreAnswered`, `RecordingIsKept`, `RecorderEnds` |

The properties are commented where they are stated, and `PROJECT.json` names the hazards
each is about. The other six runs are those of section 4.

`MCParts` and `MCWindow` put modules that share nothing side by side: the variable `part`
chooses one in the initial state, a behaviour is a behaviour of that part, and the others
rest in one initial state. The states of such a run are the sum of its parts', never their
product.

**Bounds.** Every bound is a constant with a comment where it is declared; what no bound
limits is unbounded in the model, loops included.

- *Player.* The races are between the playback thread and one or two calls in flight: a
  run with two controls has every pair of kinds at every pair of places, two runs with one
  control have every control that straddles them. One row that leaves a key pressed makes
  every jump, pause and stop change what is held. The theorems of section 5 are about any
  number of threads, calls and rows.
- *Engine.* Connecting takes one call, so five leave four for the interplay of a
  playback, a stop, Live and leaving; the counterexamples of section 4 take no more.
- *LiveInput.* Live on, two inputs and a third call (off, a playback, more input) are what
  the refuted properties take. Two items fill the inbox: one more folds or is refused.
- *Devices.* Two phones are enough for one to refuse, be full or fail alone; their
  surfaces differ, so a contact fits one and not the other. The one request asks
  for a setup that fails, or one that adds, removes and changes Nodes.
- *Scripts.* Three alphabets of lines: every kind of line and fault in files of three
  lines, what decides on laps in files of five, what decides on time in files of three with
  two controls and a clock to 5. Laps go to 7, at which the arithmetic meets its end;
  steps of 2 with a start of 2 or 3 give every phase.
- *Getevent.* One slot tracked of two, so that the other's lines must be dropped; three frames
  are a touch, a move and a lift, or two touches in one slot.
- *Bridges, Capture, Stores, Requests.* The bounds admit what the exceptions in the
  properties name: two switches with two connections and a recording, a press and a
  release around a turn of the tab, a save that fails and a crash, two requests of which
  one is odd while the engine moves once.
- *Window.* Two callers on one window: the second posts while the first is served. Two
  lines and two recordings: the row held back, a line cut in half, and a second recording
  over a first one's leftovers.

TLC's coverage shows that within these bounds every expression of the modules of `parts` and
`window` is evaluated, and every action of all runs is taken.

**Fairness.** The playback thread, the worker, the UI thread's loop, the recording thread and
a call that has begun are weakly fair: they are threads the system runs, and a caller's
wait has a time limit. In `Devices` the worker's look at its requests is strongly fair: it
comes after every pump, and what the player does in between disables and enables it. Nothing
else is fair: no deadline need pass, no script need end, no device need be lost, no adb need
print or exit, no user need act, and nobody need call anything. So `StopEndsTheRun` holds
for a run that is paused for ever, `DestructorReturns` for a playlist that would repeat for
ever, and `RecorderEnds` for a server that never closes the pipe.

**Deadlock** is not checked in any run: when the calls, acts and lines are used up the
system rests, and after `~Engine()` or the closing of the window it has stopped. That it
does not rest too early is what the liveness properties and the properties of quiet states
(`PhaseIsTrue`, `LiveIsServed`, `ClosedIsDropped`, `PhoneFollowsTheHand`) say.

## 4. Where code and text disagree

Each of these is a run that TLC refutes, with the quoted text in `PROJECT.json`.

| Run | What happens |
| --- | --- |
| `late_seek` | A seek is posted after the run it was checked against has ended, and moves the next run. Between the scripts of a playlist nothing discards requests. |
| `two_playbacks` | `live_start()` reads `connected`; another caller plays; `live_start()` pushes its command with the phase `connected`; a second playback is accepted. |
| `live_unpumped` | `live_start()` reads `playing` and leaves its input to the playback's pump; the playback was only queued, and is stopped; nobody pumps. |
| `live_asleep` | `live_send()` sets `live_pending_` and notifies between `run_live()`'s look at its condition and its sleep: the worker sleeps with input in the inbox. |
| `live_release` | Live holds a key through a playback, `finish_run()` queues Live again, and `live_stop()` erases that command as one that pressed nothing: the key stays down. |
| `live_folding` | A mouse move right after a Consumer toggle is folded into the toggle's unused payload and is never sent. |

**Seen in the models, without a run.** The properties leave room for the following by a
named exception (a history variable, or a condition of the property); each is what the
code does.

- *Engine and Player.* Two `disconnect()` calls that overlap queue two commands, and a
  connection made between them is left open with the phase `idle`, which neither connects
  nor disconnects. A pause posted while no run is active is forgotten, since `run()` clears
  `want_paused_` (`src/player.cpp:421`), where `docs/ARCHITECTURE.md:178` says that such a
  control "stays pending and applies when the next `run()` starts". A fast Live off and on
  again keeps keys held. A pause takes its position from the clock: the motion of rows
  that were late is skipped, and motion sent early before the offset was raised is repeated.
- *Devices.* After a release that no device supports, `live_` keeps the control; a
  reconfiguration in a pause and a resume do not press it again. A release that one
  device answers BUSY after another has taken it stays undone on that device (`missed`) until
  the control's next edge or the re-registration of its Node.
- *Getevent, Recorder.* The first contact of a slot is recorded at 0 until the panel has
  named its place on both axes. A stop drops lines adb had
  printed and `run()` had not read, and is not noticed during `getevent -lp` (up to 8 s).
  A `.part` kept from a failed save is truncated by the next recording of that name.
- *Desk.* The waits for the frame cap (`main.cpp:432`) and of a minimised window
  (`main.cpp:404`) take the event that a wake posted, and the activity it counted is
  compared only after the next `glfwWaitEvents()`. A request may then wait until something
  else happens or its five seconds are over and it is refused with 503
  (`README.md:450`: "a minimized window still answers").
- *Requests.* `/live/start`, `/pause`, `/seek` and `/disconnect` may answer ok though the
  engine moved on and nothing was done. `/mouse/button` and `/gamepad/button` cut their
  number to 32 bits: 4294967297 presses button 1.
- *Bridges.* A connect job that has ended but was not polled yet when another bridge's
  start kills the server leaves a row that says linked (`README.md:337-338`). If poll()
  never sees the idle phase between two connections, adb's server is not restarted after
  Disconnect (`README.md:341-342`). A link made during a recording and unpolled at the
  connection's end is never dropped. A retry or restart decided before a recording began
  kills its server.
- *Capture.* A key tapped within one frame, or released while a text field has the
  keyboard, stays down on the phone, though `app.cpp:1089-1092` says that key-ups are
  always delivered. A press under way when the capture ends stays down until the next
  capture. An edge sent while another tab is shown is not reported, so that a contact can
  stay down. `on_cursor()` tests the contact by the last report, so a move right after a release
  puts it down again until the next frame.
- *Stores.* A port that is taken at the start turns the API off for good. A settings save
  that failed is tried again only after another change. Deleting the file of the open
  playlist, or emptying a changed one, still shows it as kept
  (`app_playlist.cpp:124-131`).

## 5. What is proved

TLAPS proves the following for any set of threads, phones, devices and lines of scripts, and for every
value of the bounds. What it assumes are the named assumptions on the constants:

| Assumption | Says |
| --- | --- |
| `PlayerAssumption` | at least one row, `HeldAt` gives sets of controls, normal speed is allowed |
| `EngineAssumption`, `LiveAssumption`, `CaptureAssumption`, `StoresAssumption`, `RequestsAssumption`, `RecorderAssumption` | bounds are natural numbers, the inbox holds something |
| `DeskAssumption` | finitely many threads call; bounds are natural numbers |
| `GroupAssumption` | devices are numbered, there are finitely many controls, each of a profile and with a rank, the level of no battery is not empty |
| `DevicesAssumption` | the setups, rows, inputs and targets given are of their types |
| `GeteventAssumption` | the tracked slots are slots of the panel and no keys, places are not neutral, bounds are natural numbers |
| `BridgesAssumption` | finitely many phones; bounds are natural numbers |
| `TimelineAssumption` | speeds are positive, offsets are integers; a lap limit is at most half the largest lap, as an `int64_t` is of a `uint64_t` |
| `ScaledAssumption` | every wait is a multiple of every speed, so that `Scaled` does not round: `scaled()` rounds each deadline to a nanosecond, which is left out |
| `LapsAssumption`, `ReaderAssumption` | there is a lap; lines are of the kinds `load()` tells apart, a wait or a lap number is a natural number or malformed |

| Theorem | Statement |
| --- | --- |
| `PlayerProofs!TypeCorrect` | `Spec => []TypeOK` |
| `PlayerProofs!WakeupsAreNotLost` | `Spec => []NoLostWakeup` |
| `PlayerProofs!SleepAgreesWithControls` | `Spec => []ControlsAgree` |
| `PlayerProofs!HeldFollowsTheScript` | `Spec => []HoldsTheScript` |
| `PlayerProofs!PlayerImplementsPlayback` | `Spec => ImplementsPlayback` |
| `EngineProofs!StopEndsOnlyItsOwn` | `Spec => []StopsOnlyItsOwn` |
| `EngineProofs!AtMostOneIsPlayed` | `Spec => []OnePlayback` |
| `EngineProofs!ShownPhaseIsTrue` | `Spec => []PhaseIsTrue` |
| `EngineProofs!LiveControlIsServed` | `Spec => []LiveIsServed` |
| `EngineProofs!AnswersSayWhatHappened` | `RequestsSpec => []OkIsTrue` |
| `AppProofs!InputIsNeverMissed` | `Spec => []InputIsPending` |
| `AppProofs!EdgesAreInOrder` | `Spec => []EdgesKeepOrder` |
| `AppProofs!MotionIsConserved` | `Spec => []MotionIsSentOnce` |
| `DevicesProofs!OneRetryIsEnough` | `Spec => []RetryIsEnough` |
| `DevicesProofs!WhatIsHeldIsRecorded` | `Spec => []HeldIsRecorded` |
| `DevicesProofs!EqualDevicesStayEqual` | `Spec => []Lockstep` |
| `DevicesProofs!BatteriesAreTold` | `Spec => []BatteryIsTold` |
| `DevicesProofs!NodesDoNotComeOrGo` | `Spec => NodesStayWhilePlaying` |
| `AppProofs!RequestsRunOrAreWithdrawn` | `DeskSpec => []DoneOrWithdrawn` |
| `ScriptProofs!LapArithmeticIsExact` | `Spec => []LapSearchIsExact` |
| `ScriptProofs!FilesAreJudged` | `Spec => []AcceptsTheFormat` |
| `ScriptProofs!RowsRunOnTheirLaps` | `Spec => []RowsRunWhereWritten` |
| `TimelineProofs!RowsAreOnTime` | `Spec => []LapsDoNotDrift` |
| `TimelineProofs!EveryRowOfALap` | `Spec => LapsAreComplete` |
| `TimelineProofs!SeeksRestoreWhatIsHeld` | `Spec => []HeldMatchesStateAt` |
| `AppProofs!RecordingsAreWhole` | `RecorderSpec => []RecordingIsKept` |
| `AppProofs!SavesAreWhole` | `StoresSpec => []SavedIsOnDisk` |
| `PartsProofs!SwitchesAreCarriedOut` | `BridgesSpec => []BridgesAreFollowed` |
| `PartsProofs!NothingIsLeftLinked` | `BridgesSpec => []ClosedIsDropped` |
| `PartsProofs!ThePhoneFollows` | `CaptureSpec => []PhoneFollowsTheHand` |
| `PartsProofs!RowsTellThePanel` | `GeteventSpec => []RowsFollowThePanel` |

**Why the invariants are as they are.** None of these properties but `EdgesKeepOrder` and
`MotionIsSentOnce` is inductive, or nearly so. What each proof adds:

- *Player*, `WakeInv`. That nothing is slept through is no induction hypothesis: whether the
  thread may go to sleep depends on the epoch it read some steps ago. The invariant follows
  those steps: after the pump, live input that is still there with the word unmoved has a
  caller that will move it; after `requests_` was read, the same of a request; and asleep
  with the word moved, a caller will wake. It is why the epoch must be read before the pump.
- *Player*, `ControlInv`. A value that is stored and not obeyed is accounted for: its bit is
  set, is about to be set, or was taken by the step that will obey it (`PauseInv`,
  `SpeedInv`); a time limit changed while the thread goes to sleep has a caller about to
  move the word (`SleepInv`). `HoldsTheScript` is inductive together with `PausedWhere`,
  which says at which steps the run is paused.
- *Player*, the refinement. It maps requests taken and not yet served to requests still asked
  for. Its step lemmas go action by action and use the invariants above, `ReportInv` (what is
  published agrees with what is done; a stop is acted on before anything else) and
  `PendingInv` (nothing taken outlives its service).
- *Engine*. `StopInv` adds to `StopsOnlyItsOwn` where the worker can be while `running_play_`
  is set: a stop is posted only then, and each way out of those places discards. `EngineInv`
  says, phase by phase, which commands can be queued, where the worker is and who is in the
  middle of a call, as long as nothing has `raced`.
- *LiveInput*. `PendingInv` is `InputIsPending` with the type of `cpc`. The argument is the
  order of `pump_live()`: the mark is cleared before the inbox is emptied, and the caller
  marks after it has pushed. `BatchInv` says that a batch lives from its swap to its
  application only; order and motion then follow from what `After` and `Motion` make of two
  batches joined.
- *Devices*, `DevicesInv`. Of the group: what is held is on a Node of an active device that
  declares it, one value per control, and what no flush is due for is reported (`Sound`);
  devices with the same level of a profile hold the same of it, unless one missed an edge
  (`Alike`); every keyboard was told its battery level (`Charged`); and what is held is in
  the records of script and Live, or its release was missed (`Covered`). Each group operation
  keeps these, by a lemma of its own; the worker's steps then need only say which record
  follows.
- *Desk*, `RequestInv` and `WakeInv`. A request is in the queue or the batch, in one place of it,
  exactly as long as its caller waits without an answer, and what ran was answered so. A
  caller that has woken the loop finds it awake, or its event is there, or was swallowed.
- *Requests*, `RequestsInv`. Until its call a handler has done nothing, and at its call every
  given parameter was read well (`ReadWell`); 200 comes only after that, and with
  nothing done only if the engine has moved on or the route merely sends.
- *Laps*. The arithmetic is taken apart into division with remainder: the latest number of a
  class below a bound, the first one above. Negated selectors are the gaps of that.
- *ScriptReader*, `FormatInv`. As long as there is no error, what `load()` remembers is what the
  format asks of the lines so far (`Remembers`), so it judges the next line as the format
  does (`ReaderJudgesAlike`); once there is one, no continuation follows the format.
  And the segments follow each other, the last is open and is for the laps of the next
  line, and each row is in one for the laps of its own (`Divided`).
- *ScriptReader*, `TimedInv`, says of every lap that each segment takes its lead and its rows'
  waits, that all segments together take what the lines so far take, and that each row
  starts when the lines above its own have passed (`Times`). A wait changes four numbers that
  these sums are made of; dropping the empty segments changes none (`KeptSoFar`).
- *Timeline*, `PlayInv`: `TimedInv`; the walk stands at a row that runs on its lap, at the
  time that row starts, or at the lap's end (`Place`); every row it has passed was sent or
  starts before where the lap was entered (`PassedRows`); and the clock counts from the last
  seek, change or resume (`AnchorInv`). `LapsDoNotDrift` is then a matter of the sums,
  `LapsAreComplete` of `PassedRows` and of what a search for the next lap can skip
  (`NothingRuns`): a lap with nothing to run takes no time.
- *Timeline*, `HeldMatchesStateAt` is inductive next to `PlayInv`. `state_at()` applies whole
  segments in the order in which they last ran, and playback applied rows in the order of
  laps. Both leave on a control its last payload: that of the last row about it in the
  segment that ran last (`Decides`), or nothing (`NoneDecides`). At the end of a lap the one
  that decides is the last row of that lap, if it has one about the control, and the same
  as before if not (`LapDecides`, `LapPasses`). That `OldestFirst` is an order at all, with
  each segment once, is a counting argument over finite sets (`OldestFirstOrders`).
- *Recorder*, `RecorderInv`: which rows are in the stream, held back or told of
  (`RowsInv`), which file holds what at each step of `run()` (`RecordedInv`), and where the
  bytes are that adb printed (`BytesInv`).
- *Stores*, `StoresInv`: every file holds a text that was meant, whole (`FilesInv`); what is
  being saved is what is shown, and nobody edits while a file is written (`SavingInv`);
  and what counts as saved reads back as what is shown (`SettingsInv`, `PlaylistInv`).
- *Bridges*, `BridgesInv`. A bridge is busy from its switch to the poll that reads the
  answer, with one request under way at a time, and the last answer is true
  (`SwitchesInv`); without a connection there are no links, or the restart that drops them is
  queued (`LinksInv`).
- *Capture*, `HandInv`. Where a button or a key will end is read off the queues: the last
  input of a kind among events, callbacks, inbox and reports (`Leads`) takes the phone from
  what it holds to what the hand holds.
- *Getevent*, `GeteventInv`. The property speaks of whole frames, so the invariant says where
  parser and panel stand in the middle of one: which lines can be unread, and that they
  tell the truth (`FrameLines`); that the parser has selected the slot the next of them is
  about (`Selects`); per slot, that what the parser thinks agrees with the rows made
  (`SlotKept`) and with the panel but for what is still unread (`SlotFollows`). `TimeInv`
  counts the waits from the first frame. That a row of one finger does not touch another
  is a lemma on rows played one after the other (`Played`).

**Induction.** The provers here cannot instantiate the library's induction theorems. Where
something is computed element by element, `SequenceFacts` does the induction once, as a
fact about a set of numbers that holds 0 and with each number the next (`StepByStep`):
that such a computation exists (`StepsExist`) and that two which step alike agree
(`StepsAgree`). The proofs about batches, files and segments go through these.

That is also how the theorems speak of recursive functions: of sums over a lap (`SumOver`), of
a walk that seeks, of the rows played one after the other (`ApplyRows`, `StateAt`, `Played`).
What such a function is at each number follows from the number before; its name stands for
the result.

**Only model-checked** are the liveness properties, since TLAPS does not do fairness or ENABLED
here: `StopEndsTheRun`, `RequestsAreTaken`, `LiveInputIsPumped`, `StopEndsPlayback`,
`DestructorReturns`, `StopReleases`, `RequestsAreAnswered`, `CallsAreAnswered` and
`RecorderEnds`. Every safety property that a passing run checks is a theorem. The rounding
of `scaled()` is outside of both: TLC's waits are multiples of the speeds, as
`ScaledAssumption` says.

## 6. What is not modelled

Components without a module, and what a module leaves out of its component, are in
`PROJECT.json` with the reason. In short:

- *Drawing and layout*, colours, pictures, file pickers, fullscreen, and the cards that only
  show: one thread, no protocol. Of the Live tab the gamepad, the pen, paste and scrolling
  are left out; they end in the same calls as the pointer and the keys.
- *Text*: splitting lines, parsing numbers, names of keys, formats, wording, UTF-8, HID
  reports, command lines. Where a fault of the text decides what happens, it is a choice of
  the model (`Malformed`, `Unreadable`, `shape`).
- *libaoahid*, USB, adb and the HTTP library are not part of the repository's sources;
  what they answer is always a choice. Process creation (fork, exec, the Windows half) is
  a choice of success.
- *`Player::status()`*, the seqlock and GET /status: the read is guarded by a counter whose
  proof is about the order of memory accesses. Memory order weaker than sequential
  consistency is not modelled: the flags use acquire and release, and the futex calls
  order the rest. The ring of sent events is unbounded in the models; it holds 4095, and
  overflows only if that many events are sent between two frames.
- *64-bit time*: nanoseconds overflow after 292 years.

## 7. What could come next

1. The rounding of `scaled()`: `LapsDoNotDrift` without `ScaledAssumption`, as a bound on the
   difference instead of an equality.
2. The ring of sent events with its two ends, and the seqlock of `Player::status()`.
3. The liveness properties, with a prover that has fairness and ENABLED.
