-------------------------------- MODULE Bridges --------------------------------
(***************************************************************************)
(* The ADB Bridges of the connected phones and adb's server: the App's     *)
(* switches and its poll(), the engine's worker that starts and stops a    *)
(* bridge, and the adb commands the App runs beside its frames.  Bridges,  *)
(* adb's server, recordings, connections and the refresh of the device     *)
(* list go their own ways, and what one of them has done is seen by the    *)
(* others only at the next poll.                                           *)
(***************************************************************************)
EXTENDS Naturals, Sequences, FiniteSets, SequencesExt

CONSTANTS
  Phones,         \* positions in the group of connected devices
  MaxSwitches,    \* bound: switches of a bridge
  MaxConnects,    \* bound: connections
  MaxOthers       \* bound: recordings, refreshes and playbacks

ASSUME BridgesAssumption ==
  IsFiniteSet(Phones) /\ MaxSwitches \in Nat /\ MaxConnects \in Nat /\ MaxOthers \in Nat

VARIABLES
  engine,      \* the engine: its phase, setup_version_, the bridges that listen
  inbox,       \* bridge_inbox_
  events,      \* bridge_events_
  polling,     \* where the window's thread is in poll()
  last_phase,  \* last_phase_
  rows,        \* bridge_rows_, bridge_version_
  jobs,        \* adb_jobs_, in their order
  prep,        \* retry_task_: "none", "kill", "spare" (skip_adb) or "ready"
  recording,   \* a record thread is there
  server,      \* adb's server: [up, links]; the phones it is connected to
  installed,   \* adb is on PATH
  switches, others, \* so far
  missed       \* history: poll() saw the end of the last connection too late, after the next
               \* was begun or without its beginning; or the server was spared then

appState == <<polling, last_phase, rows, jobs, prep, recording, missed>>
bridgeVars == <<engine, inbox, events, appState, server, installed, switches, others>>

BridgeRow(busy, linked, missing) == [busy |-> busy, linked |-> linked, missing |-> missing]
Off == BridgeRow(FALSE, FALSE, FALSE)

NoRows(version) == [version |-> version, of |-> [p \in Phones |-> Off]]

BridgesInit ==
  /\ engine = [phase |-> "idle", version |-> 0, on |-> {}]
  /\ inbox = <<>> /\ events = <<>> /\ polling = "away" /\ last_phase = "idle"
  /\ rows = NoRows(0) /\ jobs = <<>> /\ prep = "none" /\ recording = FALSE
  /\ server = [up |-> FALSE, links |-> {}] /\ installed \in BOOLEAN
  /\ switches = 0 /\ others = 0 /\ missed = FALSE

connected == engine.phase \in {"connected", "playing"}

AdbJob(kind, p, version) ==
  [kind |-> kind, phone |-> p, version |-> version, state |-> "new", ok |-> FALSE]

\* run_adb_job() and restart_adb_server().
Connect(p)     == AdbJob("connect", p, rows.version)
Disconnect(p)  == AdbJob("disconnect", p, rows.version)
RestartJob     == AdbJob("restart", 0, rows.version)

\* One job for each of some phones; nothing depends on the order among them.
ForEach(kind, set) ==
  LET order == SetToSeq(set)
  IN [n \in DOMAIN order |-> AdbJob(kind, order[n], rows.version)]

Killed == [up |-> FALSE, links |-> {}]

-----------------------------------------------------------------------------
(* The window's thread between two polls: the switches, the buttons, the   *)
(* requests of the API                                                     *)

Ask ==
  /\ polling = "away"
  /\ UNCHANGED <<polling, last_phase, jobs, events, server, installed>>

\* request_bridge(); whether the port is free is decided where it starts.
RequestBridge(p, on) ==
  /\ Ask /\ switches < MaxSwitches /\ switches' = switches + 1
  /\ engine.phase = "connected" /\ rows.version = engine.version
  /\ ~rows.of[p].busy /\ on # (p \in engine.on)
  /\ rows' = [rows EXCEPT !.of[p].busy = TRUE, !.of[p].missing = FALSE]
  /\ inbox' = Append(inbox, [phone |-> p, on |-> on])
  /\ UNCHANGED <<engine, prep, recording, others, missed>>

StartConnect ==
  /\ Ask /\ engine.phase = "idle" /\ prep = "none" /\ engine.version < MaxConnects
  /\ engine' = [engine EXCEPT !.phase = "connecting"]
  /\ missed' = (missed \/ last_phase # "idle")
  /\ UNCHANGED <<inbox, rows, prep, recording, switches, others>>

StartDisconnect ==
  /\ Ask /\ connected /\ engine' = [engine EXCEPT !.phase = "disconnecting"]
  /\ UNCHANGED <<inbox, rows, prep, recording, switches, others, missed>>

Other == Ask /\ others < MaxOthers /\ others' = others + 1 /\ UNCHANGED <<inbox, rows, switches, missed>>

StartPlay ==
  /\ Other /\ engine.phase = "connected" /\ engine' = [engine EXCEPT !.phase = "playing"]
  /\ UNCHANGED <<prep, recording>>

\* retry() looks at the recording once, where it begins.
Retry ==
  /\ Other /\ engine.phase = "idle" /\ prep = "none"
  /\ prep' = IF recording THEN "spare" ELSE "kill"
  /\ UNCHANGED <<engine, recording>>

StartRecord ==
  /\ Other /\ installed /\ ~recording /\ recording' = TRUE
  /\ UNCHANGED <<engine, prep>>

\* The record thread has ended and poll() has joined it.
RecordEnds ==
  /\ polling = "away" /\ recording /\ recording' = FALSE
  /\ UNCHANGED <<engine, inbox, events, polling, last_phase, rows, jobs, prep, missed, server, installed,
                 switches, others>>

-----------------------------------------------------------------------------
(* poll()                                                                  *)

Polls(from, to) ==
  /\ polling = from /\ polling' = to
  /\ UNCHANGED <<engine, inbox, server, installed, switches, others, recording>>

\* Variant: only a disconnecting engine comes to its end.
PollPhaseDisconnecting ==
  /\ Polls("away", "prep")
  /\ jobs' = IF engine.phase = "idle" /\ last_phase = "disconnecting" /\ ~recording
             THEN Append(jobs, RestartJob) ELSE jobs
  /\ last_phase' = engine.phase
  /\ UNCHANGED <<events, rows, prep, missed>>

\* Disconnect has released every phone: the server is restarted, unless recording.
PollPhase ==
  /\ Polls("away", "prep")
  /\ LET ended == engine.phase = "idle"
                    /\ last_phase \in {"disconnecting", "connected", "playing"}
     IN /\ jobs' = IF ended /\ ~recording THEN Append(jobs, RestartJob) ELSE jobs
        /\ missed' = IF ended THEN recording ELSE missed
  /\ last_phase' = engine.phase
  /\ UNCHANGED <<events, rows, prep>>

PollPrep ==
  /\ Polls("prep", "version")
  /\ prep' = IF prep = "ready" THEN "none" ELSE prep
  /\ UNCHANGED <<events, last_phase, rows, jobs, missed>>

\* The rows are those of a connection; adb is told of the bridges that went with an
\* earlier one, unless its server is restarted instead.
PollVersion ==
  /\ Polls("version", "events")
  /\ LET version == IF connected THEN engine.version ELSE 0
         linked  == {p \in Phones : rows.of[p].linked}
     IN IF version = rows.version THEN UNCHANGED <<rows, jobs>>
        ELSE /\ rows' = NoRows(version)
             /\ jobs' = IF version # 0 \/ recording THEN jobs \o ForEach("disconnect", linked) ELSE jobs
  /\ UNCHANGED <<events, last_phase, prep, missed>>

Unlink(s, set) ==
  [s EXCEPT !.of = [p \in Phones |-> IF p \in set THEN [s.of[p] EXCEPT !.linked = FALSE] ELSE s.of[p]]]

\* The linked bridges but one have lost their server: they are connected again.
Relink(s, but) ==
  LET lost == {p \in Phones \ but : s.of[p].linked}
  IN [Unlink(s, lost) EXCEPT !.jobs = @ \o ForEach("connect", lost)]

\* Variant: an event of a bridge that failed leaves its row as it is.
OnEventFailed(s, event) == IF ~event.ok THEN s ELSE [s EXCEPT !.of[event.phone].busy = FALSE]

OnEvent(s, event) ==
  LET p     == event.phone
      free  == [s EXCEPT !.of[p].busy = FALSE, !.of[p].missing = FALSE]
      told  == IF event.stopped THEN Relink(free, {p}) ELSE free
  IN IF event.on THEN [told EXCEPT !.jobs = Append(@, Connect(p))]
     ELSE IF ~event.ok THEN told
     ELSE IF ~recording THEN [Unlink(told, {p}) EXCEPT !.jobs = Append(@, RestartJob)]
     ELSE IF told.of[p].linked THEN [Unlink(told, {p}) EXCEPT !.jobs = Append(@, Disconnect(p))]
     ELSE told

\* The events, one after the other.
AfterEvents(s) ==
  LET after[n \in 0..Len(events)] == IF n = 0 THEN s ELSE OnEvent(after[n - 1], events[n])
  IN after[Len(events)]

PollEvents ==
  /\ Polls("events", "jobs")
  /\ LET result == AfterEvents([of |-> rows.of, jobs |-> jobs])
     IN IF rows.version = 0 THEN UNCHANGED <<rows, jobs>>
        ELSE rows' = [rows EXCEPT !.of = result.of] /\ jobs' = result.jobs
  /\ events' = <<>>
  /\ UNCHANGED <<last_phase, prep, missed>>

\* A command that was carried out: what it is for, in this connection or an earlier one.
OnJob(s, job) ==
  IF job.state # "done" THEN [s EXCEPT !.jobs = Append(@, job)]
  ELSE IF job.kind = "disconnect" THEN s
  ELSE IF job.kind = "restart"
  THEN IF job.ok /\ job.version = rows.version THEN Relink(s, {}) ELSE s
  ELSE IF job.version # rows.version \/ rows.version = 0 THEN s
  ELSE IF ~installed THEN [s EXCEPT !.of[job.phone].missing = TRUE]
  ELSE [s EXCEPT !.of[job.phone].linked = TRUE]

AfterJobs(s) ==
  LET after[n \in 0..Len(jobs)] == IF n = 0 THEN s ELSE OnJob(after[n - 1], jobs[n])
  IN after[Len(jobs)]

PollJobs ==
  /\ Polls("jobs", "away")
  /\ LET result == AfterJobs([of |-> rows.of, jobs |-> <<>>])
     IN rows' = [rows EXCEPT !.of = result.of] /\ jobs' = result.jobs
  /\ UNCHANGED <<events, last_phase, prep, missed>>

-----------------------------------------------------------------------------
(* The engine's worker                                                     *)

Engine ==
  /\ UNCHANGED <<appState, installed, switches, others>>

\* The worker is not in a playback, which serves no bridges.
Free == engine.phase # "playing"

\* pump_bridge(), one request: a server that holds the phone's interface is stopped and
\* the bridge tried once more; it may still fail.  Nobody listens without a connection.
StopBridge ==
  /\ Engine /\ Free /\ inbox # <<>> /\ ~Head(inbox).on
  /\ inbox' = Tail(inbox) /\ engine' = [engine EXCEPT !.on = @ \ {Head(inbox).phone}]
  /\ events' = Append(events, [phone |-> Head(inbox).phone, on |-> FALSE, ok |-> TRUE, stopped |-> FALSE])
  /\ UNCHANGED server

StartBridge(works, stopped) ==
  /\ Engine /\ Free /\ inbox # <<>> /\ Head(inbox).on
  /\ stopped => server.up /\ installed
  /\ works => engine.phase \in {"connected", "disconnecting"}
  /\ inbox' = Tail(inbox)
  /\ engine' = IF works THEN [engine EXCEPT !.on = @ \union {Head(inbox).phone}] ELSE engine
  /\ server' = IF stopped THEN Killed ELSE server
  /\ events' = Append(events, [phone |-> Head(inbox).phone, on |-> works, ok |-> works,
                               stopped |-> stopped])

\* A connection is made with no bridges, or not; the worker serves what waits in the
\* inbox before it takes the command.
Connected ==
  /\ Engine /\ engine.phase = "connecting" /\ inbox = <<>>
  /\ \/ engine' = [engine EXCEPT !.phase = "connected", !.version = @ + 1]
     \/ engine' = [engine EXCEPT !.phase = "idle"]
  /\ UNCHANGED <<inbox, events, server>>

Disconnected ==
  /\ engine.phase = "disconnecting" /\ inbox = <<>>
  /\ engine' = [engine EXCEPT !.phase = "idle", !.on = {}]
  /\ missed' = (missed \/ last_phase \notin {"connected", "playing", "disconnecting"})
  /\ UNCHANGED <<inbox, events, server, polling, last_phase, rows, jobs, prep, recording, installed,
                 switches, others>>

PlayEnds ==
  /\ Engine /\ engine.phase = "playing" /\ engine' = [engine EXCEPT !.phase = "connected"]
  /\ UNCHANGED <<inbox, events, server>>

-----------------------------------------------------------------------------
(* The adb commands                                                        *)

Adb == UNCHANGED <<engine, inbox, events, polling, last_phase, rows, recording, missed, installed,
                   switches, others>>

\* `adb connect` starts a server where there is none; a server that is killed under the
\* command leaves it without an answer.
RunJob(n) ==
  /\ Adb /\ UNCHANGED prep /\ jobs[n].state = "new"
  /\ LET p == jobs[n].phone
     IN IF ~installed
        THEN jobs' = [jobs EXCEPT ![n].state = "done"] /\ UNCHANGED server
        ELSE /\ jobs' = [jobs EXCEPT ![n].state = "done",
                                     ![n].ok = jobs[n].kind # "connect" \/ p \in engine.on]
             /\ server' =
                  CASE jobs[n].kind = "restart"    -> Killed
                    [] jobs[n].kind = "disconnect" -> [server EXCEPT !.links = @ \ {p}]
                    [] jobs[n].kind = "connect"    ->
                         [up |-> TRUE, links |-> server.links \union ({p} \intersect engine.on)]

RunPrep ==
  /\ Adb /\ UNCHANGED jobs /\ prep \in {"kill", "spare"} /\ prep' = "ready"
  /\ server' = IF prep = "kill" THEN Killed ELSE server

BridgesNext ==
  \/ \E p \in Phones, on \in BOOLEAN : RequestBridge(p, on)
  \/ StartConnect \/ StartDisconnect \/ StartPlay \/ Retry \/ StartRecord \/ RecordEnds
  \/ PollPhase \/ PollPrep \/ PollVersion \/ PollEvents \/ PollJobs
  \/ StopBridge \/ \E works, stopped \in BOOLEAN : StartBridge(works, stopped)
  \/ Connected \/ Disconnected \/ PlayEnds
  \/ \E n \in DOMAIN jobs : RunJob(n)
  \/ RunPrep

BridgesSpec == BridgesInit /\ [][BridgesNext]_bridgeVars

-----------------------------------------------------------------------------

Waits(p, version) ==
  \E n \in DOMAIN jobs : jobs[n].kind = "connect" /\ jobs[n].phone = p /\ jobs[n].version = version

Told(p) == \E n \in DOMAIN events : events[n].phone = p

\* No bridge is forgotten: one that listens, in the connection the rows are of, is
\* linked, or an `adb connect` for it is on its way, or the App has yet to hear of it or
\* is turning it off, or adb is not there; and a switch is not held back by a bridge nobody works on.
BridgesAreFollowed ==
  rows.version = engine.version /\ connected =>
    /\ \A p \in engine.on \cap Phones : \/ rows.of[p].linked \/ Waits(p, rows.version) \/ Told(p)
                                       \/ rows.of[p].missing \/ rows.of[p].busy
    /\ \A p \in Phones : rows.of[p].busy => Told(p) \/ \E n \in DOMAIN inbox : inbox[n].phone = p

Quiet ==
  /\ polling = "away" /\ last_phase = engine.phase /\ inbox = <<>> /\ events = <<>> /\ jobs = <<>>
  /\ prep = "none" /\ engine.phase = "idle"

\* "Disconnect ... drops them too": once everything has come to rest after Disconnect, adb
\* no longer lists a bridge that is gone; unless poll() missed the connection's end or
\* its beginning, or a recording had the server spared.
ClosedIsDropped == Quiet /\ ~missed => server.links = {}
=============================================================================
