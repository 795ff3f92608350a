------------------------------- MODULE Engine -------------------------------
(***************************************************************************)
(* gui::Engine: the UI thread and the control API's threads push commands  *)
(* into a queue, one worker thread executes them, and phase_ shows at once *)
(* what was asked for.  Live control is a switch of its own beside it.     *)
(*                                                                         *)
(* A section under mutex_ is one step; so is every access to an atomic     *)
(* outside of it.  The worker's waits are conditions: everything they look *)
(* at here is written under the mutex.  The player is reduced to a run     *)
(* that takes stop and seek requests; module Player has the rest of it.    *)
(***************************************************************************)
EXTENDS Naturals, Sequences, SequencesExt, FiniteSets

CONSTANTS
  Callers,   \* the threads that call the engine
  MaxCalls,  \* bound: calls in a behaviour
  MaxRuns    \* bound: runs after which a playlist does not go on

ASSUME EngineAssumption == MaxCalls \in Nat /\ MaxRuns \in Nat

Kinds == {"refresh", "connect", "disconnect", "play", "playlist", "live", "accessory", "quit"}

Plays == {"play", "playlist"}

Phases == {"idle", "refreshing", "connecting", "connected", "playing", "disconnecting"}

\* connected(): what the callers take for it.
InSession == {"connected", "playing"}

VARIABLES
  \* under mutex_, but for phase and live_active, which are also read without
  queue,          \* queue_: the kinds of the commands
  phase,          \* phase_
  running_play,   \* running_play_: a play or playlist command is executed
  playlist_abort, \* playlist_abort_
  live_stop,      \* live_stop_
  live_active,    \* live_active_
  \* the worker
  pc,             \* "wait", or the step of the command it executes
  connected,      \* session_.connected()
  runs,           \* Player::run() calls decided on so far
  \* the player's pending requests, each with the run it was meant for; 0: none
  stop_of,
  seek_of,
  \* the callers
  cpc,            \* where each call is
  saw,            \* the phase live_start() has read
  aim,            \* the run a seek is meant for
  calls,          \* calls so far
  leaving,        \* ~Engine() has been called
  raced           \* history: a call was overtaken; see Overtaken

engine  == <<queue, running_play, playlist_abort, live_stop>>
session == <<connected, runs>>
player  == <<stop_of, seek_of>>
callers == <<cpc, saw, aim, calls, leaving, raced>>
vars    == <<engine, phase, live_active, pc, session, player, callers>>

WorkerPcs == Kinds \union
  {"wait", "run", "list_check", "list_run", "list_next", "live_loop", "live_off",
   "finish", "done", "gone"}

\* A Player::run() is under way.
Running == {"run", "list_run"}

Init ==
  /\ queue = <<>> /\ phase = "idle" /\ running_play = FALSE
  /\ playlist_abort = FALSE /\ live_stop = FALSE /\ live_active = FALSE
  /\ pc = "wait" /\ connected = FALSE /\ runs = 0
  /\ stop_of = 0 /\ seek_of = 0
  /\ cpc = [c \in Callers |-> "idle"]
  /\ saw = [c \in Callers |-> "idle"] /\ aim = [c \in Callers |-> 0]
  /\ calls = 0 /\ leaving = FALSE /\ raced = FALSE

-----------------------------------------------------------------------------
(* Calls                                                                   *)

Begin(c, place) ==
  /\ cpc[c] = "idle" /\ ~leaving /\ calls < MaxCalls
  /\ calls' = calls + 1
  /\ cpc' = [cpc EXCEPT ![c] = place]
  /\ UNCHANGED <<leaving, pc, session>>

Continue(c, from, to) ==
  /\ cpc[c] = from /\ cpc' = [cpc EXCEPT ![c] = to]
  /\ UNCHANGED <<saw, aim, calls, leaving, pc, session>>

\* The calls below act on what they looked at in an earlier section, or rely on
\* a playback that a stop may still cancel.  The properties that this breaks
\* are stated of the behaviours in which it does not happen, and refuted of all.
Overtaken(now) == raced' = (raced \/ now)

\* player_.stop(), when a playback command is being executed.
StopRunning == stop_of' = IF running_play THEN runs ELSE stop_of

Push(kind, optimistic) ==
  /\ queue' = Append(queue, kind)
  /\ phase' = optimistic
  /\ UNCHANGED <<running_play, live_stop, live_active>>

PushFrom(c, expected, kind, optimistic) ==
  /\ Begin(c, "idle")
  /\ phase = expected
  /\ Push(kind, optimistic)
  /\ UNCHANGED <<saw, aim, raced, player>>

Refresh(c)   == PushFrom(c, "idle", "refresh", "refreshing") /\ UNCHANGED playlist_abort

Connect(c)   == PushFrom(c, "idle", "connect", "connecting") /\ UNCHANGED playlist_abort

Accessory(c) == PushFrom(c, "idle", "accessory", "connecting") /\ UNCHANGED playlist_abort

\* Variant: a playback is queued whenever the engine is connected.
PlayUnchecked(c) ==
  /\ Begin(c, "idle")
  /\ phase \in InSession
  /\ Push("play", "playing")
  /\ UNCHANGED <<saw, aim, raced, player, playlist_abort>>

Play(c)      == PushFrom(c, "connected", "play", "playing") /\ UNCHANGED playlist_abort

PlayPlaylist(c) ==
  PushFrom(c, "connected", "playlist", "playing") /\ playlist_abort' = FALSE

IsPlay(kind) == kind \in Plays

\* Variant: a stop is posted whether or not a playback is being executed.
StopAnyway(c) ==
  /\ Begin(c, "idle")
  /\ queue' = RemoveFirstMatch(queue, IsPlay)
  /\ phase' = IF queue' # queue /\ ~running_play THEN "connected" ELSE phase
  /\ playlist_abort' = TRUE
  /\ stop_of' = runs
  /\ Overtaken(queue' # queue /\ live_active)
  /\ UNCHANGED <<running_play, live_stop, live_active, seek_of, saw, aim>>

\* Variant: the phase of a queued playback is left as it was shown.
StopKeepsPhase(c) ==
  /\ Begin(c, "idle")
  /\ queue' = RemoveFirstMatch(queue, IsPlay)
  /\ playlist_abort' = TRUE
  /\ StopRunning
  /\ Overtaken(queue' # queue /\ live_active)
  /\ UNCHANGED <<phase, running_play, live_stop, live_active, seek_of, saw, aim>>

\* Variant: only the script that plays is stopped, not its list.
StopOneScript(c) ==
  /\ Begin(c, "idle")
  /\ queue' = RemoveFirstMatch(queue, IsPlay)
  /\ phase' = IF queue' # queue /\ ~running_play THEN "connected" ELSE phase
  /\ StopRunning
  /\ Overtaken(queue' # queue /\ live_active)
  /\ UNCHANGED <<playlist_abort, running_play, live_stop, live_active, seek_of, saw, aim>>

\* A queued playback is cancelled, the running one is stopped.
Stop(c) ==
  /\ Begin(c, "idle")
  /\ queue' = RemoveFirstMatch(queue, IsPlay)
  /\ phase' = IF queue' # queue /\ ~running_play THEN "connected" ELSE phase
  /\ playlist_abort' = TRUE
  /\ StopRunning
  /\ Overtaken(queue' # queue /\ live_active)
  /\ UNCHANGED <<running_play, live_stop, live_active, seek_of, saw, aim>>

\* The owners of seek(), the routes and the timeline, look at the phase first.
\* Asked while no run is under way, a seek is meant for the next.
Seek(c) ==
  /\ Begin(c, "seek") /\ phase = "playing"
  /\ aim' = [aim EXCEPT ![c] = IF pc \in Running \union {"play"} THEN runs ELSE runs + 1]
  /\ UNCHANGED <<saw, raced, engine, phase, live_active, player>>

SeekPost(c) ==
  /\ Continue(c, "seek", "idle")
  /\ seek_of' = aim[c]
  /\ UNCHANGED <<engine, phase, live_active, stop_of, raced>>

LiveStart(c) ==
  /\ Begin(c, "live_reset") /\ phase \in InSession
  /\ saw' = [saw EXCEPT ![c] = phase]
  /\ UNCHANGED <<aim, raced, engine, phase, live_active, player>>

LiveReset(c) ==
  /\ Continue(c, "live_reset", "live_on")
  /\ live_stop' = FALSE
  /\ UNCHANGED <<queue, running_play, playlist_abort, phase, live_active, player, raced>>

\* While a script plays, its live pump is relied on and nothing is queued.
LiveOn(c) ==
  /\ Continue(c, "live_on", IF saw[c] = "connected" THEN "live_push" ELSE "idle")
  /\ live_active' = TRUE
  /\ Overtaken(saw[c] \notin {"connected", phase})
  /\ UNCHANGED <<engine, phase, player>>

LivePush(c) ==
  /\ Continue(c, "live_push", "idle")
  /\ Push("live", "connected")
  /\ Overtaken(phase # "connected")
  /\ UNCHANGED <<playlist_abort, player>>

LiveStop(c) ==
  /\ Begin(c, "live_clear")
  /\ live_active' = FALSE
  /\ UNCHANGED <<engine, phase, player, saw, aim, raced>>

LiveClear(c) ==
  /\ Continue(c, "live_clear", "idle")
  /\ live_stop' = TRUE
  /\ queue' = RemoveFirst(queue, "live")
  /\ Overtaken(live_active)
  /\ UNCHANGED <<running_play, playlist_abort, phase, live_active, player>>

Disconnect(c) ==
  /\ Begin(c, "dis_clear") /\ phase \in InSession
  /\ live_active' = FALSE
  /\ UNCHANGED <<engine, phase, player, saw, aim, raced>>

\* What std::remove_if leaves of a queue: the kinds not removed, in their order.
Purged(kinds, removed) ==
  LET kept == {n \in DOMAIN kinds : kinds[n] \notin removed}
  IN  [i \in 1..Cardinality(kept) |->
         kinds[CHOOSE n \in kept : Cardinality({m \in kept : m < n}) = i - 1]]

DisconnectClear(c) ==
  /\ Continue(c, "dis_clear", "dis_push")
  /\ queue' = Purged(queue, Plays \union {"live"})
  /\ playlist_abort' = TRUE /\ live_stop' = TRUE
  /\ StopRunning
  /\ Overtaken(live_active)
  /\ UNCHANGED <<running_play, phase, live_active, seek_of>>

\* The lock was let go in between: another call may have slipped in.
DisconnectPush(c) ==
  /\ Continue(c, "dis_push", "idle")
  /\ Push("disconnect", "disconnecting")
  /\ Overtaken(live_active \/ queue # <<>> \/ phase \notin InSession)
  /\ UNCHANGED <<playlist_abort, player>>

\* Variant: a playback is left to end by itself.
DestroyPatiently ==
  /\ ~leaving /\ \A c \in Callers : cpc[c] = "idle"
  /\ leaving' = TRUE
  /\ queue' = <<"quit">> /\ playlist_abort' = TRUE /\ live_stop' = TRUE
  /\ UNCHANGED <<player, running_play, phase, live_active, pc, session, cpc, saw, aim, calls, raced>>

\* ~Engine(): the window and the control API have stopped calling by then.
Destroy ==
  /\ ~leaving /\ \A c \in Callers : cpc[c] = "idle"
  /\ leaving' = TRUE
  /\ queue' = <<"quit">> /\ playlist_abort' = TRUE /\ live_stop' = TRUE
  /\ StopRunning
  /\ UNCHANGED <<running_play, phase, live_active, pc, session, seek_of, cpc, saw, aim, calls, raced>>

NewCall(c) ==
  \/ Refresh(c) \/ Connect(c) \/ Accessory(c) \/ Play(c) \/ PlayPlaylist(c) \/ Stop(c)
  \/ Seek(c) \/ LiveStart(c) \/ LiveStop(c) \/ Disconnect(c)

FinishCall(c) ==
  \/ SeekPost(c) \/ LiveReset(c) \/ LiveOn(c) \/ LivePush(c) \/ LiveClear(c)
  \/ DisconnectClear(c) \/ DisconnectPush(c)

-----------------------------------------------------------------------------
(* The worker                                                              *)

WorkerAt(from, to) == pc = from /\ pc' = to /\ UNCHANGED callers

\* loop(): the front command is taken and marked as a playback under the lock.
Take ==
  /\ queue # <<>>
  /\ WorkerAt("wait", Head(queue))
  /\ queue' = Tail(queue)
  /\ running_play' = (Head(queue) \in Plays)
  /\ runs' = IF Head(queue) = "play" THEN runs + 1 ELSE runs
  /\ UNCHANGED <<phase, playlist_abort, live_stop, live_active, connected, player>>

Rescan ==
  /\ WorkerAt("refresh", "done")
  /\ phase' = "idle"
  /\ UNCHANGED <<engine, live_active, session, player>>

Open ==
  /\ WorkerAt("connect", "done")
  /\ \E opened \in BOOLEAN :
       /\ opened => ~connected   \* "Already connected. Disconnect first."
       /\ connected' = (connected \/ opened)
       /\ phase' = IF opened THEN "connected" ELSE "idle"
  /\ UNCHANGED <<engine, live_active, runs, player>>

Switch ==
  /\ WorkerAt("accessory", "done")
  /\ Push("refresh", "refreshing")
  /\ UNCHANGED <<playlist_abort, session, player>>

Close ==
  /\ WorkerAt("disconnect", "done")
  /\ connected' = FALSE /\ phase' = "idle"
  /\ UNCHANGED <<engine, live_active, runs, player>>

\* play, playlist and live do nothing when the session has gone.
Gone ==
  /\ ~connected
  /\ \/ WorkerAt("play", "done") \/ WorkerAt("playlist", "done")
     \/ WorkerAt("live", "done")
  /\ phase' = "idle"
  /\ UNCHANGED <<engine, live_active, session, player>>

Start ==
  /\ connected
  /\ \/ WorkerAt("play", "run") \/ WorkerAt("playlist", "list_check")
     \/ WorkerAt("live", "live_loop")
  /\ UNCHANGED <<engine, phase, live_active, session, player>>

EndRun ==
  /\ \/ WorkerAt("run", "finish") \/ WorkerAt("list_run", "list_next")
  /\ stop_of' = 0 /\ seek_of' = 0
  /\ UNCHANGED <<engine, phase, live_active, session>>

\* The script ends, or every device is lost; requests that came late go too.
RunEnds == stop_of = 0 /\ EndRun

RunStops == stop_of # 0 /\ EndRun

RunSeeks ==
  /\ stop_of = 0 /\ seek_of # 0 /\ (WorkerAt("run", "run") \/ WorkerAt("list_run", "list_run"))
  /\ seek_of' = 0
  /\ UNCHANGED <<engine, phase, live_active, session, stop_of>>

ListCheck ==
  /\ \/ playlist_abort /\ WorkerAt("list_check", "finish") /\ UNCHANGED runs
     \/ ~playlist_abort /\ WorkerAt("list_check", "list_run") /\ runs' = runs + 1
  /\ UNCHANGED <<engine, phase, live_active, connected, player>>

\* The list ends with its time limit, with its devices, when it is aborted or
\* after its last loop.
ListNext ==
  /\ \/ WorkerAt("list_next", "finish")
     \/ ~playlist_abort /\ runs < MaxRuns /\ WorkerAt("list_next", "list_check")
  /\ UNCHANGED <<engine, phase, live_active, session, player>>

\* run_live() leaves for a queued command, when it is stopped, or when every
\* device was dropped; the inbox it serves is module LiveInput.
LiveLeaves ==
  /\ \/ live_stop /\ WorkerAt("live_loop", "live_off")
     \/ ~live_stop /\ queue # <<>> /\ WorkerAt("live_loop", "finish")
  /\ UNCHANGED <<engine, phase, live_active, session, player>>

LiveDrops ==
  /\ WorkerAt("live_loop", "live_off")
  /\ UNCHANGED <<engine, phase, live_active, session, player>>

LiveOff ==
  /\ WorkerAt("live_off", "finish")
  /\ live_active' = FALSE
  /\ UNCHANGED <<engine, phase, session, player>>

\* Variant: live control is not taken up again after a playback.
FinishRunForgets ==
  /\ WorkerAt("finish", "done")
  /\ stop_of' = 0 /\ seek_of' = 0
  /\ running_play' = FALSE
  /\ phase' = IF queue = <<>> THEN "connected" ELSE phase
  /\ UNCHANGED <<queue, live_stop, playlist_abort, live_active, session>>

FinishRun ==
  /\ WorkerAt("finish", "done")
  /\ stop_of' = 0 /\ seek_of' = 0
  /\ running_play' = FALSE
  /\ IF queue = <<>>
     THEN /\ phase' = "connected"
          /\ live_stop' = (live_stop /\ ~live_active)
          /\ queue' = IF live_active THEN <<"live">> ELSE <<>>
     ELSE UNCHANGED <<phase, live_stop, queue>>
  /\ UNCHANGED <<playlist_abort, live_active, session>>

Done ==
  /\ WorkerAt("done", "wait")
  /\ running_play' = FALSE
  /\ IF running_play THEN stop_of' = 0 /\ seek_of' = 0 ELSE UNCHANGED player
  /\ UNCHANGED <<queue, playlist_abort, live_stop, phase, live_active, session>>

Quit ==
  /\ WorkerAt("quit", "gone")
  /\ connected' = FALSE
  /\ UNCHANGED <<engine, phase, live_active, runs, player>>

-----------------------------------------------------------------------------

\* What the worker does on its own; scripts need not end and devices need not
\* be lost.
Worker ==
  \/ Take \/ Rescan \/ Open \/ Switch \/ Close \/ Gone \/ Start \/ RunStops \/ RunSeeks
  \/ ListCheck \/ ListNext \/ LiveLeaves \/ LiveOff \/ FinishRun \/ Done \/ Quit

Next ==
  \/ Worker \/ RunEnds \/ LiveDrops \/ Destroy
  \/ \E c \in Callers : NewCall(c) \/ FinishCall(c)

Spec == Init /\ [][Next]_vars

Fairness == WF_vars(Worker) /\ \A c \in Callers : WF_vars(FinishCall(c))

FairSpec == Spec /\ Fairness

-----------------------------------------------------------------------------
(* Properties                                                              *)

Places == {"idle", "seek", "live_reset", "live_on", "live_push", "live_clear",
           "dis_clear", "dis_push"}

TypeOK ==
  /\ ToSet(queue) \subseteq Kinds /\ phase \in Phases /\ running_play \in BOOLEAN
  /\ playlist_abort \in BOOLEAN /\ live_stop \in BOOLEAN /\ live_active \in BOOLEAN
  /\ running_play => pc \notin {"wait", "quit", "gone"}
  /\ pc \in WorkerPcs /\ connected \in BOOLEAN /\ runs \in Nat
  /\ stop_of \in Nat /\ seek_of \in Nat
  /\ cpc \in [Callers -> Places] /\ saw \in [Callers -> Phases] /\ aim \in [Callers -> Nat]
  /\ calls \in Nat /\ leaving \in BOOLEAN /\ raced \in BOOLEAN

\* A stop ends only what it was meant for: it is pending only while a playback
\* command is the running one, and the run of a play command finds no other
\* than its own.  (finish_run() and loop() discard under the lock that stop()
\* posts under; for a playlist, whose runs end one by one, see
\* StopEndsPlayback.)
StopsOnlyItsOwn ==
  /\ stop_of # 0 => running_play
  /\ pc \in {"play", "run"} /\ stop_of # 0 => stop_of = runs

\* "The check and the queueing share one lock, so two callers cannot both
\* pass it": at most one playback is queued or executed.
Playing == Cardinality({n \in DOMAIN queue : IsPlay(queue[n])}) + (IF running_play THEN 1 ELSE 0)

OnePlayback == ~raced => Playing <= 1

Quiet ==
  /\ pc = "wait" /\ queue = <<>> /\ ~leaving
  /\ \A c \in Callers : cpc[c] = "idle"

\* When nothing is queued or under way, the phase on show is the session's.
PhaseIsTrue == Quiet /\ ~raced => phase = IF connected THEN "connected" ELSE "idle"

\* Live control that is on is served: the worker is not left waiting for
\* commands while Live input has nobody to send it.
LiveIsServed == Quiet /\ ~raced => ~live_active

\* A stop ends the playback it was posted for, a playlist included.
StopEndsPlayback == stop_of # 0 ~> ~running_play \/ raced

\* Leaving does not hang, whatever is queued or playing.
DestructorReturns == leaving ~> pc = "gone"

\* A seek moves only the run that was playing when it was asked for ("left
\* pending, it would end or move the next playback as soon as it starts").
SeeksOnlyItsOwn == pc \in Running /\ seek_of # 0 => seek_of = runs

\* "So two callers cannot both start a playback."
AtMostOnePlayback == Playing <= 1

\* Live control that is on has the worker or a playback to pump it.
LiveHasAPump == Quiet /\ connected => ~live_active
=============================================================================
