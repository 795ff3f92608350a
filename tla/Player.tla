------------------------------- MODULE Player -------------------------------
(***************************************************************************)
(* aoap::Player: one playback thread inside run(), driven by control       *)
(* threads that call stop(), pause(), resume(), seek(), set_speed(),       *)
(* set_stop_at(), adjust_offset_ns() and wake_live() at any time.          *)
(*                                                                         *)
(* Every access of the two sides to an atomic, to the seek mutex or to the *)
(* wake word is a step of its own; what the playback thread does between   *)
(* two such accesses is one step.  Time is abstract: a deadline may pass   *)
(* whenever the thread waits for it, and nothing here relies on it.        *)
(*                                                                         *)
(* The script is abstracted to positions 1 .. LastRow + 1 (LastRow + 1 is  *)
(* its end) and to HeldAt[p], the controls that uninterrupted playback     *)
(* holds just before the row at p.                                         *)
(***************************************************************************)
EXTENDS Naturals

CONSTANTS
  Controllers,  \* the threads that call the controls
  Keys,         \* controls of the devices a row can press
  LastRow,      \* number of rows of the script
  HeldAt,       \* what uninterrupted playback holds before each row
  Speeds,       \* the speeds set_speed() is called with
  MaxCalls      \* bound: control calls and run() calls in a behaviour

Positions == 1 .. (LastRow + 1)

ASSUME PlayerAssumption ==
  /\ LastRow \in Nat \ {0}
  /\ HeldAt \in [Positions -> SUBSET Keys]
  /\ 1 \in Speeds
  /\ MaxCalls \in Nat

Requests == {"stop", "pause", "seek", "retime"}

VARIABLES
  \* shared with the control threads
  requests,     \* requests_: bits posted and not yet taken
  want_paused,  \* want_paused_
  seek_target,  \* seek_target_, under seek_mutex_
  speed,        \* speed_
  stop_at,      \* a time limit is set: stop_at_ns_ # 0
  epoch,        \* the word of wake_
  inbox,        \* live input is queued for live_pump_
  pub,          \* pub_state_: what status() reports
  \* the playback thread
  pc,           \* where run() is
  caller,       \* who called service(): "main" or "wait"
  pending,      \* the bits service() or hold_paused() took
  jumped,       \* service() has acted on a seek
  seen,         \* the epoch read before the pump
  sleep,        \* what the current wait is for
  row,          \* walk_: the row playback is on; pause_position_ when paused
  held,         \* live_: what the player pressed
  paused,       \* paused_
  anchor_speed, \* anchor_speed_
  alive,        \* group_.active_count() # 0
  \* the control threads
  cpc,          \* where each control call is
  cbit,         \* the bit its post() sets
  calls         \* calls so far, run() included

requested == <<want_paused, seek_target, speed, stop_at>>
shared    == <<requests, requested, epoch, inbox>>
service   == <<caller, pending, jumped>>
waiting   == <<seen, sleep>>
timeline  == <<pub, row, held, paused, anchor_speed, alive>>
control   == <<cpc, cbit, calls>>
vars      == <<shared, pc, service, waiting, timeline, control>>

PlaybackPcs ==
  {"off", "start", "top", "poll", "exchange", "retime", "seek", "pause",
   "hold", "hold_pump", "hold_exchange", "hold_seek", "hold_pause",
   "hold_limit", "checks", "row", "wait", "wait_pump", "wait_poll",
   "wait_limit", "enter", "doze", "asleep", "end", "clear", "publish"}

Init ==
  /\ requests = {} /\ want_paused = FALSE /\ seek_target = 1
  /\ speed = 1 /\ stop_at = FALSE /\ epoch = 0 /\ inbox = FALSE
  /\ pc = "off" /\ caller = "main" /\ pending = {} /\ jumped = FALSE
  /\ seen = 0 /\ sleep = "row"
  /\ pub = "stopped" /\ row = 1 /\ held = {} /\ paused = FALSE
  /\ anchor_speed = 1 /\ alive = TRUE
  /\ cpc = [c \in Controllers |-> "idle"]
  /\ cbit = [c \in Controllers |-> "stop"]
  /\ calls = 0

-----------------------------------------------------------------------------
(* Control threads.  A call stores its value, then post()s: fetch_or on    *)
(* requests_, fetch_add on the wake word, futex wake.  Calls without a     *)
(* request bit go straight to the wake word.                               *)

Call(c, next, bit) ==
  /\ cpc[c] = "idle" /\ calls < MaxCalls
  /\ calls' = calls + 1
  /\ cpc' = [cpc EXCEPT ![c] = next]
  /\ cbit' = [cbit EXCEPT ![c] = bit]
  /\ UNCHANGED <<requests, epoch, pc, service, waiting, timeline>>

Stop(c) == Call(c, "or", "stop") /\ UNCHANGED <<requested, inbox>>

SetPaused(c, want) ==
  /\ Call(c, "or", "pause")
  /\ want_paused' = want
  /\ UNCHANGED <<seek_target, speed, stop_at, inbox>>

Seek(c) ==
  /\ Call(c, "or", "seek")
  /\ seek_target' \in Positions
  /\ UNCHANGED <<want_paused, speed, stop_at, inbox>>

\* Variant, for a check: the speed is stored, but no request is posted.
SetSpeedUnasked(c) ==
  /\ Call(c, "bump", "stop")
  /\ speed' \in Speeds
  /\ UNCHANGED <<want_paused, seek_target, stop_at, inbox>>

SetSpeed(c) ==
  /\ Call(c, "or", "retime")
  /\ speed' \in Speeds
  /\ UNCHANGED <<want_paused, seek_target, stop_at, inbox>>

SetStopAt(c) ==
  /\ Call(c, "bump", "stop")
  /\ stop_at' \in BOOLEAN
  /\ UNCHANGED <<want_paused, seek_target, speed, inbox>>

\* adjust_offset_ns() and set_offset_ns(): the deadline itself is abstract.
AdjustOffset(c) == Call(c, "bump", "stop") /\ UNCHANGED <<requested, inbox>>

\* The owner queues input for the live pump, then calls wake_live().
WakeLive(c) == Call(c, "bump", "stop") /\ inbox' = TRUE /\ UNCHANGED requested

BeginCall(c) ==
  \/ Stop(c) \/ Seek(c) \/ SetSpeed(c) \/ SetStopAt(c) \/ AdjustOffset(c) \/ WakeLive(c)
  \/ \E want \in BOOLEAN : SetPaused(c, want)

Step(c, from, to) ==
  /\ cpc[c] = from /\ cpc' = [cpc EXCEPT ![c] = to]
  /\ UNCHANGED <<requested, inbox, service, waiting, timeline, cbit, calls>>

FetchOr(c) ==
  /\ Step(c, "or", "bump")
  /\ requests' = requests \union {cbit[c]}
  /\ UNCHANGED <<epoch, pc>>

\* Variant: the word is not advanced before the wake.
BumpNothing(c) == Step(c, "bump", "wake") /\ UNCHANGED <<requests, epoch, pc>>

\* WakeSignal::notify(), first half.
Bump(c) ==
  /\ Step(c, "bump", "wake")
  /\ epoch' = epoch + 1
  /\ UNCHANGED <<requests, pc>>

\* Variant: the word is advanced, but the sleeping thread is not woken.
WakeNobody(c) == Step(c, "wake", "idle") /\ UNCHANGED <<requests, epoch, pc>>

\* WakeSignal::notify(), second half: wakes the thread if it sleeps.
FutexWake(c) ==
  /\ Step(c, "wake", "idle")
  /\ pc' = IF pc = "asleep" THEN "doze" ELSE pc
  /\ UNCHANGED <<requests, epoch>>

Finish(c) == FetchOr(c) \/ Bump(c) \/ FutexWake(c)

-----------------------------------------------------------------------------
(* What the playback thread does to the devices.  Any flush may lose the   *)
(* last device; sends to a group without devices are not recorded.         *)

Flush == alive' \in {alive, FALSE}

\* settle(): releases, flush, presses, flush.  held is updated per send, so
\* a loss on the way leaves it unchanged or with the releases only.
Settle(target) ==
  \/ ~alive /\ UNCHANGED <<alive, held>>
  \/ alive /\ held' = target /\ Flush
  \/ alive /\ alive' = FALSE /\ held' \in {held, held \intersect target}

\* jump(): rebuilds the state at p and re-anchors with the current speed.
Jump(p) ==
  /\ Settle(HeldAt[p])
  /\ row' = p
  /\ anchor_speed' = speed
  /\ pub' = "playing"

At(here, there) == pc = here /\ pc' = there

\* The locals of a function that has returned are reset, so that they do not
\* tell states apart.
Return == caller' = "main" /\ pending' = {} /\ jumped' = FALSE

EndWait == seen' = 0 /\ sleep' = "row"

-----------------------------------------------------------------------------
(* run()                                                                   *)

Run ==
  /\ calls < MaxCalls /\ calls' = calls + 1
  /\ At("off", "start")
  /\ want_paused' = FALSE /\ paused' = FALSE /\ held' = {}
  /\ alive' \in {alive, TRUE}   \* the owner may have connected again
  /\ UNCHANGED <<requests, seek_target, speed, stop_at, epoch, inbox, service,
                 waiting, pub, row, anchor_speed, cpc, cbit>>

\* discard_requests(), by the owner between two runs.
Discard ==
  /\ pc = "off" /\ requests # {} /\ requests' = {}
  /\ UNCHANGED <<requested, epoch, inbox, pc, service, waiting, timeline, control>>

Start ==
  /\ At("start", "top")
  /\ \E p \in Positions : Jump(p)
  /\ UNCHANGED <<shared, control, service, waiting, paused>>

\* live_pump_() drains the live inbox.
Pump ==
  /\ \/ At("top", "poll")
     \/ At("hold_pump", "hold_exchange")
     \/ At("wait_pump", "wait_poll")
  /\ inbox' = FALSE
  /\ UNCHANGED <<requests, requested, epoch, control, service, waiting, timeline>>

\* Variant: the epoch is read after the pump, with the requests.
PollReadsEpoch ==
  /\ \/ /\ pc = "poll"
        /\ pc' = IF requests # {} THEN "exchange" ELSE "checks"
        /\ UNCHANGED <<caller, seen>>
     \/ /\ pc = "wait_poll"
        /\ pc' = IF requests # {} THEN "exchange" ELSE "wait_limit"
        /\ caller' = IF requests # {} THEN "wait" ELSE caller
        /\ seen' = epoch
  /\ UNCHANGED <<shared, control, pending, jumped, sleep, timeline>>

Poll ==
  /\ \/ /\ pc = "poll"
        /\ pc' = IF requests # {} THEN "exchange" ELSE "checks"
        /\ UNCHANGED <<caller, seen>>
     \/ /\ pc = "wait_poll" /\ requests # {}
        /\ pc' = "exchange" /\ caller' = "wait" /\ seen' = 0
     \/ /\ pc = "wait_poll" /\ requests = {}
        /\ pc' = "wait_limit" /\ UNCHANGED <<caller, seen>>
  /\ UNCHANGED <<shared, control, pending, jumped, sleep, timeline>>

\* The loss of every device and the time limit end the run; a row that is
\* due later than the batch being staged is flushed for and waited for.
Checks ==
  /\ \/ At("checks", "end") /\ (~alive \/ stop_at) /\ UNCHANGED alive
     \/ At("checks", "wait") /\ alive /\ Flush
     \/ At("checks", "row") /\ alive /\ UNCHANGED alive
  /\ UNCHANGED <<shared, control, service, waiting, pub, row, held, paused, anchor_speed>>

\* Variant: the end of the script is not looked for.
RowPastTheEnd ==
  /\ At("row", "top")
  /\ row' = row + 1
  /\ UNCHANGED <<shared, control, service, waiting, pub, held, paused, anchor_speed, alive>>

\* execute() the row and step the walk, or finish the script at its end.
Row ==
  /\ \/ /\ At("row", "end") /\ row = LastRow + 1
        /\ Flush /\ UNCHANGED <<row, held>>
     \/ /\ At("row", "top") /\ row \in 1 .. LastRow
        /\ row' = row + 1
        /\ Flush
        /\ IF alive' THEN held' = HeldAt[row + 1]
                     ELSE held' \in IF alive THEN {held, HeldAt[row + 1]} ELSE {held}
  /\ UNCHANGED <<shared, control, service, waiting, pub, paused, anchor_speed>>

End ==
  /\ At("end", "clear")
  /\ Settle({}) /\ paused' = FALSE
  /\ Return /\ EndWait
  /\ UNCHANGED <<shared, control, pub, row, anchor_speed>>

Clear ==
  /\ At("clear", "publish")
  /\ requests' = {}
  /\ UNCHANGED <<requested, epoch, inbox, control, service, waiting, timeline>>

Publish ==
  /\ At("publish", "off")
  /\ pub' = "stopped"
  /\ UNCHANGED <<shared, control, service, waiting, row, held, paused, anchor_speed, alive>>

-----------------------------------------------------------------------------
(* service(): stop first, then the speed, then the seek, then the pause.   *)

Exchange ==
  /\ pc = "exchange"
  /\ pending' = requests /\ requests' = {}
  /\ pc' = IF "stop" \in requests THEN "end" ELSE "retime"
  /\ UNCHANGED <<requested, epoch, inbox, control, caller, jumped, waiting, timeline>>

Retime ==
  /\ At("retime", "seek")
  /\ IF "retime" \in pending
     THEN anchor_speed' = speed /\ pub' = "playing"
     ELSE UNCHANGED <<anchor_speed, pub>>
  /\ UNCHANGED <<shared, control, service, waiting, row, held, paused, alive>>

TakeSeek ==
  /\ At("seek", "pause")
  /\ IF "seek" \in pending
     THEN Jump(seek_target) /\ jumped' = TRUE
     ELSE UNCHANGED <<pub, row, held, anchor_speed, alive, jumped>>
  /\ UNCHANGED <<shared, control, caller, pending, waiting, paused>>

\* Without a pause, service() returns to its caller: proceed or jumped.
Proceed ==
  /\ pc = "pause" /\ ("pause" \notin pending \/ ~want_paused)
  /\ pc' = CASE jumped -> "top"
             [] ~jumped /\ caller = "main" -> "checks"
             [] OTHER -> "wait"
  /\ Return
  /\ UNCHANGED <<shared, control, waiting, timeline>>

\* Variant: a pause holds on to what is pressed.
PauseHolding ==
  /\ At("pause", "hold") /\ "pause" \in pending /\ want_paused
  /\ Flush
  /\ row' \in IF jumped THEN {row} ELSE Positions
  /\ paused' = TRUE /\ pub' = "paused"
  /\ Return
  /\ UNCHANGED <<shared, control, waiting, held, anchor_speed>>

\* hold_paused(), entry.  The paused position is where the clock is, which
\* may be before or after the row the walk is on.
Pause ==
  /\ At("pause", "hold") /\ "pause" \in pending /\ want_paused
  /\ Settle({})
  /\ row' \in IF jumped THEN {row} ELSE Positions
  /\ paused' = TRUE /\ pub' = "paused"
  /\ Return
  /\ UNCHANGED <<shared, control, waiting, anchor_speed>>

Service == Exchange \/ Retime \/ TakeSeek \/ Proceed \/ Pause

-----------------------------------------------------------------------------
(* The loops of hold_paused() and wait_to().                               *)

\* The epoch is read before the pump runs.
ReadEpoch ==
  /\ At("hold", "hold_pump") \/ At("wait", "wait_pump")
  /\ seen' = epoch
  /\ UNCHANGED <<shared, control, service, sleep, timeline>>

HoldExchange ==
  /\ pc = "hold_exchange"
  /\ pending' = requests /\ requests' = {}
  /\ IF "stop" \in requests
     THEN pc' = "end" /\ paused' = FALSE
     ELSE pc' = "hold_seek" /\ UNCHANGED paused
  /\ UNCHANGED <<requested, epoch, inbox, control, caller, jumped, waiting, pub, row,
                 held, anchor_speed, alive>>

HoldSeek ==
  /\ At("hold_seek", "hold_pause")
  /\ row' = IF "seek" \in pending THEN seek_target ELSE row
  /\ UNCHANGED <<shared, control, service, waiting, pub, held, paused, anchor_speed, alive>>

\* Still paused: another turn when bits were taken, otherwise a wait.
HoldOn ==
  /\ pc = "hold_pause" /\ ("pause" \notin pending \/ want_paused)
  /\ pc' = IF pending = {} THEN "hold_limit" ELSE "hold"
  /\ Return
  /\ UNCHANGED <<shared, control, waiting, timeline>>

\* Variant: want_paused_ is obeyed before the request for it is posted.
ResumeUnasked ==
  /\ At("hold_pause", "top") /\ ~want_paused
  /\ paused' = FALSE /\ Jump(row)
  /\ Return /\ EndWait
  /\ UNCHANGED <<shared, control>>

Resume ==
  /\ At("hold_pause", "top") /\ "pause" \in pending /\ ~want_paused
  /\ paused' = FALSE /\ Jump(row)
  /\ Return /\ EndWait
  /\ UNCHANGED <<shared, control>>

Hold == HoldExchange \/ HoldSeek \/ HoldOn \/ Resume

\* stop_at_ns_ is read; which of the two deadlines comes first is abstract.
ChooseWait ==
  /\ \/ At("hold_limit", "enter")
        /\ sleep' = IF stop_at THEN "limit" ELSE "forever"
     \/ At("wait_limit", "enter")
        /\ sleep' \in IF stop_at THEN {"row", "limit"} ELSE {"row"}
  /\ UNCHANGED <<shared, control, service, seen, timeline>>

\* wait() and wait_until() return if the epoch has moved.
Woken ==
  /\ pc \in {"enter", "doze"} /\ epoch # seen
  /\ pc' = IF paused THEN "hold" ELSE "wait"
  /\ EndWait
  /\ UNCHANGED <<shared, control, service, timeline>>

\* Otherwise the thread sleeps; the kernel compares the word again first.
Sleep ==
  /\ At("enter", "doze") \/ At("doze", "asleep")
  /\ epoch = seen
  /\ UNCHANGED <<shared, control, service, waiting, timeline>>

\* EINTR, or the timeout of the futex wait: the epoch is looked at again.
Interrupted ==
  /\ At("asleep", "doze")
  /\ UNCHANGED <<shared, control, service, waiting, timeline>>

\* wait_until() returns true: the row is due, or the limit has passed.
Expired ==
  /\ \/ At("doze", "end") /\ sleep = "limit" /\ paused' = FALSE
     \/ At("doze", "row") /\ sleep = "row" /\ UNCHANGED paused
  /\ EndWait
  /\ UNCHANGED <<shared, control, service, pub, row, held, anchor_speed, alive>>

-----------------------------------------------------------------------------

\* What the thread does on its own, without time passing.
Playback ==
  \/ Start \/ Pump \/ Poll \/ Checks \/ Row \/ End \/ Clear \/ Publish
  \/ Service \/ Hold \/ ReadEpoch \/ ChooseWait \/ Woken \/ Sleep

Next ==
  \/ Run \/ Discard
  \/ Playback \/ Interrupted \/ Expired
  \/ \E c \in Controllers : BeginCall(c) \/ Finish(c)

\* The playback thread and a call that has begun are scheduled; no deadline
\* needs to pass and no wait needs to be interrupted.
Fairness ==
  /\ WF_vars(Playback)
  /\ \A c \in Controllers : WF_vars(Finish(c))

Spec == Init /\ [][Next]_vars

FairSpec == Spec /\ Fairness

-----------------------------------------------------------------------------
(* Properties                                                              *)

TypeShared ==
  /\ requests \in SUBSET Requests /\ want_paused \in BOOLEAN
  /\ seek_target \in Positions /\ speed \in Speeds
  /\ stop_at \in BOOLEAN /\ epoch \in Nat /\ inbox \in BOOLEAN

TypeThread ==
  /\ pc \in PlaybackPcs /\ caller \in {"main", "wait"}
  /\ pending \in SUBSET Requests /\ jumped \in BOOLEAN
  /\ seen \in Nat /\ sleep \in {"row", "limit", "forever"}

TypeTimeline ==
  /\ pub \in {"stopped", "playing", "paused"} /\ row \in Positions
  /\ held \in SUBSET Keys /\ paused \in BOOLEAN
  /\ anchor_speed \in Speeds /\ alive \in BOOLEAN

TypeControl ==
  /\ cpc \in [Controllers -> {"idle", "or", "bump", "wake"}]
  /\ cbit \in [Controllers -> Requests] /\ calls \in Nat

TypeOK == TypeShared /\ TypeThread /\ TypeTimeline /\ TypeControl

InFlight == \E c \in Controllers : cpc[c] # "idle"

\* Work posted for the playback thread is never slept through: while it
\* sleeps with a request or live input outstanding, some control call has yet
\* to wake it.  (post(), WakeSignal::notify() and the "read before the pump
\* runs" comments of wait_to() and hold_paused().)
NoLostWakeup ==
  pc = "asleep" /\ (requests # {} \/ inbox) =>
    \E c \in Controllers : cpc[c] \in {"bump", "wake"}

\* When every control call has returned and the thread sleeps, what it does
\* agrees with the last value of every control: paused or not, the speed, the
\* time limit.  (want_paused_ against the request bit, re-anchoring in jump()
\* and retime(), "an offset or limit change wakes this wait".)
ControlsAgree ==
  pc = "asleep" /\ ~InFlight =>
    /\ requests = {} /\ ~inbox
    /\ paused = want_paused
    /\ paused \/ anchor_speed = speed
    /\ IF stop_at THEN sleep # "forever" ELSE sleep # "limit"
    /\ sleep = "forever" => paused

Holding == pc \in {"hold", "hold_pump", "hold_exchange", "hold_seek",
                   "hold_pause", "hold_limit"} \/ paused

Stopped == pc \in {"off", "start", "clear", "publish"}

\* "Whatever the player pressed is released on stop and pause", and while it
\* plays, the devices hold what uninterrupted playback would hold at its row,
\* after any number of seeks, pauses and resumes.
HoldsTheScript ==
  alive =>
    IF Stopped \/ Holding THEN held = {} ELSE pc = "end" \/ held = HeldAt[row]

\* A stop that was posted during a run ends it, even when the next row is
\* never due: no control is polled for.
StopEndsTheRun == pc # "off" /\ "stop" \in requests ~> pc = "off"

\* Every request and all live input is taken up while a run goes on.
RequestsAreTaken == pc # "off" /\ requests # {} ~> requests = {} \/ pc = "off"

LiveInputIsPumped == pc # "off" /\ inbox ~> ~inbox \/ pc = "off"

\* The player implements the sequential playback of module Playback.
Unserved ==
  CASE pc \in {"retime", "end"} -> pending
    [] pc = "seek"              -> pending \ {"retime"}
    [] pc = "pause"             -> pending \ {"retime", "seek"}
    [] pc = "hold_seek"         -> pending \ {"retime"}
    [] pc = "hold_pause"        -> pending \ {"retime", "seek"}
    [] OTHER                    -> {}

Mode == IF Stopped THEN "stopped" ELSE pub

Asked == requests \union Unserved

PB == INSTANCE Playback WITH mode <- Mode, pos <- row, usable <- alive, asked <- Asked

ImplementsPlayback == PB!Spec
=============================================================================
