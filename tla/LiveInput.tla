----------------------------- MODULE LiveInput -----------------------------
(***************************************************************************)
(* Live control's inbox, as gui::Engine serves it: callers fold their      *)
(* input into a bounded inbox, set live_pending_ and notify; the worker    *)
(* drains the inbox from run_live(), or from the player's live pump while  *)
(* a script plays, and releases what Live holds when it is off.            *)
(*                                                                         *)
(* Here the steps inside and outside of mutex_ matter: a section under it  *)
(* is one step, and the worker holds it from looking at run_live()'s       *)
(* condition until it is blocked.  Of the queue only the live and play     *)
(* commands are kept (module Engine has the others).  Input is an edge of  *)
(* a key, or motion of one unit; positions and axis values, where the      *)
(* latest wins, are left out.                                              *)
(***************************************************************************)
EXTENDS Naturals, Sequences, FiniteSets, SequencesExt

CONSTANTS
  Callers,    \* the threads that call the engine
  Keys,       \* keys and buttons
  Toggles,    \* Consumer usages
  Limit,      \* live_inbox_limit
  MaxCalls    \* bound: calls in a behaviour

ASSUME LiveAssumption == Limit \in Nat \ {0} /\ MaxCalls \in Nat

\* A LiveItem; `moved` is in its payload, or its wheel delta.
Edges  == [kind : {"edge"}, key : Keys, down : BOOLEAN, moved : {0}]
Usages == [kind : {"toggle"}, key : Toggles, down : BOOLEAN, moved : {0}]
Moves  == [kind : {"move", "wheel"}, key : {"none"}, down : {FALSE}, moved : {1}]
Inputs == Edges \union Usages \union Moves
Nothing == [kind |-> "move", key |-> "none", down |-> FALSE, moved |-> 0]

VARIABLES
  live_active,  \* live_active_
  live_pending, \* live_pending_
  live_stop,    \* live_stop_
  queue,        \* queue_, its live and play commands
  live_inbox,   \* live_inbox_
  live_batch,   \* live_batch_
  live_held,    \* live_held_, and what the devices have of it
  devices,      \* a device is left
  pc,           \* the worker
  command,      \* the command it executes
  cpc,          \* where each call is
  todo,         \* the input it brings
  calls,        \* calls so far
  wanted,       \* history: the keys the accepted edges leave pressed
  accepted,     \* history: the motion accepted into the inbox
  sent,         \* history: the motion that was applied
  spoiled       \* history: the motion that was folded into a toggle

flags   == <<live_active, live_pending>>
locked  == <<live_stop, queue, live_inbox>>
worker  == <<live_batch, live_held, devices, pc, command>>
callers == <<cpc, todo, calls>>
history == <<wanted, accepted, sent, spoiled>>
vars    == <<flags, locked, worker, callers, history>>

Init ==
  /\ live_active = FALSE /\ live_pending = FALSE /\ live_stop = FALSE
  /\ queue = <<>> /\ live_inbox = <<>> /\ live_batch = <<>>
  /\ live_held = {} /\ devices = TRUE
  /\ pc = "wait" /\ command = "none"
  /\ cpc = [c \in Callers |-> "idle"] /\ todo = [c \in Callers |-> Nothing]
  /\ calls = 0
  /\ wanted = {} /\ accepted = 0 /\ sent = 0 /\ spoiled = 0

\* InputState::apply, for every edge of the items.
Press(held, item) ==
  IF item.kind \notin {"edge", "toggle"} THEN held
  ELSE IF item.down THEN held \union {item.key} ELSE held \ {item.key}

After(held, items) ==
  LET after[n \in 0..Len(items)] == IF n = 0 THEN held ELSE Press(after[n - 1], items[n])
  IN  after[Len(items)]

Motion(items) ==
  LET sum[n \in 0..Len(items)] == IF n = 0 THEN 0 ELSE sum[n - 1] + items[n].moved
  IN  sum[Len(items)]

\* Of the items, those whose payload nobody sends.
TogglesOf(items) == [n \in DOMAIN items |-> IF items[n].kind = "toggle" THEN items[n] ELSE Nothing]

-----------------------------------------------------------------------------
(* Callers                                                                 *)

\* Nobody else enters while the worker goes to sleep with the mutex.
Locked == pc # "block"

Begin(c, place) ==
  /\ cpc[c] = "idle" /\ calls < MaxCalls
  /\ calls' = calls + 1
  /\ cpc' = [cpc EXCEPT ![c] = place]

Continue(c, from, to) ==
  /\ cpc[c] = from /\ cpc' = [cpc EXCEPT ![c] = to]
  /\ todo' = [todo EXCEPT ![c] = Nothing]
  /\ UNCHANGED calls

Playing == command = "play" \/ "play" \in ToSet(queue)

\* live_send(), live_scroll(), live_toggle(): nothing happens while Live is off.
Input(c, item) ==
  /\ live_active
  /\ Begin(c, "push")
  /\ todo' = [todo EXCEPT ![c] = item]
  /\ UNCHANGED <<flags, locked, worker, history>>

\* A move is folded into the last item when that holds a move in its payload:
\* so does a toggle, whose payload nobody sends.
Folds(last, item) ==
  \/ item.kind = "move" /\ last.kind \in {"move", "toggle"}
  \/ item.kind = "wheel" /\ last.kind = "wheel"

\* Variant: the fold replaces the motion that is there.
FoldedReplacing(items, item) == [items EXCEPT ![Len(items)].moved = item.moved]

Folded(items, item) == [items EXCEPT ![Len(items)].moved = @ + item.moved]

CanFold(item) == live_inbox # <<>> /\ Folds(Last(live_inbox), item)

Accept(c, item) ==
  /\ Locked
  /\ Continue(c, "push", "pend")
  /\ live_inbox' = IF CanFold(item) THEN Folded(live_inbox, item) ELSE Append(live_inbox, item)
  /\ wanted' = Press(wanted, item)
  /\ accepted' = accepted + item.moved
  /\ UNCHANGED <<flags, live_stop, queue, worker, sent, spoiled>>

Push(c) ==
  /\ CanFold(todo[c]) \/ Len(live_inbox) < Limit
  /\ Accept(c, todo[c])

\* The inbox is full: the input is dropped.
Refuse(c) ==
  /\ Locked
  /\ ~CanFold(todo[c]) /\ Len(live_inbox) >= Limit
  /\ Continue(c, "push", "idle")
  /\ UNCHANGED <<flags, locked, worker, history>>

\* Set and notified without the mutex.
Pend(c) ==
  /\ Continue(c, "pend", "notify")
  /\ live_pending' = TRUE
  /\ UNCHANGED <<live_active, locked, worker, history>>

Notify(c) ==
  /\ Continue(c, "notify", "idle")
  /\ pc' = IF pc = "asleep" THEN "check" ELSE pc
  /\ UNCHANGED <<flags, locked, live_batch, live_held, devices, command, history>>

\* live_start(); what it does next is decided by the phase it reads here.
LiveStart(c) ==
  /\ Begin(c, IF Playing THEN "reset_only" ELSE "reset")
  /\ UNCHANGED <<todo, flags, locked, worker, history>>

LiveReset(c) ==
  /\ Locked
  /\ \/ Continue(c, "reset", "on") \/ Continue(c, "reset_only", "on_only")
  /\ live_stop' = FALSE /\ live_inbox' = <<>>
  /\ wanted' = After(live_held, live_batch)
  /\ accepted' = sent + spoiled + Motion(live_batch)
  /\ UNCHANGED <<flags, queue, worker, sent, spoiled>>

LiveOn(c) ==
  /\ \/ Continue(c, "on", "live_push") \/ Continue(c, "on_only", "notify")
  /\ live_active' = TRUE
  /\ UNCHANGED <<live_pending, locked, worker, history>>

LivePush(c) ==
  /\ Locked
  /\ Continue(c, "live_push", "notify")
  /\ queue' = Append(queue, "live")
  /\ UNCHANGED <<flags, live_stop, live_inbox, worker, history>>

LiveStop(c) ==
  /\ Begin(c, "clear")
  /\ live_active' = FALSE
  /\ UNCHANGED <<todo, live_pending, locked, worker, history>>

LiveClear(c) ==
  /\ Locked
  /\ Continue(c, "clear", "notify")
  /\ live_stop' = TRUE
  /\ queue' = RemoveFirst(queue, "live")
  /\ UNCHANGED <<flags, live_inbox, worker, history>>

Play(c) ==
  /\ Locked /\ ~Playing
  /\ Begin(c, "notify")
  /\ queue' = Append(queue, "play")
  /\ UNCHANGED <<todo, flags, live_stop, live_inbox, worker, history>>

\* stop(): a queued playback is cancelled; one that runs may end at any time.
CancelPlay(c) ==
  /\ Locked /\ "play" \in ToSet(queue)
  /\ Begin(c, "idle")
  /\ queue' = RemoveFirst(queue, "play")
  /\ UNCHANGED <<todo, flags, live_stop, live_inbox, worker, history>>

NewCall(c) ==
  \/ \E item \in Inputs : Input(c, item)
  \/ LiveStart(c) \/ LiveStop(c) \/ Play(c) \/ CancelPlay(c)

FinishCall(c) ==
  \/ Push(c) \/ Refuse(c) \/ Pend(c) \/ Notify(c)
  \/ LiveReset(c) \/ LiveOn(c) \/ LivePush(c) \/ LiveClear(c)

-----------------------------------------------------------------------------
(* The worker                                                              *)

Goto(from, to) == pc = from /\ pc' = to /\ UNCHANGED callers

Take ==
  /\ queue # <<>>
  /\ Goto("wait", IF Head(queue) = "live" THEN "check" ELSE "play")
  /\ command' = Head(queue) /\ queue' = Tail(queue)
  /\ UNCHANGED <<flags, live_stop, live_inbox, live_batch, live_held, devices, history>>

\* run_live() looks at its condition, with the mutex.
Check ==
  /\ \/ live_stop /\ Goto("check", "off")
     \/ ~live_stop /\ queue # <<>> /\ Goto("check", "finish")
     \/ ~live_stop /\ queue = <<>> /\ live_pending /\ Goto("check", "pump")
     \/ ~live_stop /\ queue = <<>> /\ ~live_pending /\ Goto("check", "block")
  /\ UNCHANGED <<flags, locked, live_batch, live_held, devices, command, history>>

\* The mutex is let go and the worker listens for a notify, in one step.
Block ==
  /\ Goto("block", "asleep")
  /\ UNCHANGED <<flags, locked, live_batch, live_held, devices, command, history>>

\* The player's live pump: called before every row and after every wake.
PlayPumps ==
  /\ Goto("play", "pump")
  /\ UNCHANGED <<flags, locked, live_batch, live_held, devices, command, history>>

PlayEnds ==
  /\ Goto("play", "finish")
  /\ UNCHANGED <<flags, locked, live_batch, live_held, devices, command, history>>

\* Back to the loop that called pump_live().
Return(from) ==
  \/ command = "play" /\ Goto(from, "play")
  \/ command = "live" /\ devices /\ Goto(from, "check")
  \/ command = "live" /\ ~devices /\ Goto(from, "off")

\* The releases reach nobody when no device is left, and stay to be done.
Released == IF devices THEN {} ELSE live_held

PumpOff ==
  /\ ~live_active /\ Return("pump")
  /\ live_held' = Released
  /\ wanted' = After(Released, live_inbox)
  /\ UNCHANGED <<flags, locked, live_batch, devices, command, accepted, sent, spoiled>>

PumpOn ==
  /\ live_active /\ Goto("pump", "exchange")
  /\ UNCHANGED <<flags, locked, live_batch, live_held, devices, command, history>>

Exchange ==
  /\ \/ live_pending /\ Goto("exchange", "swap")
     \/ ~live_pending /\ Return("exchange")
  /\ live_pending' = FALSE
  /\ UNCHANGED <<live_active, locked, live_batch, live_held, devices, command, history>>

\* Variant: the inbox is drained from its end.
SwapBackwards ==
  /\ Goto("swap", "apply")
  /\ live_batch' = Reverse(live_inbox) /\ live_inbox' = <<>>
  /\ UNCHANGED <<flags, live_stop, queue, live_held, devices, command, history>>

Swap ==
  /\ Goto("swap", "apply")
  /\ live_batch' = live_inbox /\ live_inbox' = <<>>
  /\ UNCHANGED <<flags, live_stop, queue, live_held, devices, command, history>>

\* The whole batch is applied, or refused when no device is left.
ApplyBatch ==
  /\ Goto("apply", "flush")
  /\ LET lost == Motion(TogglesOf(live_batch))
     IN sent' = sent + Motion(live_batch) - lost /\ spoiled' = spoiled + lost
  /\ live_held' = IF devices THEN After(live_held, live_batch) ELSE live_held
  /\ wanted' = IF devices THEN wanted ELSE After(live_held, live_inbox)
  /\ live_batch' = <<>>
  /\ UNCHANGED <<live_active, locked, devices, command, accepted>>

\* Variant: the inbox counts as drained once its batch is sent.
ApplyThenClear == ApplyBatch /\ live_pending' = FALSE

Apply == ApplyBatch /\ UNCHANGED live_pending

\* One report per burst.
Flush ==
  /\ Return("flush")
  /\ UNCHANGED <<flags, locked, live_batch, live_held, devices, command, history>>

\* run_live() was stopped, or lost its last device.
LiveOff ==
  /\ Goto("off", "release")
  /\ live_active' = FALSE
  /\ UNCHANGED <<live_pending, locked, live_batch, live_held, devices, command, history>>

\* Variant: what is held is left to the next pump.
ReleaseLater ==
  /\ Goto("release", "finish")
  /\ UNCHANGED <<flags, locked, live_batch, live_held, devices, command, history>>

Release ==
  /\ Goto("release", "finish")
  /\ live_held' = Released
  /\ wanted' = After(Released, live_inbox)
  /\ UNCHANGED <<flags, locked, live_batch, devices, command, accepted, sent, spoiled>>

FinishRun ==
  /\ Goto("finish", "wait")
  /\ command' = "none"
  /\ IF queue = <<>> /\ live_active
     THEN live_stop' = FALSE /\ queue' = <<"live">>
     ELSE UNCHANGED <<live_stop, queue>>
  /\ UNCHANGED <<flags, live_inbox, live_batch, live_held, devices, history>>

\* The last device is dropped, as a report to it fails.
Lose ==
  /\ devices /\ pc \in {"pump", "apply", "flush", "release"} /\ devices' = FALSE
  /\ UNCHANGED <<flags, locked, live_batch, live_held, pc, command, callers, history>>

-----------------------------------------------------------------------------

Worker ==
  \/ Take \/ Check \/ Block \/ PlayPumps \/ PumpOff \/ PumpOn \/ Exchange \/ Swap \/ Apply
  \/ Flush \/ LiveOff \/ Release \/ FinishRun

Next ==
  \/ Worker \/ PlayEnds \/ Lose
  \/ \E c \in Callers : NewCall(c) \/ FinishCall(c)

Spec == Init /\ [][Next]_vars

Fairness == WF_vars(Worker) /\ \A c \in Callers : WF_vars(FinishCall(c))

FairSpec == Spec /\ Fairness

-----------------------------------------------------------------------------
(* Properties                                                              *)

WorkerPcs == {"wait", "check", "block", "asleep", "play", "pump", "exchange", "swap", "apply",
              "flush", "off", "release", "finish"}

Places == {"idle", "push", "pend", "notify", "reset", "reset_only", "on", "on_only",
           "live_push", "clear"}

Items == [kind : {"edge", "toggle", "move", "wheel"}, key : Keys \union Toggles \union {"none"},
          down : BOOLEAN, moved : 0..MaxCalls]

\* The inbox and the batch keep within the inbox's limit.
TypeOK ==
  /\ live_active \in BOOLEAN /\ live_pending \in BOOLEAN /\ live_stop \in BOOLEAN
  /\ ToSet(queue) \subseteq {"live", "play"}
  /\ ToSet(live_inbox) \subseteq Items /\ Len(live_inbox) <= Limit
  /\ ToSet(live_batch) \subseteq Items /\ Len(live_batch) <= Limit
  /\ live_held \subseteq Keys \union Toggles /\ devices \in BOOLEAN
  /\ pc \in WorkerPcs /\ command \in {"none", "live", "play"}
  /\ cpc \in [Callers -> Places] /\ todo \in [Callers -> Inputs \union {Nothing}]
  /\ calls \in Nat

\* Input that waits in the inbox is marked as pending, or about to be: the
\* pump's short cut past the mutex never misses any.
InputIsPending ==
  live_inbox # <<>> =>
    live_pending \/ pc = "swap" \/ \E c \in Callers : cpc[c] = "pend"

\* "Edges always keep their order": what the devices hold, with what is still
\* to be sent, is what the accepted presses and releases ask for, however the
\* input was folded, batched and raced with.
EdgesKeepOrder == devices => After(live_held, live_batch \o live_inbox) = wanted

\* Motion is sent once: what was accepted is sent, on its way, or went into a
\* toggle (see MovesAddUp).
MotionIsSentOnce == sent + spoiled + Motion(live_batch \o live_inbox) = accepted

Quiet == pc = "wait" /\ queue = <<>> /\ \A c \in Callers : cpc[c] = "idle"

InLive ==
  command = "live" /\ pc \in {"check", "block", "asleep", "pump", "exchange", "swap", "apply",
                            "flush"}

\* A live_stop() reaches run_live(), asleep or not, and everything Live pressed
\* is released, unless Live is started again first.  (For the rest of the
\* time see AllIsReleased.)
StopReleases == live_stop /\ InLive ~> ~live_stop \/ ~devices \/ live_held = {}

\* "Everything it pressed is released when it ends."
AllIsReleased == Quiet /\ ~live_active /\ devices => live_held = {}

\* "Moves add up."
MovesAddUp == spoiled = 0

\* "Live input takes effect immediately": input that is marked as pending does
\* not wait for the next input.
InputIsServed == live_pending /\ live_active /\ InLive ~> ~live_pending \/ ~live_active \/ ~InLive
=============================================================================
