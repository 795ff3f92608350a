-------------------------------- MODULE Devices --------------------------------
(***************************************************************************)
(* The worker thread of gui::Engine with its Session and DeviceGroup: what *)
(* the player's rows, Live's input, the requests to change a device's      *)
(* setup and the batteries do to the same devices.                         *)
(*                                                                         *)
(* What the worker does to the group between two looks at the requests is  *)
(* one step.  The other threads only ask: set_device_setup() looks at the  *)
(* phase and posts its request in two steps, so the worker can go on in    *)
(* between.  Modules Player, Engine and LiveInput have the queues, phases  *)
(* and wake-ups that are left out here.                                    *)
(***************************************************************************)
EXTENDS DeviceGroup

CONSTANTS
  Selections,   \* what the user connects: functions from devices to setups
  Wanted,       \* the setups a request can ask for
  Refusals,     \* the sets of profiles a phone may fail to register
  Rows,         \* the payloads of the script's rows
  Inputs,       \* the payloads of Live's input
  Targets,      \* the states a script can need when playback goes on
  MaxRequests,  \* bound: setup requests in a behaviour
  MaxFaults     \* bound: steps in which devices fail

\* Payloads, and the states they leave.
Payloads == [control : Controls, value : Nat]
States   == {state \in SUBSET [control : Controls, value : Nat \ {Neutral}] :
               \A p, q \in state : p.control = q.control => p = q}

ASSUME DevicesAssumption ==
  /\ \A setups \in Selections : DOMAIN setups \subseteq Devices
                              /\ \A d \in DOMAIN setups : setups[d] \in Setups
  /\ Wanted \subseteq Setups /\ Rows \union Inputs \subseteq Payloads
  /\ \A target \in Targets : target \in States
  /\ MaxRequests \in Nat /\ MaxFaults \in Nat

VARIABLES
  group,     \* session_.group()
  mode,      \* "idle", "connected", "playing" or "paused" (holding_pause())
  wpc,       \* the worker: "free", inside pump_live(), or inside pump_setup()
  live,      \* Player::live_: what the player pressed
  staged,    \* Player::staged_keys_
  live_on,   \* live_active_
  live_held, \* live_held_: what Live pressed
  space,     \* live_space_worker_
  seen,      \* seen_active_
  inbox,     \* setup_inbox_
  pending,   \* setup_pending_
  asking,    \* set_device_setup() has found the phase right for this request
  asked,     \* history: requests posted
  answered,  \* history: setup_events_ put out
  faults     \* steps so far in which devices failed

player   == <<live, staged>>
liveness == <<live_on, live_held>>
surface  == <<space, seen>>
requests == <<inbox, pending, asking, asked, answered>>
vars     == <<group, mode, wpc, player, liveness, surface, requests, faults>>

Init ==
  /\ group = Empty /\ mode = "idle" /\ wpc = "free"
  /\ live = AllNeutral /\ staged = {}
  /\ live_on = FALSE /\ live_held = AllNeutral
  /\ space = 0 /\ seen = 0
  /\ inbox = <<>> /\ pending = FALSE /\ asking = <<>>
  /\ asked = 0 /\ answered = 0 /\ faults = 0

\* The devices that fail in a step.
Failing(bad) ==
  /\ bad \subseteq group.active
  /\ faults' = IF bad = {} THEN faults ELSE faults + 1
  /\ faults' <= MaxFaults

-----------------------------------------------------------------------------
(* publish_setup(): Live draws on the first active touchscreen.            *)

SpaceOf(g) ==
  LET touching == {d \in g.active : Has(g, d, "touch")}
  IN IF touching = {} THEN 0 ELSE g.setup[Min(touching)].levels["touch"]

Publish(g) == space' = SpaceOf(g) /\ seen' = Cardinality(g.active)

\* A device that was dropped is noticed by the count.
PublishIfDropped(g) ==
  IF Cardinality(g.active) # seen THEN Publish(g) ELSE UNCHANGED surface

-----------------------------------------------------------------------------
(* Session                                                                 *)

\* connect(): devices that cannot be opened are skipped, and so is one on which
\* none of the wanted profiles could be registered.
Connect(setups, refused, bad) ==
  /\ mode = "idle" /\ wpc = "free" /\ ~pending
  /\ \A d \in DOMAIN setups : Validates(setups[d])
  /\ LET opened == {d \in DOMAIN setups \ bad :
                      setups[d].levels = Off \/ Opened(setups[d], refused).levels # Off}
     IN /\ opened # {}
        /\ group' = SendLevels(Added(setups, opened, refused), opened, {})
  /\ mode' = "connected"
  /\ Publish(group')
  /\ UNCHANGED <<wpc, player, liveness, requests, faults>>

\* disconnect(): closing sends each Node's neutral report.
Disconnect ==
  /\ mode = "connected" /\ wpc = "free" /\ ~pending
  /\ group' = Empty /\ mode' = "idle"
  /\ UNCHANGED <<wpc, player, liveness, surface, requests, faults>>

-----------------------------------------------------------------------------
(* Player: what run() does to the group                                    *)

Playing == mode = "playing" /\ wpc = "free"

\* settle(): releases, a flush, presses, a flush.
Settled(held, to) ==
  LET released == SendAll(FlushHeld(held, {}), Releases(held.record, to), {})
  IN IF held.record = to THEN held
     ELSE FlushHeld(SendAll(FlushHeld(released, {}), Presses(held.record, to), {}), {})

\* What the player leaves: the group, and what it presses.
Leaves(held) == group' = held.group /\ live' = held.record

\* flush_now() and settle(): jump(), hold_paused() and the end of run().
SettleTo(target, bad) ==
  /\ Failing(bad)
  /\ Leaves(Settled([group |-> Flush(group, bad), record |-> live], target))
  /\ staged' = {}

Play(target) ==
  /\ mode = "connected" /\ wpc = "free" /\ ~pending /\ group.active # {}
  /\ mode' = "playing"
  /\ Leaves(Settled([group |-> Flush(group, {}), record |-> AllNeutral], target))
  /\ staged' = {}
  /\ UNCHANGED <<wpc, liveness, surface, requests, faults>>

\* A row that was sent waits for the flush, its control is staged.
Stages(sent, payload, kept) ==
  /\ Leaves(Recorded(sent, live, payload))
  /\ staged' = IF sent.result = "OK" THEN kept \union {payload.control} ELSE kept

\* execute(): a control that is staged already goes out first.
Row(payload, bad) ==
  /\ Playing /\ group.active # {} /\ Failing(bad)
  /\ LET conflict == payload.control \in staged
     IN Stages(Send(IF conflict THEN Flush(group, bad) ELSE group, payload, bad), payload,
               IF conflict THEN {} ELSE staged)
  /\ UNCHANGED <<mode, wpc, liveness, surface, requests>>

\* Everything due is sent before the wait for the next row.
Wait(bad) ==
  /\ Playing /\ Failing(bad)
  /\ group' = Flush(group, bad) /\ staged' = {}
  /\ UNCHANGED <<mode, wpc, live, liveness, surface, requests>>

Pause(bad) ==
  /\ Playing /\ SettleTo(AllNeutral, bad)
  /\ mode' = "paused"
  /\ UNCHANGED <<wpc, liveness, surface, requests>>

Resume(target) ==
  /\ mode = "paused" /\ wpc = "free"
  /\ SettleTo(target, {})
  /\ mode' = "playing"
  /\ UNCHANGED <<wpc, liveness, surface, requests>>

\* A stop, the script's end or the loss of every device; then finish_run().
EndRun(bad) ==
  /\ mode \in {"playing", "paused"} /\ wpc = "free"
  /\ SettleTo(AllNeutral, bad)
  /\ mode' = "connected"
  /\ PublishIfDropped(group')
  /\ UNCHANGED <<wpc, liveness, requests>>

-----------------------------------------------------------------------------
(* Live                                                                    *)

LiveSwitch(on) ==
  /\ mode # "idle" /\ live_on # on /\ live_on' = on
  /\ UNCHANGED <<group, mode, wpc, player, live_held, surface, requests, faults>>

\* The worker may pump whenever it has devices.
MayPump == mode # "idle" /\ wpc = "free"

\* release_live(), as a group and a record.
Released(g, bad) ==
  IF IsNeutral(live_held) THEN [group |-> g, record |-> live_held]
  ELSE FlushHeld(SendAll([group |-> g, record |-> live_held],
                         Releases(live_held, AllNeutral), bad), bad)

\* What Live leaves: the group, and what it presses.
LiveLeaves(held) == group' = held.group /\ live_held' = held.record

\* pump_live() while Live is off: what it still holds is let go of.
PumpOff(bad) ==
  /\ MayPump /\ ~live_on /\ ~IsNeutral(live_held)
  /\ Failing(bad)
  /\ PublishIfDropped(group)
  /\ LiveLeaves(Released(group, bad))
  /\ UNCHANGED <<mode, wpc, player, live_on, requests>>

PumpOn ==
  /\ MayPump /\ live_on /\ wpc' = "pump"
  /\ PublishIfDropped(group)
  /\ UNCHANGED <<group, mode, player, liveness, requests, faults>>

\* Variant: what goes out after Live was turned off is not recorded.
PumpApplyUnrecorded(payload, bad) ==
  /\ wpc = "pump" /\ Failing(bad)
  /\ LET sent == Send(group, payload, bad)
     IN /\ group' = sent.group
        /\ live_held' = IF sent.result = "OK" /\ live_on THEN Apply(live_held, payload)
                        ELSE live_held
  /\ UNCHANGED <<mode, wpc, player, live_on, surface, requests>>

\* apply_live_one(), or a toggle.
PumpApply(payload, bad) ==
  /\ wpc = "pump" /\ Failing(bad)
  /\ LiveLeaves(Recorded(Send(group, payload, bad), live_held, payload))
  /\ UNCHANGED <<mode, wpc, player, live_on, surface, requests>>

PumpFlush(bad) ==
  /\ wpc = "pump" /\ wpc' = "free" /\ Failing(bad)
  /\ group' = Flush(group, bad)
  /\ UNCHANGED <<mode, player, liveness, surface, requests>>

-----------------------------------------------------------------------------
(* Setup requests                                                          *)

\* set_device_setup(), called by one thread at a time: first the look at the
\* phase and at the player's state, ...
AskLook(d, wanted) ==
  /\ asking = <<>> /\ asked < MaxRequests
  /\ mode \in {"connected", "paused"}
  /\ asking' = <<[device |-> d, setup |-> wanted]>>
  /\ UNCHANGED <<group, mode, wpc, player, liveness, surface, inbox, pending, asked,
                 answered, faults>>

\* ... then the request.
AskPosts == asking # <<>> /\ asking' = <<>>

\* Variant: the request is left for whoever looks next.
AskPostUnflagged ==
  /\ AskPosts
  /\ inbox' = inbox \o asking /\ asked' = asked + 1
  /\ UNCHANGED <<group, mode, wpc, player, liveness, surface, pending, answered, faults>>

AskPost ==
  /\ AskPosts
  /\ inbox' = inbox \o asking /\ asked' = asked + 1
  /\ pending' = TRUE
  /\ UNCHANGED <<group, mode, wpc, player, liveness, surface, answered, faults>>

\* Variant: a run in play is not told from a paused one.
PumpSetupAnytime ==
  /\ wpc = "free" /\ pending
  /\ pending' = FALSE /\ wpc' = "setup"
  /\ UNCHANGED <<group, mode, player, liveness, surface, inbox, asking, asked, answered, faults>>

\* pump_setup(), from loop(), run_live() or a paused player: the flag first.
PumpSetup ==
  /\ wpc = "free" /\ pending /\ mode # "playing"
  /\ pending' = FALSE /\ wpc' = "setup"
  /\ UNCHANGED <<group, mode, player, liveness, surface, inbox, asking, asked, answered, faults>>

\* Variant: Live keeps what it holds while Nodes come and go.
ReconfigureHolding(refused, bad) ==
  /\ wpc = "setup" /\ wpc' = "free" /\ Failing(bad)
  /\ group' = ServeAll(group, inbox, refused, bad)
  /\ answered' = answered + Len(inbox) /\ inbox' = <<>>
  /\ Publish(group')
  /\ UNCHANGED <<mode, player, liveness, pending, asking, asked>>

\* Then the requests: Live lets go, each is served, and Live's surface is looked up again.
ReconfigureAll(refused, bad) ==
  /\ wpc = "setup" /\ wpc' = "free" /\ Failing(bad)
  /\ LET let_go == Released(group, {})
     IN group' = ServeAll(let_go.group, inbox, refused, bad) /\ live_held' = let_go.record
  /\ answered' = answered + Len(inbox) /\ inbox' = <<>>
  /\ Publish(group')
  /\ UNCHANGED <<mode, player, live_on, pending, asking, asked>>

\* pump_setup_in_play() while a script runs: the requests are refused.
RefuseInPlay ==
  /\ Playing /\ pending
  /\ pending' = FALSE /\ wpc' = "refuse"
  /\ UNCHANGED <<group, mode, player, liveness, surface, inbox, asking, asked, answered, faults>>

Refused ==
  /\ wpc = "refuse" /\ wpc' = "free"
  /\ answered' = answered + Len(inbox) /\ inbox' = <<>>
  /\ UNCHANGED <<group, mode, player, liveness, surface, pending, asking, asked, faults>>

-----------------------------------------------------------------------------

\* The devices that fail in a step: none, or one.
Faults == {{}} \union {{d} : d \in group.active}

Script ==
  \/ \E target \in Targets : Play(target) \/ Resume(target)
  \/ \E bad \in Faults :
       \/ \E payload \in Rows : Row(payload, bad)
       \/ Wait(bad) \/ Pause(bad) \/ EndRun(bad)

Live ==
  \/ \E on \in BOOLEAN : LiveSwitch(on)
  \/ PumpOn
  \/ \E bad \in Faults :
       PumpOff(bad) \/ PumpFlush(bad) \/ \E payload \in Inputs : PumpApply(payload, bad)

Asks == AskPost \/ \E d \in Devices, wanted \in Wanted : AskLook(d, wanted)

Answers ==
  \/ PumpSetup \/ RefuseInPlay \/ Refused
  \/ \E refused \in Refusals, bad \in Faults : ReconfigureAll(refused, bad)

Next ==
  \/ \E setups \in Selections, refused \in Refusals, bad \in SUBSET Devices :
       Connect(setups, refused, bad)
  \/ Disconnect
  \/ Script \/ Live \/ Asks \/ Answers

\* The worker looks at the requests after every pump of Live: the look cannot be
\* passed over for ever, and what the worker began it ends.
Takes    == wpc = "free" /\ pending /\ wpc' \in {"setup", "refuse"}
Finishes == wpc # "free" /\ wpc' = "free"

Fairness == SF_wpc(Takes) /\ WF_wpc(Finishes) /\ WF_asking(AskPosts)

Spec == Init /\ [][Next]_vars /\ Fairness

-----------------------------------------------------------------------------
(* Properties                                                              *)

\* Whatever the player and Live did to the devices before, one flush and one
\* retry bring any row or input through: BUSY never reaches the caller of send()
\* or apply_live_one(), who would drop the event.
RetryIsEnough == \A payload \in Rows \union Inputs : Send(group, payload, {}).result # "BUSY"

\* What a device holds down is in the record of the player or of Live, so the
\* release at a pause, at the end and when Live is turned off finds it.  The
\* exception is a release that broadcast() dropped for that device alone.
HeldIsRecorded ==
  \A x \in group.state :
    LET c == x[2].control IN Holds(live, c) \/ Holds(live_held, c) \/ <<x[1], c>> \in group.missed

\* Devices with one and the same setup hold the same and, once flushed, were told
\* the same, however rows, input, drops and reconfigurations followed each other; but for
\* an event that broadcast() dropped for one of them.
Lockstep ==
  \A d, e \in group.active :
    group.setup[d] = group.setup[e] =>
      \A c \in Controls : ({d, e} \X {c}) \intersect group.missed = {} =>
        /\ ValueOf(Of(group.state, d), c) = ValueOf(Of(group.state, e), c)
        /\ \/ ProfileOf[c] \in group.dirty
           \/ ValueOf(Of(group.reported, d), c) = ValueOf(Of(group.reported, e), c)

\* Every keyboard on the phone was told its battery level after it was
\* registered, also when a reconfiguration registered it again.
BatteryIsTold ==
  \A d \in group.active :
    Has(group, d, "key") /\ group.setup[d].battery # 0 =>
      Of(group.told, d) = {group.setup[d].battery}

\* A Node does not come or go under a running script, even when the request to
\* change it was accepted in a pause that has ended since.
NodesStayWhilePlaying ==
  [][mode = "playing" /\ mode' = "playing" =>
       \A d \in group'.active : group'.setup[d] = group.setup[d]]_vars

\* Every request that set_device_setup() accepted is answered in the end,
\* whatever the player does in the meantime.
RequestsAreAnswered == \A n \in 1..MaxRequests : asked >= n ~> answered >= n
=============================================================================
