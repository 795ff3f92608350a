------------------------------ MODULE DeviceGroup ------------------------------
(***************************************************************************)
(* aoap::DeviceGroup: every connected Device, each with its own Nodes and  *)
(* Specs, and one script event sent to all of them.  The group belongs to  *)
(* one thread, so an operation is an operator from a group (a record) to   *)
(* what it leaves; `bad` is the devices that fail during it.               *)
(*                                                                         *)
(* A profile's settings are a level: 0 is switched off, a higher level     *)
(* declares more (usages of the keyboard, contacts of the touchscreen,     *)
(* whose surface the level also stands for), Invalid fails validation.     *)
(* One battery stands for the batteries of the profiles; it belongs to the *)
(* keyboard.                                                               *)
(***************************************************************************)
EXTENDS InputState, FiniteSets, SequencesExt

CONSTANTS
  Devices,      \* slots, in the order they were connected: 1 .. n
  Profiles,     \* the profiles of the controls, "key" and "touch" among them
  ProfileOf,    \* the profile a control belongs to
  Rank,         \* the lowest level whose Spec declares a control
  Invalid       \* a level that fails validation

ASSUME GroupAssumption ==
  /\ Devices \subseteq Nat /\ IsFiniteSet(Controls) /\ Invalid \in Nat \ {0}
  /\ ProfileOf \in [Controls -> Profiles] /\ Rank \in [Controls -> Nat]

Off == [p \in Profiles |-> 0]

\* What a device is connected or reconfigured with.
Setup(levels, battery) == [levels |-> levels, battery |-> battery]

Setups == [levels : [Profiles -> Nat], battery : Nat]

NoSetup == Setup(Off, 0)

Empty ==
  [active   |-> {},                                  \* Slot::active
   setup    |-> [d \in Devices |-> NoSetup],         \* Slot::setup: what is registered
   state    |-> {},     \* <<device, payload>>: what the Nodes hold in memory
   reported |-> {},     \* <<device, payload>>: what the phones were told
   dirty    |-> {},     \* dirty_mask_
   sent     |-> {},     \* <<device, level>>: battery_sent
   told     |-> {},     \* <<device, level>>: what the registered HID reported
   missed   |-> {}]     \* <<device, control>>: history, edges dropped for one device

Has(g, d, p) == d \in g.active /\ g.setup[d].levels[p] # 0

\* What is about one device, and what is about the others.
Of(pairs, d) == {x[2] : x \in {y \in pairs : y[1] = d}}

Without(pairs, devices) == {x \in pairs : x[1] \notin devices}

\* profile_mask(): what some active device has a Node for.
Mask(g) == {p \in Profiles : \E d \in g.active : Has(g, d, p)}

\* A device that is closed takes its Nodes and its history with it.
Close(g, lost) ==
  [g EXCEPT !.active = @ \ lost,
            !.state = Without(@, lost), !.reported = Without(@, lost),
            !.sent = Without(@, lost), !.told = Without(@, lost),
            !.missed = Without(@, lost)]

\* fail(): a device that fails is closed and skipped from then on.
Fail(g, lost) == IF lost \intersect g.active = {} THEN g ELSE Close(g, lost \intersect g.active)

-----------------------------------------------------------------------------
(* apply()                                                                 *)

\* The Spec a level builds has room for the control.
Declares(level, c) == Rank[c] <= level

\* libaoahid's answer to one mutation of one Node.  A contact beyond the slots
\* overflows; an edge on top of an unreported edge is BUSY; what changes
\* nothing is taken.
Mutate(g, d, payload) ==
  LET c     == payload.control
      level == g.setup[d].levels[ProfileOf[c]]
      now   == Of(g.state, d)
      Touching == {p \in now : ProfileOf[p.control] = "touch"}
  IN IF ~Declares(level, c) THEN "PARAM"
     ELSE IF payload.value = ValueOf(now, c) THEN "OK"
     ELSE IF ValueOf(now, c) # ValueOf(Of(g.reported, d), c) THEN "BUSY"
     ELSE IF ProfileOf[c] = "touch" /\ ~Holds(now, c) /\ Cardinality(Touching) >= level
          THEN "OVERFLOW" ELSE "OK"

Taken(g, takers, behind, payload) ==
  LET c == payload.control
      before == {x \in g.state : x[1] \notin takers \/ x[2].control # c}
  IN [g EXCEPT !.state = before \union (takers \X Apply({}, payload)),
               !.dirty = IF takers = {} THEN @ ELSE @ \union {ProfileOf[c]},
               !.missed = (@ \ (takers \X {c})) \union (behind \X {c})]

\* The slots are visited in order, and BUSY ends the walk as long as no device
\* has taken the row.  Later than that, the row is dropped for that device, and
\* so it is for one whose contacts are used up.
Visited(g, payload, answer) ==
  LET Saying(answers) == {d \in DOMAIN answer : answer[d] \in answers}
      first == {b \in Saying({"BUSY"}) : \A d \in Saying({"OK"}) : b < d}
      lost  == {d \in Saying({"LOST"}) : \A b \in first : d < b}
      behind == IF Saying({"OK"}) = {} THEN {} ELSE Saying({"BUSY", "OVERFLOW"})
  IN IF first # {}
     THEN [group |-> Fail(g, lost), result |-> "BUSY"]
     ELSE [group  |-> Taken(Fail(g, lost), Saying({"OK"}), behind, payload),
           result |-> IF Saying({"OK"}) # {} THEN "OK"
                      ELSE IF answer = <<>> THEN "UNSUPPORTED"
                      ELSE IF Saying({"PARAM", "OVERFLOW"}) # {} THEN "PARAM" ELSE "OK"]

Broadcast(g, payload, bad) ==
  LET present == {d \in g.active : Has(g, d, ProfileOf[payload.control])}
  IN Visited(g, payload,
             [d \in present |-> IF d \in bad THEN "LOST" ELSE Mutate(g, d, payload)])

-----------------------------------------------------------------------------
(* flush()                                                                 *)

Told(g, devices) ==
  LET flushed(x) == x[1] \in devices /\ ProfileOf[x[2].control] \in g.dirty
  IN {x \in g.reported : ~flushed(x)} \union {x \in g.state : flushed(x)}

\* Variant: the devices after one that fails are not reached.
FlushUntilFailure(g, bad) ==
  LET reached == {d \in g.active : \A b \in bad : d < b}
  IN IF g.dirty = {} THEN g
     ELSE Fail([g EXCEPT !.reported = Told(g, reached), !.dirty = {}], bad)

\* A device whose submission or drain fails is dropped; the others have told
\* the phone everything the flushed profiles hold.
Flush(g, bad) ==
  LET sent == {d \in g.active : \E p \in g.dirty : Has(g, d, p)}
  IN IF g.dirty = {} THEN g
     ELSE Fail([g EXCEPT !.reported = Told(g, sent), !.dirty = {}], bad \intersect sent)

\* Player::send() and Engine::apply_live_one(): one flush, then one retry.
Retry(once, payload, bad) ==
  IF once.result = "BUSY" THEN Broadcast(Flush(once.group, bad), payload, bad) ELSE once

Send(g, payload, bad) == Retry(Broadcast(g, payload, bad), payload, bad)

\* A group with the record of what its sender presses: what is taken is recorded.
Recorded(sent, record, payload) ==
  [group  |-> sent.group,
   record |-> IF sent.result = "OK" THEN Apply(record, payload) ELSE record]

SendNext(held, payload, bad) == Recorded(Send(held.group, payload, bad), held.record, payload)

SendAll(held, payloads, bad) ==
  LET order == SetToSeq(payloads)
      after[n \in 0..Len(order)] == IF n = 0 THEN held ELSE SendNext(after[n - 1], order[n], bad)
  IN  after[Len(order)]

FlushHeld(held, bad) == [held EXCEPT !.group = Flush(@, bad)]

-----------------------------------------------------------------------------
(* Connecting and reconfiguring                                            *)

Validates(setup) == \A p \in Profiles : setup.levels[p] # Invalid

\* same_node(): the battery's switch is part of the HID, its level is not.
SameNode(a, b, p) ==
  /\ a.levels[p] = b.levels[p]
  /\ p = "key" => (a.battery = 0) = (b.battery = 0)

\* open_profiles(): a profile that cannot be registered is switched off.
Opened(setup, refused) ==
  Setup([p \in Profiles |-> IF p \in refused THEN 0 ELSE setup.levels[p]],
        setup.battery)

\* Variant: the battery level counts as sent although its HID is a new one.
FreshKeepsSent(g, d, profiles, setup) ==
  LET Gone(x) == x[1] = d /\ ProfileOf[x[2].control] \in profiles
  IN [g EXCEPT !.setup[d] = setup,
               !.state = {x \in @ : ~Gone(x)}, !.reported = {x \in @ : ~Gone(x)},
               !.told = IF "key" \in profiles THEN Without(@, {d}) ELSE @,
               !.missed = {m \in @ : m[1] # d \/ ProfileOf[m[2]] \notin profiles}]

\* The Nodes of the profiles start neutral, and a keyboard without its level.
Fresh(g, d, profiles, setup) ==
  LET Gone(x)  == x[1] = d /\ ProfileOf[x[2].control] \in profiles
      Keep(levels) == IF "key" \in profiles THEN Without(levels, {d}) ELSE levels
  IN [g EXCEPT !.setup[d] = setup,
               !.state = {x \in @ : ~Gone(x)}, !.reported = {x \in @ : ~Gone(x)},
               !.sent = Keep(@), !.told = Keep(@),
               !.missed = {m \in @ : m[1] # d \/ ProfileOf[m[2]] \notin profiles}]

\* add_device(), for the devices that could be opened: their Nodes are new.
Added(setups, opened, refused) ==
  [Empty EXCEPT !.active = opened,
                !.setup = [d \in Devices |-> IF d \in opened THEN Opened(setups[d], refused)
                                            ELSE NoSetup]]

\* send_battery_levels() for some devices: each level once per HID.
SendLevels(g, chosen, bad) ==
  LET clean == Flush(g, bad)
      due   == {d \in chosen \intersect clean.active :
                  /\ Has(clean, d, "key") /\ clean.setup[d].battery # 0
                  /\ Of(clean.sent, d) # {clean.setup[d].battery}}
      now   == {<<d, clean.setup[d].battery>> : d \in due \ bad}
  IN Fail([clean EXCEPT !.sent = Without(@, due) \union now,
                        !.told = Without(@, due) \union now], due \intersect bad)

\* reconfigure(): what changes is closed and opened again, after everything
\* wanted was found valid.  A Node that cannot be closed drops the device.
Reconfigure(g, d, wanted, refused, bad) ==
  LET clean   == Flush(g, bad)
      closing == {p \in Profiles : Has(clean, d, p) /\ ~SameNode(clean.setup[d], wanted, p)}
      opening == {p \in Profiles : wanted.levels[p] # 0 /\ (p \in closing \/ ~Has(clean, d, p))}
      Invalids == {p \in opening : wanted.levels[p] = Invalid}
  IN IF d \notin clean.active \/ Invalids # {} THEN [group |-> clean, done |-> FALSE]
     ELSE IF closing # {} /\ d \in bad THEN [group |-> Fail(clean, {d}), done |-> FALSE]
     ELSE [group |-> Fresh(clean, d, closing \union opening,
                           Opened(wanted, refused \intersect opening)),
           done |-> refused \intersect opening = {}]

\* pump_setup(), one request: the device is brought to what is wanted and told its
\* battery levels.
Serve(g, request, refused, bad) ==
  SendLevels(Reconfigure(g, request.device, request.setup, refused, bad).group,
             {request.device}, {})

ServeAll(g, requested, refused, bad) ==
  LET after[n \in 0..Len(requested)] ==
        IF n = 0 THEN g ELSE Serve(after[n - 1], requested[n], refused, bad)
  IN  after[Len(requested)]
=============================================================================
