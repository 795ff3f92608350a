------------------------------- MODULE Requests -------------------------------
(***************************************************************************)
(* The handlers of the control API: what a request asks is checked, a       *)
(* handler looks at the engine's phase, reads its parameters (loading a     *)
(* script takes time) and then calls the engine, while the window, other    *)
(* requests and the worker move the engine on.  A route is a table: the     *)
(* phase it looks for, its parameters in the order they are read, and what  *)
(* it then does (module Desk has the routes the window's thread answers).   *)
(*                                                                         *)
(* A number stands for the parameter's own; UintSize stands for 2^32.       *)
(***************************************************************************)
EXTENDS Integers, Sequences, SequencesExt

CONSTANTS Handlers,     \* the threads with a request
          MaxRequests,  \* bound: requests in a behaviour
          MaxOdd,       \* bound: of these, the first that may ask anything; the others
                        \* ask what changes the engine's phase or Live control, as usual
          MaxMoves      \* bound: what the window and the worker do meanwhile

ASSUME RequestsAssumption == MaxRequests \in Nat /\ MaxOdd \in Nat /\ MaxMoves \in Nat

Absent == -9
Unreadable == -8
UintSize == 4

VARIABLES
  engine_phase, live_control,
  handling,        \* of each caller: its step, its request, the answer
  done_for,        \* history: what the engine did for each caller's request
  asked_so_far, moves

requestsVars == <<engine_phase, live_control, handling, done_for, asked_so_far, moves>>

-----------------------------------------------------------------------------
(* Parameters                                                              *)

\* read_flag() and its like: what is not given takes the default, what cannot be read
\* is refused (Unreadable).
ReadParameter(value, p) ==
  IF value = Absent THEN p.default ELSE IF value \in p.good THEN value ELSE Unreadable

Required(name, good) == [of |-> name, good |-> good, default |-> Unreadable]
Optional(name, good, default) == [of |-> name, good |-> good, default |-> default]
Flag(name, default) == Optional(name, {0, 1}, default)

Int32 == -UintSize .. UintSize - 1    \* parse_int32()
OneBased == 1 .. 2 * UintSize         \* parse_int() of a number from 1, of 64 bits
Usages == 0 .. UintSize - 1           \* parse_usage()

Route(guard, reads, does) == [guard |-> guard, reads |-> reads, does |-> does]

Connected1 == {"connected", "playing"}
Always1 == {"idle", "connected", "playing", "disconnecting"}

RefreshRoute == Route(Always1, <<>>, "ask_window")
ConnectRoute == Route(Always1, <<Optional("devices", OneBased, Absent)>>, "ask_window")
RecordRoutes == Route(Always1, <<Optional("name", Int32, Absent)>>, "ask_window")
BridgeRoute ==
  Route(Always1, <<Required("device", OneBased), Optional("port", 1..UintSize, Absent), Flag("on", 1)>>,
        "ask_window")
HidRoute ==
  Route(Always1, <<Required("device", OneBased), Required("profile", Usages), Flag("on", 1)>>, "ask_window")
BatteryRoute ==
  Route(Always1, <<Required("device", OneBased), Required("profile", Usages), Flag("on", 1),
                  Optional("level", Usages, Absent), Optional("min", Usages, Absent),
                  Optional("max", Usages, Absent)>>, "ask_window")
DisconnectRoute == Route(Connected1, <<>>, "disconnect")

\* The script is loaded among its parameters: a good one is a file that loads.
PlayRoute == Route({"connected"}, <<Required("script", {1}), Optional("loop", 0..UintSize, 0)>>, "play")
StopRoute == Route(Always1, <<>>, "stop")
PauseRoute == Route({"playing"}, <<Flag("paused", 1)>>, "player")
SeekRoute == Route({"playing"}, <<Required("time_ms", 0..UintSize), Optional("lap", OneBased, Absent)>>, "player")
LiveStartRoute == Route(Connected1, <<>>, "live_start")
LiveStopRoute == Route(Always1, <<>>, "live_stop")

TouchRoute == Route(Always1, <<Required("x", Int32), Required("y", Int32), Flag("state", 1)>>, "send")
MoveRoute == Route(Always1, <<Optional("dx", Int32, 0), Optional("dy", Int32, 0)>>, "send")
ButtonRoute == Route(Always1, <<Required("button", OneBased), Flag("down", 1)>>, "send")
WheelRoute == Route(Always1, <<Optional("delta", Int32, 0)>>, "send")
KeyRoute == Route(Always1, <<Required("usage", Usages), Flag("down", 1)>>, "send")
PadButtonRoute == Route(Always1, <<Required("index", OneBased), Flag("down", 1)>>, "send")
AxisRoute == Route(Always1, <<Required("axis", 0..2 * UintSize), Required("value", Int32)>>, "send")
DpadRoute == Route(Always1, <<Flag("up", 0), Flag("down", 0), Flag("right", 0), Flag("left", 0)>>, "send")
\* Without "down" it is a tap.
MediaRoute == Route(Always1, <<Required("key", Usages), Optional("down", {0, 1}, Absent)>>, "send")
StylusRoute ==
  Route(Always1, <<Required("x", Int32), Required("y", Int32), Optional("pressure", Int32, 0),
                  Flag("in_range", 1), Flag("tip", 0)>>, "send")

Routes ==
  {RefreshRoute, ConnectRoute, RecordRoutes, BridgeRoute, HidRoute, BatteryRoute, DisconnectRoute,
   PlayRoute, StopRoute, PauseRoute, SeekRoute, LiveStartRoute, LiveStopRoute, TouchRoute, MoveRoute,
   ButtonRoute, WheelRoute, KeyRoute, PadButtonRoute, AxisRoute, DpadRoute, MediaRoute, StylusRoute}

Changing == {DisconnectRoute, PlayRoute, LiveStartRoute, LiveStopRoute}

-----------------------------------------------------------------------------
(* Requests: the usual value of every parameter, but for one               *)

UsualOf(p) == IF 1 \in p.good THEN 1 ELSE 0

OddValues == {Absent, Unreadable, -1, 0, UintSize + 1}

Usual(route) == [i \in DOMAIN route.reads |-> UsualOf(route.reads[i])]

Given(route) ==
  {Usual(route)} \union {[Usual(route) EXCEPT ![i] = v] : i \in DOMAIN route.reads, v \in OddValues}

\* "tip" needs "in_range".
Fits(route, args) == route # StylusRoute \/ args[5] = 0 \/ args[4] = 1

\* static_cast<uint32_t>, for a button's number.
Narrowed(route, args) ==
  IF route \in {ButtonRoute, PadButtonRoute} THEN [args EXCEPT ![1] = @ % UintSize] ELSE args

Waiting == [step |-> "waiting", route |-> StopRoute, given |-> <<>>, read |-> <<>>, web |-> FALSE,
            status |-> 0, stale |-> FALSE]

\* The routing refuses what a web page asks.
Begun(route, args, web) ==
  [step |-> IF web THEN "answered" ELSE "guard", route |-> route, given |-> args, read |-> <<>>,
   web |-> web, status |-> IF web THEN 403 ELSE 0, stale |-> FALSE]

RequestsInit ==
  /\ engine_phase \in {"idle", "connected"} /\ live_control = FALSE
  /\ handling = [c \in Handlers |-> Waiting] /\ done_for = [c \in Handlers |-> {}]
  /\ asked_so_far = 0 /\ moves = 0

Arrive(c) ==
  /\ handling[c].step \in {"waiting", "answered"}
  /\ asked_so_far < MaxRequests /\ asked_so_far' = asked_so_far + 1
  /\ \E route \in Routes, web \in BOOLEAN : \E args \in Given(route) :
       /\ asked_so_far < MaxOdd \/ (~web /\ args = Usual(route) /\ route \in Changing)
       /\ handling' = [handling EXCEPT ![c] = Begun(route, args, web)]
  /\ done_for' = [done_for EXCEPT ![c] = {}]
  /\ UNCHANGED <<engine_phase, live_control, moves>>

Stays == UNCHANGED <<engine_phase, live_control, done_for, asked_so_far, moves>>

To(c, step) == handling' = [handling EXCEPT ![c].step = step]
Answer(c, status) == handling' = [handling EXCEPT ![c].step = "answered", ![c].status = status]

LookAtPhase(c) ==
  /\ handling[c].step = "guard" /\ Stays
  /\ IF engine_phase \in handling[c].route.guard THEN To(c, "read") ELSE Answer(c, 409)

ReadParameters(c) ==
  /\ handling[c].step = "read" /\ Stays
  /\ LET route == handling[c].route
         args == [i \in DOMAIN route.reads |-> ReadParameter(handling[c].given[i], route.reads[i])]
     IN IF Contains(args, Unreadable) \/ ~Fits(route, args)
        THEN Answer(c, 400)
        ELSE handling' = [handling EXCEPT ![c].step = "act", ![c].read = Narrowed(route, args)]

\* The calls of the engine.  Each looks at its own state once more and then does nothing.
Did(c, what) == done_for' = [done_for EXCEPT ![c] = what]

\* A stop ends a script that is queued or runs; that it ends comes later (RunIsOver).
Calls(c) ==
  LET route == handling[c].route
      takes == CASE route.does = "play"       -> engine_phase = "connected"
                 [] route.does = "disconnect" -> engine_phase \in Connected1
                 [] route.does = "live_start" -> engine_phase \in Connected1
                 [] route.does = "send"       -> live_control
                 [] OTHER                     -> TRUE
  IN /\ Did(c, IF takes THEN {<<route.does, handling[c].read>>} ELSE {})
     /\ engine_phase' = CASE takes /\ route.does = "play"       -> "playing"
                          [] takes /\ route.does = "disconnect" -> "disconnecting"
                          [] OTHER                              -> engine_phase
     /\ live_control' = CASE route.does = "live_start" /\ takes -> TRUE
                          [] route.does = "live_stop"          -> FALSE
                          [] OTHER                             -> live_control

Stale(c) == engine_phase \notin handling[c].route.guard

\* Variant: the route answers ok whatever play() says.
ActUnasked(c) ==
  /\ handling[c].step = "act" /\ handling[c].route.does # "ask_window" /\ Calls(c)
  /\ handling' = [handling EXCEPT ![c].step = "answered", ![c].stale = Stale(c), ![c].status = 200]
  /\ UNCHANGED <<asked_so_far, moves>>

\* play() says whether it took the script; the other calls say nothing, and the answer is ok.
ActAndAnswer(c) ==
  /\ handling[c].step = "act" /\ handling[c].route.does # "ask_window" /\ Calls(c)
  /\ handling' = [handling EXCEPT ![c].step = "answered", ![c].stale = Stale(c),
                    ![c].status = IF handling[c].route.does = "play" /\ done_for'[c] = {} THEN 409 ELSE 200]
  /\ UNCHANGED <<asked_so_far, moves>>

\* The window's answer is the route's.
WindowAnswers(c) ==
  /\ handling[c].step = "act" /\ handling[c].route.does = "ask_window"
  /\ \E status \in {200, 400, 409, 503} :
       /\ Answer(c, status)
       /\ Did(c, IF status = 200 THEN {<<"ask_window", handling[c].read>>} ELSE {})
  /\ UNCHANGED <<engine_phase, live_control, asked_so_far, moves>>

\* The window, the worker and the phone: another script is played, one ends, a connection
\* is made or ends, Live control is switched.
EngineMoves ==
  /\ moves < MaxMoves /\ moves' = moves + 1
  /\ \/ engine_phase = "idle" /\ engine_phase' = "connected" /\ UNCHANGED live_control
     \/ engine_phase = "connected" /\ engine_phase' = "playing" /\ UNCHANGED live_control
     \/ engine_phase \in Connected1 /\ engine_phase' = "disconnecting" /\ UNCHANGED live_control
     \/ engine_phase \in Connected1 /\ live_control' = ~live_control /\ UNCHANGED engine_phase
  /\ UNCHANGED <<handling, done_for, asked_so_far>>

\* run_live() ends with the connection.
RunIsOver ==
  /\ \/ engine_phase = "playing" /\ engine_phase' = "connected" /\ UNCHANGED live_control
     \/ engine_phase = "disconnecting" /\ engine_phase' = "idle" /\ live_control' = FALSE
  /\ UNCHANGED <<handling, done_for, asked_so_far, moves>>

RequestsNext ==
  \/ EngineMoves \/ RunIsOver
  \/ \E c \in Handlers :
       Arrive(c) \/ LookAtPhase(c) \/ ReadParameters(c) \/ ActAndAnswer(c) \/ WindowAnswers(c)

RequestsSpec == RequestsInit /\ [][RequestsNext]_requestsVars

-----------------------------------------------------------------------------

\* An answer says what happened.  A request that is refused has done nothing.  One that is
\* answered ok was read without fault, none of its parameters fell back to a default
\* because of a typo, and the engine did what it asks with those values, a button's number
\* of more than 32 bits aside; only one that the engine had moved on under, and input while
\* Live control is off, may be answered ok without effect, and never a /play: "otherwise a
\* caller sees "ok" for a script that never started" (control_api.cpp:572-574).
OkIsTrue ==
  \A c \in Handlers :
    LET h == handling[c]
    IN h.step = "answered" =>
         /\ h.status # 200 => done_for[c] = {}
         /\ h.status = 200 =>
              /\ ~h.web
              /\ \A i \in DOMAIN h.given :
                   \/ h.given[i] = Absent
                   \/ h.given[i] \in h.route.reads[i].good
                        /\ (h.given[i] < UintSize => h.read[i] = h.given[i])
              /\ done_for[c] = {} => h.route.does # "play" /\ (h.stale \/ h.route.does = "send")
=============================================================================
