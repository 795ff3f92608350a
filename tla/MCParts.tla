-------------------------------- MODULE MCParts --------------------------------
(***************************************************************************)
(* The parts that stand alone and whose properties are about safety, side   *)
(* by side for TLC: a behaviour is one of one part, the others rest.        *)
(***************************************************************************)
EXTENDS Timeline, Getevent, Bridges, Capture, Stores, Requests

-----------------------------------------------------------------------------
(* Script files                                                            *)

Event(c, v, wait) ==
  [kind |-> "row", shape |-> TRUE, payload |-> Set(c, v), wait |-> wait, coords |-> "any"]

Row1 == Event(0, 1, 2)
Row0 == Event(0, 0, 0)

Wait2 == [kind |-> "wait", wait |-> 2]

Bare(kind) == [kind |-> kind]

Lap(from, to, keep_time) ==
  [kind |-> "lap", from |-> from, to |-> to, keep_time |-> keep_time]

Every(every, from, to, keep_time) ==
  [kind |-> "every", every |-> every, from |-> from, to |-> to, keep_time |-> keep_time]

\* Every kind of line and every way it can be wrong.
Format ==
  {Row1, [Row1 EXCEPT !.coords = "fraction"], [Row1 EXCEPT !.coords = "integer"],
   [Row1 EXCEPT !.shape = FALSE], [Wait2 EXCEPT !.wait = Malformed], Wait2,
   Lap(2, 1, FALSE), Lap(1, 0, TRUE), Every(2, 0, 0, FALSE), Every(2, 0, 1, FALSE),
   Bare("blank"), Bare("unknown"), Bare("else"), Bare("end"),
   [kind |-> "format", shape |-> TRUE], [kind |-> "screen", shape |-> TRUE],
   [kind |-> "screen", shape |-> FALSE], [kind |-> "coords", coords |-> "normalized"],
   [kind |-> "coords", coords |-> "integer"]}

\* What decides on laps.
Blocks ==
  {Row1, Row0, Wait2, Lap(2, 2, TRUE), Lap(1, 2, FALSE), Every(2, 0, 0, FALSE),
   Every(2, 3, 0, TRUE), Bare("else"), Bare("end")}

\* What decides on time.
Times == {Row1, Row0, Every(2, 0, 0, FALSE)}

MCAlphabets == <<Format, Blocks, Times>>
MCMaxLines == <<3, 5, 3>>
MCMaxControls == <<0, 0, 2>>

-----------------------------------------------------------------------------

VARIABLE part

partsVars == <<part, vars, geteventVars, bridgeVars, captureVars, storesVars, requestsVars>>

\* A part that rests starts in one state.
PartsInit ==
  /\ part \in {"script", "getevent", "bridges", "capture", "stores", "requests"}
  /\ Init /\ GeteventInit /\ BridgesInit /\ CaptureInit /\ StoresInit /\ RequestsInit
  /\ part # "script" => alphabet = 1
  /\ part # "getevent" => panel = [slots |-> [s \in PanelSlots |-> [down |-> FALSE, at |-> 1]], slot |-> 0]
  /\ part # "bridges" => installed
  /\ part # "capture" => pointer = "touch"
  /\ part # "stores" => disk.there = {}
  /\ part # "requests" => engine_phase = "idle"

Resting6 ==
  /\ part # "script" => UNCHANGED vars
  /\ part # "getevent" => UNCHANGED geteventVars
  /\ part # "bridges" => UNCHANGED bridgeVars
  /\ part # "capture" => UNCHANGED captureVars
  /\ part # "stores" => UNCHANGED storesVars
  /\ part # "requests" => UNCHANGED requestsVars

PartsNext ==
  /\ UNCHANGED part
  /\ Resting6
  /\ \/ part = "script" /\ Next
     \/ part = "getevent" /\ GeteventNext
     \/ part = "bridges" /\ BridgesNext
     \/ part = "capture" /\ CaptureNext
     \/ part = "stores" /\ StoresNext
     \/ part = "requests" /\ RequestsNext

PartsSpec == PartsInit /\ [][PartsNext]_partsVars
=============================================================================
