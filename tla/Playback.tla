------------------------------ MODULE Playback ------------------------------
(***************************************************************************)
(* What aoap::Player promises its callers, without threads: a playback is  *)
(* stopped, playing or paused; it leaves the row after row order only when *)
(* a control was asked for; and what is held on the devices is what        *)
(* uninterrupted playback would hold there, or nothing while it is paused  *)
(* or stopped.                                                             *)
(***************************************************************************)
EXTENDS Naturals

CONSTANTS LastRow, HeldAt

Positions == 1 .. (LastRow + 1)

Controls == {"stop", "pause", "seek", "retime"}

VARIABLES
  mode,   \* "stopped", "playing" or "paused", as status() reports it
  pos,    \* the row playback is on
  held,   \* what playback has pressed and not released
  usable, \* some device is connected
  asked   \* the controls asked for and not yet served

vars == <<mode, pos, held, usable, asked>>

\* The devices may be lost in any step that sends; what was held is then moot.
Holds(controls) == usable' \in {usable, FALSE} /\ (usable' => held' = controls)

Init ==
  /\ mode = "stopped" /\ pos \in Positions /\ held = {} /\ usable = TRUE
  /\ asked = {}

Ask ==
  /\ \E c \in Controls : asked' = asked \union {c}
  /\ UNCHANGED <<mode, pos, held, usable>>

\* Controls that are left over between two playbacks may be discarded.
Discard == mode = "stopped" /\ asked' = {} /\ UNCHANGED <<mode, pos, held, usable>>

\* The owner starts over, possibly with new devices.
Prepare ==
  /\ mode = "stopped" /\ held' = {} /\ usable' \in {usable, TRUE}
  /\ UNCHANGED <<mode, pos, asked>>

Play ==
  /\ mode = "stopped" /\ mode' = "playing"
  /\ pos' \in Positions /\ Holds(HeldAt[pos'])
  /\ UNCHANGED asked

Advance ==
  /\ mode = "playing" /\ pos \in 1 .. LastRow
  /\ pos' = pos + 1 /\ Holds(HeldAt[pos'])
  /\ UNCHANGED <<mode, asked>>

\* Devices can be lost in a flush that sends nothing new.
Lose == usable' = FALSE /\ UNCHANGED <<mode, pos, held, asked>>

\* A control is served once, unless it was asked for again meanwhile.
Serve(c) == c \in asked /\ asked' \in {asked, asked \ {c}}

\* Only the anchor of the timeline depends on the speed, and a pause may have
\* been taken back.
Ignore == \E c \in {"pause", "retime"} : Serve(c) /\ UNCHANGED <<mode, pos, held, usable>>

Seek ==
  /\ Serve("seek")
  /\ \/ mode = "playing" /\ pos' \in Positions /\ Holds(HeldAt[pos'])
     \/ mode = "paused" /\ pos' \in Positions /\ UNCHANGED <<held, usable>>
  /\ UNCHANGED mode

Pause ==
  /\ Serve("pause")
  /\ mode = "playing" /\ mode' = "paused"
  /\ pos' \in Positions /\ Holds({})

Resume ==
  /\ Serve("pause")
  /\ mode = "paused" /\ mode' = "playing"
  /\ pos' = pos /\ Holds(HeldAt[pos])

Stop ==
  /\ mode # "stopped" /\ mode' = "stopped"
  /\ Holds({})
  /\ asked' \in SUBSET asked
  /\ UNCHANGED pos

Next ==
  \/ Ask \/ Discard \/ Prepare \/ Play \/ Advance \/ Lose \/ Ignore
  \/ Seek \/ Pause \/ Resume \/ Stop

Spec == Init /\ [][Next]_vars
=============================================================================
