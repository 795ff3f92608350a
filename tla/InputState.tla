------------------------------ MODULE InputState ------------------------------
(***************************************************************************)
(* aoap::InputState: what is held on the controls of a device.  Contacts,  *)
(* keys, buttons, axes, the D-pad and the two styluses follow one pattern: *)
(* a payload gives a control a value, and Neutral lets go of it or centres *)
(* it.  A state is the set of payloads that hold, one per control at most. *)
(* A mouse move and the wheel are relative and leave nothing behind.       *)
(***************************************************************************)
EXTENDS Naturals

CONSTANTS Controls   \* the controls that hold a value

Neutral == 0

Set(c, v) == [control |-> c, value |-> v]

AllNeutral == {}

IsNeutral(state) == state = {}

\* The value of a control.
Holds(state, c) == \E p \in state : p.control = c

ValueOf(state, c) == IF Holds(state, c) THEN (CHOOSE p \in state : p.control = c).value ELSE Neutral

Others(state, c) == {p \in state : p.control # c}

Apply(state, payload) ==
  Others(state, payload.control)
    \union {p \in {payload} : p.control \in Controls /\ p.value # Neutral}

\* transition(): what brings one state to another, the releases apart.
Releases(from, to) == {Set(p.control, Neutral) : p \in {q \in from : ~Holds(to, q.control)}}

Presses(from, to) == to \ from
=============================================================================
