-------------------------------- MODULE Getevent --------------------------------
(***************************************************************************)
(* aoap::record::GeteventParser: lines of `adb shell getevent -lt` become  *)
(* rows of a script.  The phone's touch panel speaks the multi-touch       *)
(* protocol B: a line names a slot, starts or ends the contact in it or    *)
(* moves it, only what has changed is said, and SYN_REPORT ends a frame.   *)
(* A keyboard is a second input device with frames of its own.             *)
(*                                                                         *)
(* A control is a finger (a slot) or a key; a place stands for both axes.  *)
(***************************************************************************)
EXTENDS InputState, FiniteSetsExt, Sequences

CONSTANTS
  max_slots,    \* slots the parser tracks: 0 .. max_slots - 1
  PanelSlots,   \* slots the panel has
  Places,       \* places of the panel
  Keys,         \* keys with a HID usage; Controls is the tracked slots and these
  Filtered,     \* set_device_filter() names the panel
  MaxFrames,    \* bound: frames in a behaviour
  MaxClock      \* bound: the phone's clock

ASSUME GeteventAssumption ==
  /\ max_slots \in Nat /\ Places \subseteq Nat \ {0}
  /\ PanelSlots \subseteq Nat /\ 0 .. max_slots - 1 \subseteq PanelSlots
  /\ Controls = (0 .. max_slots - 1) \union Keys /\ (0 .. max_slots - 1) \intersect Keys = {}
  /\ Filtered \in BOOLEAN /\ MaxFrames \in Nat /\ MaxClock \in Nat

VARIABLES
  panel,     \* the kernel's slots: [down, at], and the slot it spoke of last
  unread,    \* what getevent has printed and the parser has not read
  clock,     \* the timestamp of the next lines
  parser,    \* the parser's own state
  out,       \* history: what the rows put out so far leave held
  waited,    \* history: the waits put out so far
  truth,     \* history: what is held on the phone, as of the lines read so far
  heard,     \* history: what has been told of each slot, as of the lines and of the last frame
  begun,     \* history: the time of the first frame with a row
  frames

geteventVars == <<panel, unread, clock, parser, out, waited, truth, heard, begun, frames>>

Tracked == 0 .. max_slots - 1

\* GeteventParser::Slot.
Resting == [at |-> 0, active |-> FALSE, changed |-> FALSE, lifting |-> FALSE, placed |-> FALSE]

NewParser ==
  [slot |-> 0, slots |-> [s \in Tracked |-> Resting],  \* DeviceState of the panel
   frame |-> <<>>,                                     \* frame_rows_
   pending |-> <<>>, since |-> 0]                      \* pending_, pending_time_ns_

\* The panel may hold contacts when the recording starts, and may have spoken of any
\* slot last: nothing of that is said again.
GeteventInit ==
  /\ panel \in [slots : [PanelSlots -> [down : BOOLEAN, at : Places]], slot : PanelSlots]
  /\ unread = <<>> /\ clock = 1 /\ parser = NewParser
  /\ out = AllNeutral /\ waited = 0 /\ truth = AllNeutral /\ begun = 0
  /\ heard = [lines |-> {}, frame |-> {}]
  /\ frames = 0

-----------------------------------------------------------------------------
(* The phone                                                               *)

Line(kind, value, more) == [kind |-> kind, value |-> value, more |-> more, time |-> clock]

\* A contact comes, moves, goes, or is replaced by another one.
Changes(slot) ==
  {c \in [id : {"none", "new", "end"}, at : Places] :
     /\ c.id = "none" => slot.down /\ c.at # slot.at
     /\ c.id = "end" => slot.down /\ c.at = slot.at}

\* The lines of one slot: those that differ from what was said last.
Said(s, slot, change, current) ==
  (IF s = current THEN <<>> ELSE <<Line("slot", s, 0)>>)
    \o (IF change.id = "none" THEN <<>> ELSE <<Line(change.id, s, 0)>>)
    \o (IF change.at = slot.at THEN <<>> ELSE <<Line("place", s, change.at)>>)

\* A frame of the panel changes one slot or two.
PanelFrame(first, second) ==
  /\ frames < MaxFrames /\ unread = <<>> /\ frames' = frames + 1
  /\ \E change \in Changes(panel.slots[first]), other \in Changes(panel.slots[second]) :
       LET chosen == IF first = second THEN {first} ELSE {first, second}
           new    == [s \in chosen |-> IF s = first THEN change ELSE other]
       IN /\ first <= second
          /\ panel' = [slots |-> [s \in PanelSlots |->
                                    IF s \in chosen
                                    THEN [down |-> new[s].id # "end", at |-> new[s].at]
                                    ELSE panel.slots[s]],
                       slot  |-> second]
          /\ unread' = Said(first, panel.slots[first], change, panel.slot)
                        \o (IF first = second THEN <<>>
                            ELSE Said(second, panel.slots[second], other, first))
                        \o <<Line("syn", 0, 0)>>
  /\ UNCHANGED <<clock, parser, out, waited, truth, heard, begun>>

\* A frame of the keyboard may come between two lines of the panel.
KeyFrame(key, value) ==
  /\ frames < MaxFrames /\ frames' = frames + 1
  /\ ValueOf(truth, key) # value /\ \A n \in DOMAIN unread : unread[n].kind # "key"
  /\ unread' = <<Line("key", key, value), Line("keysyn", 0, 0)>> \o unread
  /\ UNCHANGED <<panel, clock, parser, out, waited, truth, heard, begun>>

PhoneTick ==
  /\ clock < MaxClock /\ unread = <<>> /\ clock' = clock + 1
  /\ UNCHANGED <<panel, unread, parser, out, waited, truth, heard, begun, frames>>

-----------------------------------------------------------------------------
(* The parser                                                              *)

\* The row of a slot that has changed, when the frame closes.
RowOf(s, slot) ==
  IF slot.lifting THEN IF slot.placed THEN <<Set(s, Neutral)>> ELSE <<>>
  ELSE IF slot.active THEN <<Set(s, slot.at)>> ELSE <<>>

Closed(slot) ==
  IF ~slot.changed THEN slot
  ELSE IF slot.lifting
  THEN [slot EXCEPT !.changed = FALSE, !.lifting = FALSE, !.active = FALSE, !.placed = FALSE]
  ELSE [slot EXCEPT !.changed = FALSE, !.placed = @ \/ slot.active]

\* The rows of the slots that have changed, in the order of the slots.
SlotRows(slots) ==
  LET upto[n \in 0 .. max_slots] ==
        IF n = 0 THEN <<>>
        ELSE upto[n - 1] \o (IF slots[n - 1].changed THEN RowOf(n - 1, slots[n - 1]) ELSE <<>>)
  IN upto[max_slots]

\* close_frame() and release_pending(): the frame before goes out, with the wait
\* that is known now.
CloseFrame(p, slots, rows, time) ==
  LET frame == p.frame \o rows
  IN IF frame = <<>> THEN [parser |-> [p EXCEPT !.slots = slots], rows |-> <<>>, wait |-> 0]
     ELSE [parser |-> [p EXCEPT !.slots = slots, !.frame = <<>>, !.pending = frame,
                                !.since = time],
           rows   |-> p.pending,
           wait   |-> IF p.pending = <<>> THEN 0 ELSE time - p.since]

Quietly(p) == [parser |-> p, rows |-> <<>>, wait |-> 0]

ClosePanelFrame(p, line) ==
  CloseFrame(p, [s \in Tracked |-> Closed(p.slots[s])], SlotRows(p.slots), line.time)

\* An event of the selected slot; one that is not tracked selects none.
InSlot(p, changed) ==
  IF p.slot \notin Tracked THEN Quietly(p) ELSE Quietly([p EXCEPT !.slots[p.slot] = changed])

Selected(p) == p.slots[p.slot]

StartContact(slot) ==
  IF slot.active THEN slot
  ELSE [slot EXCEPT !.active = TRUE, !.lifting = FALSE, !.changed = TRUE]

EndContact(slot) ==
  IF slot.active THEN [slot EXCEPT !.lifting = TRUE, !.changed = TRUE] ELSE slot

Place(slot, at) == [slot EXCEPT !.at = at, !.changed = @ \/ slot.active]

\* Variant: a slot beyond the tracked ones leaves the selection as it was.
FeedKeepsSlot(p, line) ==
  CASE line.kind = "slot"   -> Quietly(IF line.value \in Tracked THEN [p EXCEPT !.slot = line.value] ELSE p)
    [] line.kind = "new"    -> InSlot(p, StartContact(Selected(p)))
    [] line.kind = "end"    -> InSlot(p, EndContact(Selected(p)))
    [] line.kind = "place"  -> InSlot(p, Place(Selected(p), line.more))
    [] line.kind = "syn"    -> ClosePanelFrame(p, line)
    [] line.kind = "key"    -> Quietly(IF Filtered THEN p ELSE [p EXCEPT !.frame = Append(@, Set(line.value, line.more))])
    [] line.kind = "keysyn" -> IF Filtered THEN Quietly(p) ELSE CloseFrame(p, p.slots, <<>>, line.time)

\* feed(): lines of a device that is filtered out are not looked at.
Feed(p, line) ==
  CASE line.kind = "slot"   -> Quietly([p EXCEPT !.slot = Min({line.value, max_slots})])
    [] line.kind = "new"    -> InSlot(p, StartContact(Selected(p)))
    [] line.kind = "end"    -> InSlot(p, EndContact(Selected(p)))
    [] line.kind = "place"  -> InSlot(p, Place(Selected(p), line.more))
    [] line.kind = "syn"    -> ClosePanelFrame(p, line)
    [] line.kind = "key"    -> Quietly(IF Filtered THEN p ELSE [p EXCEPT !.frame = Append(@, Set(line.value, line.more))])
    [] line.kind = "keysyn" -> IF Filtered THEN Quietly(p) ELSE CloseFrame(p, p.slots, <<>>, line.time)

\* What a state becomes when rows are played.
Played(state, rows) ==
  LET after[n \in 0 .. Len(rows)] == IF n = 0 THEN state ELSE Apply(after[n - 1], rows[n])
  IN after[Len(rows)]

\* What the lines say of the phone itself.
Heard(line) ==
  /\ truth' = IF line.kind = "key" /\ ~Filtered THEN Apply(truth, Set(line.value, line.more))
              ELSE IF line.kind = "syn"
              THEN {p \in truth : p.control \in Keys}
                     \union {Set(s, panel.slots[s].at) : s \in {t \in Tracked : panel.slots[t].down}}
              ELSE truth
  /\ heard' = IF line.kind = "syn" THEN [heard EXCEPT !.frame = heard.lines]
              ELSE IF line.kind \in {"new", "end", "place"} /\ parser.slot = line.value
              THEN [heard EXCEPT !.lines = @ \union {<<line.value, line.kind = "place">>}]
              ELSE heard

FeedLine ==
  /\ unread # <<>>
  /\ LET fed == Feed(parser, Head(unread))
     IN /\ parser' = fed.parser
        /\ out' = Played(out, fed.rows) /\ waited' = waited + fed.wait
        /\ begun' = IF begun = 0 THEN fed.parser.since ELSE begun
  /\ Heard(Head(unread))
  /\ unread' = Tail(unread)
  /\ UNCHANGED <<panel, clock, frames>>

\* finish(): what is held back goes out, the unfinished frame too.
FinishParser ==
  /\ parser.pending \o parser.frame # <<>>
  /\ out' = Played(out, parser.pending \o parser.frame)
  /\ parser' = [parser EXCEPT !.pending = <<>>, !.frame = <<>>]
  /\ frames' = MaxFrames /\ unread' = <<>>
  /\ UNCHANGED <<panel, clock, waited, truth, heard, begun>>

GeteventNext ==
  \/ \E first, second \in PanelSlots : PanelFrame(first, second)
  \/ \E key \in Keys, value \in {Neutral, 1} : KeyFrame(key, value)
  \/ PhoneTick \/ FeedLine \/ FinishParser

GeteventSpec == GeteventInit /\ [][GeteventNext]_geteventVars

-----------------------------------------------------------------------------

\* The slots the lines told all about: their contact and their place.
Known == {s \in Tracked : {s} \X BOOLEAN \subseteq heard.frame}

\* The rows put out and those held back, played one after the other, hold what the
\* panel held at its last frame, for every finger the lines told all about, and
\* what the keys hold; and the waits put out are the time that passed between the
\* first frame and the one held back, however frames of two devices interleave.
RowsFollowThePanel ==
  /\ \A c \in Known \union Keys :
       ValueOf(Played(out, parser.pending \o parser.frame), c) = ValueOf(truth, c)
  /\ begun + waited = parser.since
=============================================================================
