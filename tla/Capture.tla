------------------------------ MODULE Capture ------------------------------
(***************************************************************************)
(* The Live tab: how a press of the left button and of a key reach the     *)
(* phone.  The window system's callbacks (on_key, on_cursor) run between   *)
(* frames; a frame drains what the worker reports as sent and compares the *)
(* pointer with that report, so what it sends depends on an answer that    *)
(* may still be under way.                                                 *)
(*                                                                         *)
(* One button, one key and two places; the pointer stays over the preview, *)
(* and Live control stays on (module LiveInput has its start, its stop and *)
(* the inbox).  The phone takes every input that reaches it.               *)
(***************************************************************************)
EXTENDS Naturals, Sequences, SequencesExt

CONSTANTS
  MaxActs,    \* bound: acts of the user
  MaxUnheard  \* bound: inputs that wait for the worker when a frame adds to them

ASSUME CaptureAssumption == MaxActs \in Nat /\ MaxUnheard \in Nat

Spots == {1, 2}
Tabs == {"live", "player", "other"}

VARIABLES
  hand,       \* what the user holds down, where the pointer is, acts so far
  input_queue,\* ImGui's queue of pointer events
  mouse,      \* io.MouseDown[left], io.MousePos
  tab,        \* tab_
  typing,     \* io.WantTextInput
  pointer,    \* live_.touch ("touch") or live_.mouse ("mouse")
  surface,    \* live_touching_, live_touch_x_/y_, live_buttons_,
              \* live_mouse_captured_, live_swallow_left_, pressed_keys_
  to_phone,   \* live_inbox_
  observing,  \* observing_
  ring,       \* ring_, from ring_tail_ to ring_head_
  phone,      \* what the phone sees held
  seen_by     \* history: see CaptureInit

frameState == <<input_queue, mouse>>
captureVars ==
  <<hand, frameState, tab, typing, pointer, surface, to_phone, observing, ring, phone, seen_by>>

Item(what, down, spot) == [what |-> what, down |-> down, spot |-> spot]

CaptureInit ==
  /\ hand = [left |-> FALSE, key |-> FALSE, spot |-> 1, acts |-> 0]
  /\ input_queue = <<>>
  /\ mouse = [left |-> FALSE, spot |-> 1]
  /\ tab = "live" /\ typing = FALSE
  /\ pointer \in {"touch", "mouse"}
  /\ surface = [touching |-> FALSE, spot |-> 1, button |-> FALSE, captured |-> FALSE,
                swallow |-> FALSE, pressed |-> 0]
  /\ to_phone = <<>> /\ observing = TRUE /\ ring = <<>>
  /\ phone = [touch |-> FALSE, left |-> FALSE, key |-> FALSE]
  \* a key-up was overtaken or swallowed; a capture ended before its press was
  \* reported; an edge went out while nobody observed; nothing has happened since
  \* a frame on the Live tab that had nothing to send.
  /\ seen_by = [lost_up |-> FALSE, slipped |-> FALSE, unheard |-> FALSE, settled |-> FALSE]

-----------------------------------------------------------------------------
(* live_send(): contact positions fold while the inbox waits               *)

FoldsContact(queued, item) ==
  /\ queued # <<>> /\ item.what = "touch" /\ item.down
  /\ Last(queued).what = "touch" /\ Last(queued).down

Queued1(queued, item) ==
  IF FoldsContact(queued, item) THEN Append(Front(queued), item) ELSE Append(queued, item)

Queued(items) ==
  LET after[n \in 0..Len(items)] == IF n = 0 THEN to_phone ELSE Queued1(after[n - 1], items[n])
  IN after[Len(items)]

Sends(items) == to_phone' = Queued(items)

\* live_capture_pointer(false): lets go of the buttons that are reported held.
LetGo(s) == IF s.captured THEN [s EXCEPT !.captured = FALSE, !.button = FALSE] ELSE s

ButtonUps(s) ==
  IF s.captured /\ s.button THEN <<Item("left", FALSE, 0)>> ELSE <<>>

\* The press is on its way to the phone, or its report to the window.
PressUnreported ==
  /\ surface.captured /\ ~surface.button
  /\ \E item \in ToSet(to_phone \o ring) : item.what = "left" /\ item.down

-----------------------------------------------------------------------------
(* The user                                                                *)

Act(change) ==
  /\ hand.acts < MaxActs
  /\ hand' = [change EXCEPT !.acts = @ + 1]

Unsettled(s) == [s EXCEPT !.settled = FALSE]

Click ==
  /\ Act([hand EXCEPT !.left = ~@])
  /\ input_queue' = Append(input_queue, Item("left", hand'.left, 0))
  /\ seen_by' = Unsettled(seen_by)
  /\ UNCHANGED <<mouse, tab, typing, pointer, surface, to_phone, observing, ring, phone>>

\* on_cursor() of a move off the contact's place.
Drags(spot) ==
  surface.touching /\ pointer = "touch" /\ tab = "live" /\ spot # surface.spot

Move ==
  \E spot \in Spots \ {hand.spot} :
    /\ Act([hand EXCEPT !.spot = spot])
    /\ input_queue' = Append(input_queue, Item("at", FALSE, spot))
    /\ IF Drags(spot)
       THEN /\ surface' = [surface EXCEPT !.spot = spot]
            /\ Sends(<<Item("touch", TRUE, spot)>>)
       ELSE UNCHANGED <<surface, to_phone>>
    /\ seen_by' = Unsettled(seen_by)
    /\ UNCHANGED <<mouse, tab, typing, pointer, observing, ring, phone>>

\* Variant: key-ups wait for the Live tab like the presses.
KeyUpOnTheTab ==
  /\ Sends(IF typing \/ tab # "live" THEN <<>> ELSE <<Item("key", FALSE, 0)>>)
  /\ seen_by' = Unsettled([seen_by EXCEPT !.lost_up = typing \/ surface.pressed > 0])

\* on_key() of a release: sent at once, whatever the tab, unless a text field
\* has the keyboard.
KeyUp ==
  /\ Sends(IF typing THEN <<>> ELSE <<Item("key", FALSE, 0)>>)
  /\ seen_by' = Unsettled([seen_by EXCEPT !.lost_up = typing \/ surface.pressed > 0])

\* on_key(): a press waits in pressed_keys_ for the next frame of the Live tab.
Type ==
  /\ Act([hand EXCEPT !.key = ~@])
  /\ IF hand.key
     THEN KeyUp /\ UNCHANGED surface
     ELSE /\ surface' = [surface EXCEPT !.pressed = IF typing \/ tab # "live" THEN @ ELSE @ + 1]
          /\ seen_by' = Unsettled(seen_by)
          /\ UNCHANGED to_phone
  /\ UNCHANGED <<frameState, tab, typing, pointer, observing, ring, phone>>

\* The release key: not forwarded.
ReleaseKey ==
  /\ surface.captured
  /\ Act(hand)
  /\ surface' = LetGo(surface) /\ Sends(ButtonUps(surface))
  /\ seen_by' = Unsettled([seen_by EXCEPT !.slipped = @ \/ PressUnreported])
  /\ UNCHANGED <<frameState, tab, typing, pointer, observing, ring, phone>>

\* on_focus_lost(); the window system then lets go of what is held.
FocusLost ==
  /\ Act([hand EXCEPT !.left = FALSE, !.key = FALSE])
  /\ surface' = LetGo(surface)
  /\ Sends(ButtonUps(surface)
           \o IF hand.key /\ ~typing THEN <<Item("key", FALSE, 0)>> ELSE <<>>)
  /\ input_queue' = IF hand.left THEN Append(input_queue, Item("left", FALSE, 0)) ELSE input_queue
  /\ seen_by' = Unsettled([seen_by EXCEPT
                  !.slipped = @ \/ PressUnreported,
                  !.lost_up = IF hand.key THEN typing \/ surface.pressed > 0 ELSE @])
  /\ UNCHANGED <<mouse, tab, typing, pointer, observing, ring, phone>>

\* A shortcut or a dropped file turns to the Player tab at any time; the other
\* turns are clicks on the navigation rail, which a captured pointer cannot make.
TurnTo(t) ==
  /\ t # tab
  /\ \/ tab = "live" /\ t = "player"
     \/ ~hand.left /\ ~surface.captured /\ input_queue = <<>>
  /\ Act(hand)
  /\ tab' = t /\ typing' = FALSE
  /\ seen_by' = Unsettled(seen_by)
  /\ UNCHANGED <<frameState, pointer, surface, to_phone, observing, ring, phone>>

\* A text field takes the keyboard, or gives it back.
EditText ==
  /\ Act(hand)
  /\ typing' = ~typing
  /\ seen_by' = Unsettled(seen_by)
  /\ UNCHANGED <<frameState, tab, pointer, surface, to_phone, observing, ring, phone>>

-----------------------------------------------------------------------------
(* A frame                                                                 *)

\* ImGui::NewFrame(): moves, then at most one edge; a later event waits.
Taken1(queued) ==
  LET edges == {i \in DOMAIN queued : queued[i].what = "left"}
      stop == CHOOSE i \in edges : \A j \in edges : i <= j
  IN IF edges = {} THEN Len(queued) ELSE stop

Moused(m, e) == IF e.what = "left" THEN [m EXCEPT !.left = e.down] ELSE [m EXCEPT !.spot = e.spot]

NewMouse(queued) ==
  LET after[n \in 0..Len(queued)] == IF n = 0 THEN mouse ELSE Moused(after[n - 1], queued[n])
  IN after[Len(queued)]

\* drain_observed()
Observe(s, item) ==
  CASE item.what = "touch" -> [s EXCEPT !.touching = item.down, !.spot = item.spot]
    [] item.what = "left"  -> [s EXCEPT !.button = item.down]
    [] OTHER               -> s

Drained ==
  LET after[n \in 0..Len(ring)] == IF n = 0 THEN surface ELSE Observe(after[n - 1], ring[n])
  IN after[Len(ring)]

\* live_pointer() in touch mode.
TouchEdge(s, m) ==
  IF m.left # s.touching THEN <<Item("touch", m.left, m.spot)>> ELSE <<>>

\* live_pointer() in mouse mode: a click grabs the pointer, and is not the
\* phone's until it has been let go once.
Grabbed(s, clicked) ==
  IF s.captured \/ ~clicked THEN s ELSE [s EXCEPT !.captured = TRUE, !.swallow = TRUE]

Swallowed(s, m) == [s EXCEPT !.swallow = @ /\ m.left]

ButtonEdge(s, m) ==
  LET down == m.left /\ ~s.swallow
  IN IF s.captured /\ down # s.button THEN <<Item("left", down, 0)>> ELSE <<>>

\* live_keyboard()
KeyPresses(s) == [i \in 1..s.pressed |-> Item("key", TRUE, 0)]

\* A popup, or the reference image, can have the pointer (`blocked`).
Frame(blocked) ==
  LET n == Taken1(input_queue)
      m == NewMouse(SubSeq(input_queue, 1, n))
      clicked == ~mouse.left /\ m.left
      watching == tab # "other"
      drained == IF watching THEN Drained ELSE surface
      grabbed == IF pointer = "mouse" /\ tab = "live" /\ ~blocked
                 THEN Grabbed(drained, clicked) ELSE drained
      s == IF grabbed.captured /\ tab = "live" /\ ~blocked THEN Swallowed(grabbed, m) ELSE grabbed
      keys == IF tab = "live" THEN KeyPresses(drained) ELSE <<>>
      edges == IF tab # "live" \/ blocked THEN <<>>
               ELSE IF pointer = "touch" THEN TouchEdge(drained, m) ELSE ButtonEdge(s, m)
  IN /\ Len(to_phone) < MaxUnheard
     /\ input_queue' = SubSeq(input_queue, n + 1, Len(input_queue))
     /\ mouse' = m
     /\ observing' = watching
     /\ ring' = IF watching THEN <<>> ELSE ring
     /\ surface' = [s EXCEPT !.pressed = IF tab = "live" THEN 0 ELSE @]
     /\ Sends(keys \o edges)
     /\ seen_by' = [seen_by EXCEPT
          !.slipped = @ /\ ~(grabbed.captured /\ ~drained.captured),
          !.settled = tab = "live" /\ ~blocked /\ keys \o edges = <<>> /\ to_phone = <<>>
                      /\ input_queue' = <<>>]
     /\ UNCHANGED <<hand, tab, typing, pointer, phone>>

\* apply_live_one(): the phone has it, and the window hears so.
PumpInput ==
  /\ to_phone # <<>>
  /\ LET item == Head(to_phone) IN
       /\ phone' = CASE item.what = "touch" -> [phone EXCEPT !.touch = item.down]
                     [] item.what = "left"  -> [phone EXCEPT !.left = item.down]
                     [] item.what = "key"   -> [phone EXCEPT !.key = item.down]
       /\ ring' = IF observing THEN Append(ring, item) ELSE ring
       /\ seen_by' = [seen_by EXCEPT !.unheard = @ \/ (~observing /\ item.what # "key")]
  /\ to_phone' = Tail(to_phone)
  /\ UNCHANGED <<hand, frameState, tab, typing, pointer, surface, observing>>

UserActs ==
  Click \/ Move \/ Type \/ ReleaseKey \/ FocusLost \/ EditText \/ (\E t \in Tabs : TurnTo(t))

CaptureNext == UserActs \/ (\E blocked \in BOOLEAN : Frame(blocked)) \/ PumpInput

CaptureSpec == CaptureInit /\ [][CaptureNext]_captureVars

-----------------------------------------------------------------------------
(* Properties                                                              *)

\* Once a frame of the Live tab has nothing more to send, the phone holds what
\* the user holds: the contact in touch mode, and the button while the pointer
\* is captured; nothing else stays down, except a key whose key-up was
\* overtaken or swallowed and a button whose capture ended under its press; as
\* long as no edge went out while another tab was shown.
PhoneFollowsTheHand ==
  seen_by.settled /\ ~seen_by.unheard =>
    /\ phone.touch = (hand.left /\ pointer = "touch")
    /\ surface.captured => phone.left = (hand.left /\ ~surface.swallow)
    /\ ~surface.captured => ~phone.left \/ seen_by.slipped
    /\ phone.key => hand.key \/ seen_by.lost_up

=============================================================================
