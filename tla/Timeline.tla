------------------------------- MODULE Timeline -------------------------------
(***************************************************************************)
(* The clock of aoap::Player: which row of which lap goes out at which     *)
(* time, through speed changes, an offset, seeks, pauses and lap ends.     *)
(* The script is the one ScriptReader read.  Module Player has the threads *)
(* and requests behind the controls; here a control is served as soon as   *)
(* it is posted, and the thread may be late for every row.                 *)
(***************************************************************************)
EXTENDS ScriptReader

CONSTANTS
  Speeds,       \* playback speeds
  Offsets,      \* what the offset can be set to
  MaxTime,      \* bound: the clock
  MaxControls,  \* bound: controls in a behaviour, for each alphabet
  LoopLimit     \* set_loop_limit()

ASSUME TimelineAssumption ==
  /\ MaxTime \in Nat /\ Speeds \subseteq Nat \ {0} /\ Offsets \subseteq Int
  /\ MaxLap > 1 /\ LoopLimit \in 0..(MaxLap \div 2)

\* scaled() rounds to whole nanoseconds; here every wait is a multiple of every speed.
ASSUME ScaledAssumption ==
  \A a \in DOMAIN Alphabets : \A line \in Alphabets[a] :
    line.kind \in {"row", "wait"} /\ line.wait # Malformed =>
      \A speed \in Speeds : line.wait % speed = 0

VARIABLES
  mode,           \* "loading", "playing", "paused" or "stopped"
  walk,           \* walk_
  cursor,         \* cursor_
  now,            \* Timing::now_ns()
  anchor,         \* anchor_real_, anchor_script_, offset_anchor_, anchor_speed_
  offset,         \* offset_ns_
  pause_position, \* pause_position_
  loops,          \* loops_
  live,           \* live_: what the script holds
  base,           \* history: the last seek, resume, start or retime, and where in
                  \* the lap playback began
  sent,           \* history: the rows sent on this lap since then
  controls        \* controls so far

playVars == <<mode, walk, cursor, now, anchor, offset, pause_position, loops, live,
              base, sent, controls>>
vars == <<readerVars, playVars>>

\* Position, in laps and time within one.
Position(lap, time) == [lap |-> lap, time |-> time]

Scaled(span, speed) == span \div speed

DeadlineFor(time) ==
  anchor.real + Scaled(time - anchor.script, anchor.speed) + offset - anchor.offset

\* script_time_at() for the present moment.
TimeNow == anchor.script + (now - anchor.real - offset + anchor.offset) * anchor.speed

Clamp(position) ==
  LET lap == Min({Max({position.lap, 1}), MaxLap \div 2})
  IN Position(lap, Min({Max({position.time, 0}), LapLength(Script, lap)}))

TimelineInit ==
  /\ mode = "loading" /\ walk = [done |-> TRUE] /\ cursor = 0 /\ now = 0
  /\ anchor = [real |-> 0, script |-> 0, offset |-> 0, speed |-> 1] /\ offset = 0
  /\ pause_position = Position(1, 0) /\ loops = 0 /\ live = AllNeutral
  /\ base = [real |-> 0, script |-> 0, laps |-> 0, from |-> 0] /\ sent = {} /\ controls = 0

-----------------------------------------------------------------------------
(* The playback thread                                                     *)

\* jump()
Jump(position, speed) ==
  LET target == Clamp(position)
      there  == SeekTo(Script, target.lap, target.time)
  IN /\ walk' = there /\ loops' = target.lap - 1
     /\ live' = StateAt(Script, target.lap, there.row)
     /\ cursor' = target.time
     /\ anchor' = [real |-> now, script |-> target.time, offset |-> offset, speed |-> speed]
     /\ base' = [real |-> now - offset, script |-> target.time, laps |-> 0,
                 from |-> target.time]
     /\ sent' = {}

\* Nothing of the playback changes but the clock.
Tick ==
  /\ mode \in {"playing", "paused"} /\ now < MaxTime
  /\ now' = now + 1
  /\ UNCHANGED <<mode, walk, cursor, anchor, offset, pause_position, loops, live, base, sent,
                 controls>>

Play(start) ==
  /\ mode = "loading" /\ Accepted
  /\ mode' = "playing" /\ Jump(start, anchor.speed)
  /\ UNCHANGED <<now, offset, pause_position, controls>>

\* wait_to(): a row that is due already, or was when the one before it went out.
Due == mode = "playing" /\ (walk.due <= cursor \/ now >= DeadlineFor(walk.due))

Row ==
  /\ Due /\ ~walk.done
  /\ live' = Apply(live, Script.rows[walk.row].payload)
  /\ walk' = Walk(Script, walk)
  /\ cursor' = Max({cursor, walk.due})
  /\ sent' = sent \union {walk.row}
  /\ UNCHANGED <<mode, now, anchor, offset, pause_position, loops, base, controls>>

\* Variant: the next lap starts when this one was finished.
FinishLapLate ==
  LET ended == walk.lap
      next  == NextLap(Script, ended + 1, FALSE)
  IN /\ Due /\ walk.done
     /\ NextLap(Script, ended + 1, TRUE) # 0 /\ next <= LoopLimit
     /\ anchor' = [anchor EXCEPT !.real = now, !.script = 0]
     /\ base' = [base EXCEPT !.laps = @ + walk.length, !.from = 0]
     /\ loops' = next - 1 /\ walk' = Start(Script, next) /\ cursor' = 0 /\ sent' = {}
     /\ UNCHANGED <<mode, now, offset, pause_position, live, controls>>

\* finish_lap(), when there is a next one: it starts exactly where this one ends.
FinishLap ==
  LET ended == walk.lap
      next  == NextLap(Script, ended + 1, FALSE)
  IN /\ Due /\ walk.done
     /\ NextLap(Script, ended + 1, TRUE) # 0 /\ next <= LoopLimit
     /\ anchor' = [anchor EXCEPT !.real = @ + Scaled(walk.length - anchor.script, anchor.speed),
                                 !.script = 0]
     /\ base' = [base EXCEPT !.laps = @ + walk.length, !.from = 0]
     /\ loops' = next - 1 /\ walk' = Start(Script, next) /\ cursor' = 0 /\ sent' = {}
     /\ UNCHANGED <<mode, now, offset, pause_position, live, controls>>

\* finish_lap(), at the script's end or the loop limit; then the end of run().
FinishScript ==
  LET next == NextLap(Script, walk.lap + 1, FALSE)
      over == NextLap(Script, walk.lap + 1, TRUE) = 0
  IN /\ Due /\ walk.done /\ (over \/ next > LoopLimit)
     /\ loops' = IF over THEN walk.lap ELSE Max({walk.lap, LoopLimit})
     /\ mode' = "stopped" /\ live' = AllNeutral
     /\ UNCHANGED <<walk, cursor, now, anchor, offset, pause_position, base, sent, controls>>

-----------------------------------------------------------------------------
(* The controls                                                            *)

Control ==
  /\ controls < MaxControls[alphabet] /\ controls' = controls + 1

\* set_speed() and retime(): from here on, without a jump.
SetSpeed(speed) ==
  /\ Control /\ mode = "playing" /\ speed # anchor.speed
  /\ anchor' = [real |-> now, script |-> TimeNow, offset |-> offset, speed |-> speed]
  /\ base' = [base EXCEPT !.real = now - offset, !.script = TimeNow, !.laps = 0]
  /\ UNCHANGED <<mode, walk, cursor, now, offset, pause_position, loops, live, sent>>

\* set_offset_ns() moves every row to come.
SetOffset(value) ==
  /\ Control /\ mode \in {"playing", "paused"} /\ offset # value
  /\ offset' = value
  /\ UNCHANGED <<mode, walk, cursor, now, anchor, pause_position, loops, live, base, sent>>

Seek(position) ==
  /\ Control
  /\ \/ mode = "playing" /\ Jump(position, anchor.speed)
        /\ UNCHANGED pause_position
     \/ /\ mode = "paused" /\ pause_position' = Clamp(position)
        /\ loops' = pause_position'.lap - 1
        /\ UNCHANGED <<walk, cursor, anchor, live, base, sent>>
  /\ UNCHANGED <<mode, now, offset>>

\* service() and hold_paused(): the position is the clock's, not the row's.
Pause ==
  /\ Control /\ mode = "playing"
  /\ mode' = "paused" /\ live' = AllNeutral
  /\ pause_position' = Clamp(Position(walk.lap, TimeNow))
  /\ UNCHANGED <<walk, cursor, now, anchor, offset, loops, base, sent>>

Resume ==
  /\ mode = "paused" /\ mode' = "playing"
  /\ Jump(pause_position, anchor.speed)
  /\ UNCHANGED <<now, offset, pause_position, controls>>

-----------------------------------------------------------------------------

Positions == {Position(1, 3), Position(2, 0), Position(MaxLap, 1)}

Init == ReaderInit /\ TimelineInit

Playback ==
  \/ Play(Position(1, 0)) \/ Tick \/ Row \/ FinishLap \/ FinishScript \/ Pause \/ Resume
  \/ \E speed \in Speeds : SetSpeed(speed)
  \/ \E value \in Offsets : SetOffset(value)
  \/ \E position \in Positions : Seek(position)

Next ==
  \/ ReaderNext /\ UNCHANGED playVars
  \/ Playback /\ UNCHANGED readerVars

Spec == Init /\ [][Next]_vars

-----------------------------------------------------------------------------
(* Properties                                                              *)

\* LapSelector's arithmetic agrees with a search over all laps, up to the
\* largest: a seek finds the last run of each block, a lap end the next one.
LapSearchIsExact ==
  Accepted =>
    \A s \in Range(reader.segments) : \A lap \in 1..MaxLap :
      /\ LastRunBefore(s.when, lap) =
           LET S == {l \in 1..(lap - 1) : RunsOn(s.when, l)} IN IF S = {} THEN 0 ELSE Max(S)
      /\ NextRunFrom(s.when, lap) = Least({l \in lap..MaxLap : RunsOn(s.when, l)})

\* The controls the script holds are the ones state_at() gives for this place,
\* after any seeks and pauses, and on every lap: what a seek restores is what
\* playing on would have left.
HeldMatchesStateAt ==
  mode = "playing" => live = StateAt(Script, walk.lap, walk.row)

\* The waits that pass on a lap: those that run on it, and those of keep-time blocks.
WaitsOn(lap) ==
  [i \in DOMAIN lines |->
     IF i \in Kinds({"row", "wait"}) /\ (WhenOf(i).keep_time \/ RunsOn(WhenOf(i), lap))
     THEN lines[i].wait ELSE 0]

\* When on a lap a line is due, by what is written above it.
DueOn(lap, line) == SumOver(WaitsOn(lap), 1, line - 1)

\* Laps do not drift: however late each row went out, and whatever was changed on
\* the way, the next one is due after all the waits written above it that run on
\* its lap, and those of the keep-time blocks that do not, counted from the last
\* seek, speed change or resume.
LapsDoNotDrift ==
  mode \in {"playing", "paused"} =>
    LET due == DueOn(walk.lap, IF walk.done THEN Len(lines) + 1 ELSE LineOf(walk.row))
    IN /\ walk.due = due
       /\ mode = "playing" =>
            DeadlineFor(walk.due) =
              base.real + Scaled(base.laps + due - base.script, anchor.speed) + offset

\* Playback leaves a lap, or ends, when all the lap's rows that are due from where it was
\* entered on were sent; and it passes over no lap that has a row, nor, unless it ends, over
\* one that takes time.
LapsAreComplete ==
  [][walk.done /\ mode = "playing" /\ controls' = controls /\ (walk' # walk \/ mode' = "stopped") =>
       LET ends == mode' = "stopped"
           Passed == (walk.lap + 1)..(IF ends THEN LoopLimit ELSE walk'.lap - 1)
       IN /\ \A row \in DOMAIN reader.rows \ sent :
               RunsOn(WhenOf(LineOf(row)), walk.lap) => DueOn(walk.lap, LineOf(row)) < base.from
          /\ \A lap \in Passed :
               /\ \A i \in Kinds({"row"}) : ~RunsOn(WhenOf(i), lap)
               /\ ends \/ LapLength(Script, lap) = 0]_vars
=============================================================================
