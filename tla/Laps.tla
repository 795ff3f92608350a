--------------------------------- MODULE Laps ---------------------------------
(***************************************************************************)
(* Which rows of a script run on which lap: LapSelector, Segment, LapWalk  *)
(* and state_at() of aoap.  Nothing here walks over laps: the code answers *)
(* for any lap by arithmetic, and so do these definitions.  Laps are       *)
(* 64-bit numbers; the largest, MaxLap, is small here, so that the code's  *)
(* precautions at UINT64_MAX matter on small instances.                    *)
(*                                                                         *)
(* A script is [rows, segments]; a row is [payload, wait]; a segment has   *)
(* the rows begin .. end - 1.  Both are numbered from 1.                   *)
(***************************************************************************)
EXTENDS InputState, SequencesExt

CONSTANT MaxLap   \* UINT64_MAX

ASSUME LapsAssumption == MaxLap \in Nat \ {0}

\* A LapSelector.
Laps(first, last, every, keep_time) ==
  [first |-> first, last |-> last, every |-> every, keep_time |-> keep_time, negate |-> FALSE]

Always == Laps(1, MaxLap, 1, FALSE)

Least(S) == IF S = {} THEN 0 ELSE Min(S)

Matches(when, lap) ==
  lap >= when.first /\ lap <= when.last /\ (lap - when.first) % when.every = 0

RunsOn(when, lap) == lap >= 1 /\ Matches(when, lap) # when.negate

LastRunBefore(when, lap) ==
  LET top == lap - 1
      capped == Min({top, when.last})
  IN IF lap <= 1 THEN 0
     ELSE IF ~when.negate
          THEN IF top < when.first THEN 0
               ELSE capped - ((capped - when.first) % when.every)
          ELSE IF ~Matches(when, top) THEN top
               ELSE IF when.every > 1 THEN top - 1 ELSE when.first - 1

\* Variant: with a step of 1, only the lap itself is passed over.
NextRunFromOne(when, from) ==
  LET lap == Max({from, 1})
  IN IF when.negate
     THEN IF ~Matches(when, lap) THEN lap ELSE IF lap = MaxLap THEN 0 ELSE lap + 1
     ELSE Least({l \in lap..MaxLap : RunsOn(when, l)})

NextRunFrom(when, from) ==
  LET lap  == Max({from, 1})
      past == (lap - when.first) % when.every
      edge == IF when.every > 1 THEN lap ELSE when.last
  IN IF ~when.negate
     THEN IF lap > when.last THEN 0
          ELSE IF lap <= when.first THEN when.first
          ELSE IF past = 0 THEN lap
          ELSE IF when.every - past > when.last - lap THEN 0 ELSE lap + when.every - past
     ELSE IF ~Matches(when, lap) THEN lap
          ELSE IF edge = MaxLap THEN 0 ELSE edge + 1

-----------------------------------------------------------------------------
(* One lap of a script                                                     *)

HasRows(segment) == segment.begin # segment.end

\* f[first] + .. + f[last].
SumOver(f, first, last) ==
  LET sum[n \in 0..last] == IF n < first THEN 0 ELSE sum[n - 1] + f[n]
  IN sum[last]

\* The time a segment takes on a lap.
TimeOn(segment, lap) ==
  IF segment.when.keep_time \/ RunsOn(segment.when, lap) THEN segment.duration ELSE 0

TimesOn(script, lap) == [i \in DOMAIN script.segments |-> TimeOn(script.segments[i], lap)]

LapLength(script, lap) == SumOver(TimesOn(script, lap), 1, Len(script.segments))

\* Variant: the laps that only wait for a keep-time block are forgotten.
NextLapRuns(script, from, rows_only) ==
  Least({NextRunFrom(script.segments[i].when, from) : i \in
           {j \in DOMAIN script.segments : HasRows(script.segments[j]) \/ ~rows_only}} \ {0})

\* The earliest lap from a given one with a row, or with a row or a wait.
NextLap(script, from, rows_only) ==
  LET candidates == UNION {
        LET s == script.segments[i]
            takes_time == ~rows_only /\ s.duration > 0
        IN {NextRunFrom(w, from) : w \in
              (IF HasRows(s) \/ takes_time THEN {s.when} ELSE {})
                \union (IF takes_time /\ s.when.keep_time
                        THEN {[s.when EXCEPT !.negate = ~@]} ELSE {})}
          : i \in DOMAIN script.segments}
  IN Least(candidates \ {0})

\* LapWalk::settle(): on to the next segment with a row on this lap.
Settle(script, walk) ==
  LET segments == script.segments
      Ahead == {i \in walk.segment..Len(segments) :
                  HasRows(segments[i]) /\ RunsOn(segments[i].when, walk.lap)}
      found == IF Ahead = {} THEN Len(segments) + 1 ELSE Min(Ahead)
      past  == walk.time + SumOver(TimesOn(script, walk.lap), walk.segment, found - 1)
  IN IF Ahead = {}
     THEN [walk EXCEPT !.segment = found, !.time = past, !.row = Len(script.rows) + 1,
                       !.due = walk.length, !.done = TRUE]
     ELSE LET begins == past + segments[found].lead
          IN [walk EXCEPT !.segment = found, !.time = begins, !.due = begins,
                          !.row = segments[found].begin]

Start(script, lap) ==
  Settle(script, [lap |-> lap, length |-> LapLength(script, lap), segment |-> 1, time |-> 0,
                  row |-> 1, due |-> 0, done |-> FALSE])

\* LapWalk::next()
Walk(script, walk) ==
  LET after == walk.time + script.rows[walk.row].wait
  IN IF walk.row + 1 = script.segments[walk.segment].end
     THEN Settle(script, [walk EXCEPT !.time = after, !.segment = @ + 1])
     ELSE [walk EXCEPT !.time = after, !.row = @ + 1, !.due = after]

\* LapWalk::seek(): the first row that starts at or after a time.
SeekTo(script, lap, time) ==
  LET walk[n \in 0..Len(script.rows)] ==
        IF n = 0 THEN Start(script, lap)
        ELSE LET before == walk[n - 1]
             IN IF before.done \/ before.due >= time THEN before ELSE Walk(script, before)
  IN walk[Len(script.rows)]

-----------------------------------------------------------------------------
(* state_at()                                                              *)

\* The rows from begin up to end, one after the other.
ApplyRows(state, rows, begin, end) ==
  LET after[n \in 0 .. end - 1] ==
        IF n < begin THEN state ELSE Apply(after[n - 1], rows[n].payload)
  IN after[end - 1]

\* Whole segments, one after the other.
ApplySegments(script, order) ==
  LET after[n \in 0..Len(order)] ==
        IF n = 0 THEN AllNeutral
        ELSE LET s == script.segments[order[n]]
             IN ApplyRows(after[n - 1], script.rows, s.begin, s.end)
  IN after[Len(order)]

\* Variant: the earlier laps' segments are taken in file order.
InFileOrder(script, lap) ==
  SelectSeq([i \in DOMAIN script.segments |-> i],
            LAMBDA i : LastRunBefore(script.segments[i].when, lap) # 0)

\* The segments that ran before a lap, by their last runs there, the oldest first.
OldestFirst(script, lap) ==
  LET Latest(i) == LastRunBefore(script.segments[i].when, lap)
      Ran == {i \in DOMAIN script.segments : Latest(i) # 0}
      Before(i, j) == Latest(i) < Latest(j) \/ (Latest(i) = Latest(j) /\ i < j)
      Place(i) == Cardinality({j \in Ran : Before(j, i)}) + 1
  IN [n \in 1..Cardinality(Ran) |-> CHOOSE i \in Ran : Place(i) = n]

RowRuns(script, row, lap) ==
  \E i \in DOMAIN script.segments :
    /\ row \in script.segments[i].begin..(script.segments[i].end - 1)
    /\ RunsOn(script.segments[i].when, lap)

\* What the earlier laps left, each segment's last run, oldest first; then this
\* lap up to the row.
StateAt(script, lap, row) ==
  LET after[n \in 0 .. row - 1] ==
        IF n = 0 THEN ApplySegments(script, OldestFirst(script, lap))
        ELSE IF RowRuns(script, n, lap) THEN Apply(after[n - 1], script.rows[n].payload)
        ELSE after[n - 1]
  IN after[row - 1]
=============================================================================
