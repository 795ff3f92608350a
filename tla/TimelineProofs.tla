---------------------------- MODULE TimelineProofs ----------------------------
(***************************************************************************)
(* The playback of a script, for any script that load() takes, any speeds, *)
(* offsets, lap limits and controls, and however late the thread is: rows  *)
(* do not drift from what is written, laps are played to their ends and    *)
(* none that matters is passed over, and what a seek restores is what      *)
(* playing on would have left.                                             *)
(*                                                                         *)
(* PlayInv is the invariant: what is known of the script that was read     *)
(* (TimedInv of ScriptProofs), where the walk is in it, which rows were    *)
(* sent, and what the clock counts from.                                   *)
(***************************************************************************)
EXTENDS ScriptProofs

-----------------------------------------------------------------------------
(* A walk over a lap                                                       *)

\* What the walks need to know of a script.
Good(script) ==
  /\ IsSegments(script.segments) /\ script.rows \in Seq(RowType)
  /\ Follow(script.segments) /\ Bounded(script.segments, script.rows)
  /\ TimesTyped(script.segments) /\ Full(script.segments, script.rows)

\* What LapWalk keeps.
WalkFields == {"lap", "length", "segment", "time", "row", "due", "done"}

\* A walk, of which only the fields are known.
IsWalk(w) == w \in [WalkFields -> Nat \union BOOLEAN]

\* A walk between two segments.
Settling(script, lap, w) ==
  /\ IsWalk(w) /\ w.lap = lap /\ w.length = LapLength(script, lap) /\ w.done = FALSE
  /\ w.segment \in 1..(Len(script.segments) + 1)
  /\ w.time = Total(script.segments, lap, w.segment - 1)

\* A walk at a row that runs, when it is due, or at the lap's end.
AtRow(script, lap, w) ==
  /\ w.done = FALSE /\ w.segment \in 1..Len(script.segments)
  /\ RunsOn(script.segments[w.segment].when, lap)
  /\ w.row \in Nat /\ InSegment(script.segments, w.segment, w.row)
  /\ w.time = w.due /\ w.due = Begins(script.segments, script.rows, w.segment, w.row, lap)

\* A walk at the end of its lap.
AtEnd(script, w) == w.done = TRUE /\ w.row = Len(script.rows) + 1 /\ w.due = w.length

\* Where a walk stands between two calls: at a row that runs, or at the end.
Place(script, lap, w) ==
  /\ IsWalk(w) /\ w.lap = lap /\ w.length = LapLength(script, lap)
  /\ AtRow(script, lap, w) \/ AtEnd(script, w)

\* From a segment on no row runs before the walk's.
NoneBefore(script, lap, from, w) ==
  /\ from <= w.segment
  /\ \A i \in from..Len(script.segments), row \in Nat :
      InSegment(script.segments, i, row) /\ RunsOn(script.segments[i].when, lap) => w.row <= row

LEMMA GoodScript ==
  ASSUME NEW script, Good(script)
  PROVE  /\ Len(script.segments) \in Nat /\ DOMAIN script.segments = 1..Len(script.segments)
         /\ Len(script.rows) \in Nat /\ DOMAIN script.rows = 1..Len(script.rows)
         /\ \A i \in 1..Len(script.segments) :
              /\ script.segments[i].begin \in Nat \ {0} /\ script.segments[i].end \in Nat
              /\ script.segments[i].begin <= script.segments[i].end
              /\ script.segments[i].end <= Len(script.rows) + 1
              /\ script.segments[i].lead \in Nat /\ script.segments[i].duration \in Nat
BY SegmentsLength, RowWaitsType, Zenon DEF Good, Bounded, TimesTyped

LEMMA LapLengthIs ==
  ASSUME NEW script, NEW lap
  PROVE  LapLength(script, lap) = Total(script.segments, lap, Len(script.segments))
BY Zenon DEF LapLength, Total, TimesOn, LapTimes

LEMMA TotalType ==
  ASSUME NEW a, IsSegments(a), TimesTyped(a), NEW lap, NEW i \in 0..Len(a)
  PROVE  Total(a, lap, i) \in Nat
<1>1. Len(a) \in Nat
  BY SegmentsLength
<1>2. CASE i = 0
  <2>1. 1 \in Nat \ {0} /\ 0 \in Nat /\ 0 < 1
    OBVIOUS
  <2>2. Total(a, lap, 0) = 0
    BY <2>1, SumNone, Zenon DEF Total
  <2> QED BY <1>2, <2>1, <2>2, Zenon
<1>3. CASE i # 0
  <2>1. i \in 1..Len(a)
    BY <1>1, <1>3
  <2> QED BY <2>1, TotalStep, Zenon
<1> QED BY <1>2, <1>3

\* The time from one segment to another.
Onward(a, lap, k, from, m) == Total(a, lap, k) + SumOver(LapTimes(a, lap), from, m) = Total(a, lap, m)

LEMMA TotalOnward ==
  ASSUME NEW a, IsSegments(a), TimesTyped(a), NEW lap, NEW k \in 0..Len(a), NEW m \in 0..Len(a), k <= m,
         NEW from, from = k + 1
  PROVE  Onward(a, lap, k, from, m)
<1>1. PICK f : f = LapTimes(a, lap)
  OBVIOUS
<1>2. \A i \in 1..Len(a) : f[i] \in Nat
  BY <1>1, LapTimesType, Zenon
<1>3. Len(a) \in Nat
  BY SegmentsLength
<1>4. k \in Nat /\ m \in Nat /\ \A i \in 1..m : f[i] \in Nat
  BY <1>2, <1>3
<1>5. SumOver(f, 1, m) = SumOver(f, 1, k) + SumOver(f, k + 1, m)
  BY <1>4, SumSplits
<1> QED BY <1>1, <1>5, Zenon DEF Total, Onward

\* A walk on the same lap as another, and where it is.
WalkAt(v, w, segment, time, row, due, done) ==
  /\ IsWalk(v) /\ v.lap = w.lap /\ v.length = w.length /\ v.segment = segment
  /\ v.time = time /\ v.row = row /\ v.due = due /\ v.done = done

LEMMA LapLengthType ==
  ASSUME NEW script, IsSegments(script.segments), TimesTyped(script.segments), NEW lap
  PROVE  LapLength(script, lap) \in Nat
<1>1. PICK L \in Nat : L = Len(script.segments)
  BY SegmentsLength, Zenon
<1>2. L \in 0..L
  BY <1>1
<1> QED BY <1>1, <1>2, TotalType, LapLengthIs, Zenon

LEMMA SettledFields ==
  ASSUME NEW w, IsWalk(w), NEW segment \in Nat, NEW time \in Nat, NEW due \in Nat, NEW row \in Nat
  PROVE  /\ WalkAt([w EXCEPT !.segment = segment, !.time = time, !.row = row, !.due = due, !.done = TRUE],
                   w, segment, time, row, due, TRUE)
         /\ WalkAt([w EXCEPT !.segment = segment, !.time = time, !.due = due, !.row = row],
                   w, segment, time, row, due, w.done)
BY DEF IsWalk, WalkAt, WalkFields

LEMMA MovedFields ==
  ASSUME NEW w, IsWalk(w), NEW segment \in Nat, NEW time \in Nat, NEW row \in Nat
  PROVE  /\ WalkAt([w EXCEPT !.time = time, !.segment = segment], w, segment, time, w.row, w.due, w.done)
         /\ WalkAt([w EXCEPT !.time = time, !.row = row, !.due = time], w, w.segment, time, row, time, w.done)
BY DEF IsWalk, WalkAt, WalkFields

\* The segments from the walk's on that run and have rows.
Ahead(script, w) ==
  {i \in w.segment..Len(script.segments) :
     HasRows(script.segments[i]) /\ RunsOn(script.segments[i].when, w.lap)}

\* LapWalk::settle(): it finds the first row that runs, and the time it is due.
LEMMA SettlePlaces ==
  ASSUME NEW script, Good(script), NEW lap, NEW w, Settling(script, lap, w)
  PROVE  Place(script, lap, Settle(script, w)) /\ NoneBefore(script, lap, w.segment, Settle(script, w))
<1> DEFINE a == script.segments
           L == Len(a)
           R == Len(script.rows)
           v == Settle(script, w)
<1>1. /\ L \in Nat /\ R \in Nat
      /\ \A i \in 1..L : /\ a[i].begin \in Nat \ {0} /\ a[i].end \in Nat
                         /\ a[i].begin <= a[i].end /\ a[i].end <= R + 1
  BY GoodScript
<1>2. IsSegments(a) /\ TimesTyped(a)
  BY Zenon DEF Good
<1>3. PICK from \in 1..(L + 1) : from = w.segment
  BY Zenon DEF Settling
<1>4. w.time = Total(a, lap, from - 1) /\ w.lap = lap /\ w.done = FALSE /\ w.length = LapLength(script, lap) /\ IsWalk(w)
  BY <1>3, Zenon DEF Settling
<1>5. \A i \in 1..L, row \in Nat : InSegment(a, i, row) => HasRows(a[i])
  BY <1>1 DEF InSegment, HasRows
<1>6. TimesOn(script, lap) = LapTimes(a, lap)
  BY Zenon DEF TimesOn, LapTimes
<1>7. ASSUME NEW found \in from..(L + 1)
      PROVE  w.time + SumOver(TimesOn(script, w.lap), w.segment, found - 1) = Total(a, lap, found - 1)
  <2>1. PICK k \in 0..L : k = from - 1 /\ k + 1 = from
    BY <1>1
  <2>2. PICK m \in 0..L : m = found - 1 /\ k <= m
    BY <1>1, <2>1
  <2>3. from = k + 1
    BY <2>1
  <2>4. Onward(a, lap, k, from, m)
    BY <1>2, <2>2, <2>3, TotalOnward, Zenon
  <2>5. Total(a, lap, k) + SumOver(LapTimes(a, lap), from, m) = Total(a, lap, m)
    BY <2>4, Zenon DEF Onward
  <2> QED BY <1>3, <1>4, <1>6, <2>1, <2>2, <2>5, Zenon
<1>8. CASE Ahead(script, w) = {}
  <2>1. PICK past : past = w.time + SumOver(TimesOn(script, w.lap), w.segment, (L + 1) - 1)
    OBVIOUS
  <2>2. v = [w EXCEPT !.segment = L + 1, !.time = past, !.row = R + 1, !.due = w.length, !.done = TRUE]
    BY <1>8, <2>1, Zenon DEF Settle, Ahead
  <2> HIDE DEF v
  <2>3. IsWalk(v) /\ v.lap = lap /\ v.length = w.length /\ v.segment = L + 1 /\ v.row = R + 1
       /\ v.due = w.length /\ v.done = TRUE
    <3>2. L + 1 \in Nat /\ R + 1 \in Nat /\ L \in 0..L /\ (L + 1) - 1 = L /\ L + 1 \in from..(L + 1)
      BY <1>1, <1>3
    <3>3. w.length \in Nat
      BY <1>2, <1>4, LapLengthType, Zenon
    <3>4. past = Total(a, lap, L)
      BY <1>7, <2>1, <3>2, Zenon
    <3>5. past \in Nat
      BY <1>2, <3>2, <3>4, TotalType, Zenon
    <3>1. WalkAt(v, w, L + 1, past, R + 1, w.length, TRUE)
      BY <1>4, <2>2, <3>2, <3>3, <3>5, SettledFields, Zenon
    <3> QED BY <1>4, <3>1, Zenon DEF WalkAt
  <2>4. Place(script, lap, v)
    BY <1>4, <2>3, Zenon DEF Place, AtEnd
  <2>5. NoneBefore(script, lap, from, v)
    <3>1. ASSUME NEW i \in from..L, NEW row \in Nat, InSegment(a, i, row), RunsOn(a[i].when, lap)
          PROVE  FALSE
      <4>1. i \in 1..L
        BY <1>1
      <4>2. i \in Ahead(script, w)
        BY <1>3, <1>4, <1>5, <3>1, <4>1, Zenon DEF Ahead
      <4> QED BY <1>8, <4>2
    <3>2. from <= v.segment
      BY <1>1, <2>3
    <3> QED BY <3>1, <3>2, Zenon DEF NoneBefore
  <2> QED BY <1>3, <2>4, <2>5, Zenon DEF v
<1>9. CASE Ahead(script, w) # {}
  <2>1. PICK found : found = Min(Ahead(script, w))
    OBVIOUS
  <2>2. /\ found \in from..L /\ HasRows(a[found]) /\ RunsOn(a[found].when, lap)
        /\ \A i \in Ahead(script, w) : found <= i
    <3>1. Ahead(script, w) \subseteq Nat
      <4>1. \A i \in w.segment..L : i \in Nat
        BY <1>1, <1>3
      <4> QED BY <4>1, Zenon DEF Ahead
    <3>2. found \in Ahead(script, w) /\ \A i \in Ahead(script, w) : found <= i
      BY <1>9, <2>1, <3>1, LeastNumber, Zenon
    <3> QED BY <1>3, <1>4, <3>2, Zenon DEF Ahead
  <2>3. found \in 1..L /\ found \in from..(L + 1)
    BY <1>1, <2>2
  <2>4. PICK past : past = w.time + SumOver(TimesOn(script, w.lap), w.segment, found - 1)
    OBVIOUS
  <2>5. past = Total(a, lap, found - 1)
    BY <1>7, <2>3, <2>4, Zenon
  <2>6. PICK begins : begins = past + a[found].lead
    OBVIOUS
  <2>7. v = [w EXCEPT !.segment = found, !.time = begins, !.due = begins, !.row = a[found].begin]
    BY <1>9, <2>1, <2>4, <2>6, Zenon DEF Settle, Ahead
  <2> HIDE DEF v
  <2>8. /\ IsWalk(v) /\ v.lap = lap /\ v.length = w.length /\ v.segment = found /\ v.time = begins
        /\ v.due = begins /\ v.row = a[found].begin /\ v.done = FALSE
    <3>2. found - 1 \in 0..L /\ found \in Nat
      BY <2>3
    <3>3. past \in Nat
      BY <1>2, <2>5, <3>2, TotalType, Zenon
    <3>4. a[found].lead \in Nat
      BY <1>2, <2>3, Zenon DEF TimesTyped
    <3>5. begins \in Nat
      BY <2>6, <3>3, <3>4
    <3>6. a[found].begin \in Nat
      BY <1>1, <2>3
    <3>1. WalkAt(v, w, found, begins, a[found].begin, begins, w.done)
      BY <1>4, <2>7, <3>2, <3>5, <3>6, SettledFields, Zenon
    <3> QED BY <1>4, <3>1, Zenon DEF WalkAt
  <2>9. Begins(a, script.rows, found, a[found].begin, lap) = begins
    <3>1. PICK begin \in Nat \ {0} : begin = a[found].begin
      BY <1>1, <2>3
    <3>2. begin - 1 \in Nat /\ begin - 1 < begin
      BY <3>1
    <3>3. SumOver(RowWaits(script.rows), begin, begin - 1) = 0
      BY <3>2, SumNone, Zenon
    <3>4. past \in Nat /\ a[found].lead \in Nat
      <4>1. found - 1 \in 0..L
        BY <2>3
      <4>2. past \in Nat
        BY <1>2, <2>5, <4>1, TotalType, Zenon
      <4> QED BY <1>2, <2>3, <4>2, Zenon DEF TimesTyped
    <3>5. Begins(a, script.rows, found, begin, lap) = past + a[found].lead + 0
      BY <2>5, <3>1, <3>3, Zenon DEF Begins, Total
    <3> QED BY <2>6, <3>1, <3>4, <3>5
  <2>10. AtRow(script, lap, v)
    <3>1. a[found].begin \in Nat /\ InSegment(a, found, a[found].begin)
      <4>1. a[found].begin # a[found].end
        BY <2>2, Zenon DEF HasRows
      <4> QED BY <1>1, <2>3, <4>1 DEF InSegment
    <3> QED BY <2>2, <2>3, <2>8, <2>9, <3>1, Zenon DEF AtRow
  <2>11. Place(script, lap, v)
    BY <1>4, <2>8, <2>10, Zenon DEF Place
  <2>12. NoneBefore(script, lap, from, v)
    <3>1. ASSUME NEW i \in from..L, NEW row \in Nat, InSegment(a, i, row), RunsOn(a[i].when, lap)
          PROVE  a[found].begin <= row
      <4>1. i \in 1..L
        BY <1>1
      <4>2. i \in Ahead(script, w)
        BY <1>3, <1>4, <1>5, <3>1, <4>1, Zenon DEF Ahead
      <4>3. found <= i
        BY <2>2, <4>2
      <4>4. CASE found = i
        BY <3>1, <4>4 DEF InSegment
      <4>5. CASE found # i
        <5>1. found < i
          BY <2>3, <4>1, <4>3, <4>5
        <5>2. a[found].end <= a[i].begin
          BY <2>3, <4>1, <5>1, Zenon DEF Good, Follow
        <5> QED BY <1>1, <2>3, <3>1, <4>1, <5>2 DEF InSegment
      <4> QED BY <4>4, <4>5
    <3>2. from <= v.segment
      BY <2>2, <2>8
    <3> QED BY <2>8, <3>1, <3>2, Zenon DEF NoneBefore
  <2> QED BY <1>3, <2>11, <2>12, Zenon DEF v
<1> QED BY <1>8, <1>9

-----------------------------------------------------------------------------
(* From one row to the next                                                *)

LEMMA RowBegins ==
  ASSUME NEW script, Good(script), NEW lap, NEW i \in 1..Len(script.segments),
         NEW row \in 1..Len(script.rows), script.segments[i].begin <= row
  PROVE  /\ Begins(script.segments, script.rows, i, row, lap) \in Nat
         /\ script.rows[row].wait \in Nat
         /\ Begins(script.segments, script.rows, i, row + 1, lap) =
              Begins(script.segments, script.rows, i, row, lap) + script.rows[row].wait
<1>1. PICK waits : waits = RowWaits(script.rows)
  OBVIOUS
<1>2. PICK begin \in Nat \ {0} : begin = script.segments[i].begin
  BY GoodScript
<1>3. /\ Len(script.rows) \in Nat
      /\ \A n \in 1..Len(script.rows) : waits[n] \in Nat /\ waits[n] = script.rows[n].wait
  BY <1>1, RowWaitsType, Zenon DEF Good
<1>4. PICK n \in Nat : n = row /\ n >= begin /\ n - 1 \in Nat /\ n <= Len(script.rows)
  BY <1>2, <1>3
<1>5. \A k \in begin..n : waits[k] \in Nat
  BY <1>2, <1>3, <1>4
<1>6. \A k \in begin..(n - 1) : waits[k] \in Nat
  BY <1>4, <1>5
<1>7. SumOver(waits, begin, n - 1) \in Nat
  BY <1>2, <1>4, <1>6, SumStep
<1>8. SumOver(waits, begin, n) = SumOver(waits, begin, n - 1) + waits[n]
  BY <1>2, <1>4, <1>5, SumStep
<1>9. PICK before : before = Total(script.segments, lap, i - 1)
  OBVIOUS
<1>10. before \in Nat /\ script.segments[i].lead \in Nat
  <2>1. before \in Nat
    BY <1>9, TotalStep, Zenon DEF Good
  <2> QED BY <2>1, Zenon DEF Good, TimesTyped
<1>11. Begins(script.segments, script.rows, i, row, lap)
         = before + script.segments[i].lead + SumOver(waits, begin, n - 1)
  BY <1>1, <1>2, <1>4, <1>9, Zenon DEF Begins, Total
<1>12. Begins(script.segments, script.rows, i, row + 1, lap)
         = before + script.segments[i].lead + SumOver(waits, begin, n)
  <2>1. PICK m : m = row + 1 /\ m - 1 = n
    BY <1>4
  <2>2. Begins(script.segments, script.rows, i, m, lap)
          = before + script.segments[i].lead + SumOver(waits, begin, m - 1)
    BY <1>1, <1>2, <1>9, Zenon DEF Begins, Total
  <2> QED BY <2>1, <2>2
<1>13. waits[n] \in Nat /\ waits[n] = script.rows[row].wait
  BY <1>3, <1>4
<1>14. PICK wait \in Nat : wait = waits[n] /\ wait = script.rows[row].wait
  BY <1>13
<1>15. PICK sum \in Nat : sum = SumOver(waits, begin, n - 1) /\ SumOver(waits, begin, n) = sum + wait
  BY <1>7, <1>8, <1>14
<1>16. PICK lead \in Nat : lead = script.segments[i].lead
  BY <1>10
<1>17. Begins(script.segments, script.rows, i, row, lap) = before + lead + sum
  BY <1>11, <1>15, <1>16, Zenon
<1>18. Begins(script.segments, script.rows, i, row + 1, lap) = before + lead + (sum + wait)
  BY <1>12, <1>15, <1>16, Zenon
<1>19. before + lead + (sum + wait) = before + lead + sum + wait /\ before + lead + sum \in Nat
  BY <1>10
<1> QED BY <1>14, <1>17, <1>18, <1>19, Zenon

\* After a segment's last row comes the end of its time.
LEMMA SegmentEnds ==
  ASSUME NEW script, Good(script), NEW lap, NEW i \in 1..Len(script.segments),
         NEW row \in 1..Len(script.rows), script.segments[i].begin <= row,
         row + 1 = script.segments[i].end, RunsOn(script.segments[i].when, lap)
  PROVE  Begins(script.segments, script.rows, i, row, lap) + script.rows[row].wait
           = Total(script.segments, lap, i)
<1>1. Begins(script.segments, script.rows, i, row, lap) + script.rows[row].wait
        = Begins(script.segments, script.rows, i, script.segments[i].end, lap)
  BY RowBegins
<1>2. script.segments[i].duration =
        script.segments[i].lead
          + SumOver(RowWaits(script.rows), script.segments[i].begin, script.segments[i].end - 1)
  BY Zenon DEF Good, Full
<1>3. Passes(script.segments[i].when, lap)
  BY Zenon DEF Passes
<1>4. Total(script.segments, lap, i) = Total(script.segments, lap, i - 1) + script.segments[i].duration
  BY <1>3, TotalStep, Zenon DEF Good
<1>5. PICK past : past = SumOver(RowWaits(script.rows), script.segments[i].begin, script.segments[i].end - 1)
  OBVIOUS
<1>6. Begins(script.segments, script.rows, i, script.segments[i].end, lap)
        = Total(script.segments, lap, i - 1) + script.segments[i].lead + past
  BY <1>5, Zenon DEF Begins, Total
<1>7. Total(script.segments, lap, i - 1) \in Nat /\ script.segments[i].lead \in Nat
  <2>1. Total(script.segments, lap, i - 1) \in Nat
    BY TotalStep, Zenon DEF Good
  <2> QED BY <2>1, Zenon DEF Good, TimesTyped
<1>8. past \in Nat
  <2>1. PICK begin \in Nat \ {0} : begin = script.segments[i].begin
    BY GoodScript
  <2>10. PICK end \in Nat : end = script.segments[i].end
    BY GoodScript
  <2>2. PICK n \in Nat : n = row /\ n = script.segments[i].end - 1 /\ n <= Len(script.rows)
    <3>1. Len(script.rows) \in Nat
      BY GoodScript, Zenon
    <3> QED BY <2>10, <3>1
  <2>3. \A k \in 1..Len(script.rows) : RowWaits(script.rows)[k] \in Nat
    BY RowWaitsType, Zenon DEF Good
  <2>4. \A k \in begin..n : RowWaits(script.rows)[k] \in Nat
    BY <2>1, <2>2, <2>3, GoodScript
  <2>5. SumOver(RowWaits(script.rows), begin, n) \in Nat
    BY <2>1, <2>2, <2>4, SumStep
  <2> QED BY <1>5, <2>1, <2>2, <2>5
<1> QED BY <1>1, <1>2, <1>4, <1>5, <1>6, <1>7, <1>8

LEMMA RunsInSegment ==
  ASSUME NEW script, Good(script), NEW row \in Nat, NEW lap
  PROVE  RowRuns(script, row, lap) <=>
           \E i \in 1..Len(script.segments) :
             InSegment(script.segments, i, row) /\ RunsOn(script.segments[i].when, lap)
<1>1. DOMAIN script.segments = 1..Len(script.segments)
  BY GoodScript
<1>2. \A i \in 1..Len(script.segments) :
        row \in script.segments[i].begin..(script.segments[i].end - 1) <=> InSegment(script.segments, i, row)
  BY GoodScript DEF InSegment
<1> QED BY <1>1, <1>2, Zenon DEF RowRuns

\* No row runs between two others.
NoneBetween(script, lap, k, m) ==
  \A row \in Nat : RowRuns(script, row, lap) => row <= k \/ m <= row

\* One walk is the other's next row.
Next1(script, lap, w, v) ==
  /\ Place(script, lap, v) /\ w.row \in 1..Len(script.rows) /\ v.row \in 1..(Len(script.rows) + 1)
  /\ w.row < v.row /\ NoneBetween(script, lap, w.row, v.row)

LEMMA PlaceRow ==
  ASSUME NEW script, Good(script), NEW lap, NEW w, Place(script, lap, w)
  PROVE  /\ w.row \in 1..(Len(script.rows) + 1)
         /\ w.done = TRUE => w.row = Len(script.rows) + 1
         /\ w.done # TRUE => w.row \in 1..Len(script.rows) /\ AtRow(script, lap, w)
<1>1. PICK R \in Nat : R = Len(script.rows)
  BY GoodScript, Zenon
<1>2. CASE AtRow(script, lap, w)
  <2>1. PICK i \in 1..Len(script.segments) : i = w.segment
    BY <1>2, Zenon DEF AtRow
  <2>2. PICK row \in Nat : row = w.row /\ script.segments[i].begin <= row /\ row < script.segments[i].end
    BY <1>2, <2>1, Zenon DEF AtRow, InSegment
  <2>3. script.segments[i].begin \in Nat \ {0} /\ script.segments[i].end \in Nat /\ script.segments[i].end <= R + 1
    BY <1>1, <2>1, GoodScript, Zenon
  <2>4. row \in 1..R /\ row \in 1..(R + 1)
    BY <2>2, <2>3
  <2>5. w.done = FALSE
    BY <1>2, Zenon DEF AtRow
  <2>6. w.done # TRUE
    BY <2>5
  <2> QED BY <1>1, <1>2, <2>2, <2>4, <2>6, Zenon
<1>3. CASE AtEnd(script, w)
  <2>1. w.done = TRUE /\ w.row = R + 1
    BY <1>1, <1>3, Zenon DEF AtEnd
  <2>2. R + 1 \in 1..(R + 1)
    OBVIOUS
  <2> QED BY <1>1, <2>1, <2>2, Zenon
<1> QED BY <1>2, <1>3, Zenon DEF Place

LEMMA OrderedRows ==
  ASSUME NEW script, Good(script), NEW i \in 1..Len(script.segments), NEW j \in 1..Len(script.segments),
         NEW row \in Nat, NEW other \in Nat, InSegment(script.segments, i, row), InSegment(script.segments, j, other)
  PROVE  i < j => row < other
<1>1. SUFFICES ASSUME i < j PROVE row < other
  OBVIOUS
<1>2. script.segments[i].end <= script.segments[j].begin
  BY <1>1, Zenon DEF Good, Follow
<1> QED BY <1>2, GoodScript DEF InSegment

\* LapWalk::next()
LEMMA WalkPlaces ==
  ASSUME NEW script, Good(script), NEW lap, NEW w, Place(script, lap, w), w.done # TRUE
  PROVE  Next1(script, lap, w, Walk(script, w))
<1> DEFINE a == script.segments
           rows == script.rows
           v == Walk(script, w)
<1>1. /\ Len(a) \in Nat /\ Len(rows) \in Nat
      /\ \A i \in 1..Len(a) : /\ a[i].begin \in Nat \ {0} /\ a[i].end \in Nat
                              /\ a[i].begin <= a[i].end /\ a[i].end <= Len(rows) + 1
  BY GoodScript
<1>2. AtRow(script, lap, w) /\ w.row \in 1..Len(rows)
  BY PlaceRow, Zenon
<1>3. PICK i \in 1..Len(a) : i = w.segment
  BY <1>2, Zenon DEF AtRow
<1>4. PICK row \in 1..Len(rows) : row = w.row
  BY <1>2
<1>5. row \in Nat /\ InSegment(a, i, row) /\ a[i].begin <= row /\ row < a[i].end
  BY <1>2, <1>3, <1>4, Zenon DEF AtRow, InSegment
<1>6. PICK after : after = w.time + rows[row].wait
  OBVIOUS
<1>7. after = Begins(a, rows, i, row, lap) + rows[row].wait
  BY <1>2, <1>3, <1>4, <1>6, Zenon DEF AtRow
<1>8. RunsOn(a[i].when, lap) /\ w.done = FALSE
  BY <1>2, <1>3, Zenon DEF AtRow
<1>9. IsWalk(w) /\ w.lap = lap /\ w.length = LapLength(script, lap)
  BY Zenon DEF Place
<1>13. after \in Nat
  <2>1. Begins(a, rows, i, row, lap) \in Nat /\ rows[row].wait \in Nat
    BY <1>5, RowBegins, Zenon
  <2> QED BY <1>7, <2>1
<1>10. CASE row + 1 = a[i].end
  <2>1. PICK u : u = [w EXCEPT !.time = after, !.segment = @ + 1]
    OBVIOUS
  <2>2. v = Settle(script, u)
    BY <1>3, <1>4, <1>6, <1>10, <2>1, Zenon DEF Walk
  <2>3. /\ IsWalk(u) /\ u.lap = w.lap /\ u.length = w.length /\ u.done = w.done
        /\ u.segment = w.segment + 1 /\ u.time = after
    <3>1. PICK next \in Nat : next = w.segment + 1
      BY <1>1, <1>3
    <3>2. u = [w EXCEPT !.time = after, !.segment = next]
      BY <2>1, <3>1, Zenon
    <3>3. WalkAt(u, w, next, after, w.row, w.due, w.done)
      BY <1>9, <1>13, <3>2, MovedFields, Zenon
    <3> QED BY <3>1, <3>3, Zenon DEF WalkAt
  <2>4. PICK next \in 1..(Len(a) + 1) : next = i + 1 /\ next - 1 = i
    BY <1>1
  <2>5. after = Total(a, lap, i)
    BY <1>5, <1>7, <1>8, <1>10, SegmentEnds, Zenon
  <2>6. Settling(script, lap, u)
    <3>1. u.segment = next
      BY <1>3, <2>3, <2>4
    <3> QED BY <1>8, <1>9, <2>3, <2>4, <2>5, <3>1, Zenon DEF Settling
  <2>7. Place(script, lap, v) /\ NoneBefore(script, lap, next, v)
    <3>1. u.segment = next
      BY <1>3, <2>3, <2>4
    <3> QED BY <2>2, <2>6, <3>1, SettlePlaces, Zenon
  <2> HIDE DEF v
  <2>8. PICK at_row \in 1..(Len(rows) + 1) : at_row = v.row
    BY <2>7, PlaceRow, Zenon
  <2>9. row < at_row
    <3>1. CASE v.done = TRUE
      <4>1. v.row = Len(rows) + 1
        BY <2>7, <3>1, PlaceRow, Zenon
      <4> QED BY <1>1, <2>8, <4>1
    <3>2. CASE v.done # TRUE
      <4>1. AtRow(script, lap, v)
        BY <2>7, <3>2, PlaceRow, Zenon
      <4>2. PICK j \in 1..Len(a) : j = v.segment
        BY <4>1, Zenon DEF AtRow
      <4>3. InSegment(a, j, at_row) /\ at_row \in Nat
        BY <2>8, <4>1, <4>2, Zenon DEF AtRow
      <4>4. next <= j
        BY <2>7, <4>2, Zenon DEF NoneBefore
      <4>5. i < j
        BY <2>4, <4>4
      <4> QED BY <1>5, <4>3, <4>5, OrderedRows, Zenon
    <3> QED BY <3>1, <3>2
  <2>10. NoneBetween(script, lap, row, at_row)
    <3>1. ASSUME NEW other \in Nat, RowRuns(script, other, lap)
          PROVE  other <= row \/ at_row <= other
      <4>1. PICK j \in 1..Len(a) : InSegment(a, j, other) /\ RunsOn(a[j].when, lap)
        BY <3>1, RunsInSegment, Zenon
      <4>2. CASE next <= j
        <5>1. j \in next..Len(a)
          BY <4>2
        <5> QED BY <2>7, <2>8, <4>1, <5>1, Zenon DEF NoneBefore
      <4>3. CASE j = i
        BY <1>1, <1>5, <1>10, <4>1, <4>3 DEF InSegment
      <4>4. CASE j < i
        <5>1. other < row
          BY <1>5, <4>1, <4>4, OrderedRows, Zenon
        <5> QED BY <1>5, <5>1
      <4> QED BY <2>4, <4>2, <4>3, <4>4
    <3> QED BY <3>1, Zenon DEF NoneBetween
  <2> QED BY <1>4, <2>7, <2>8, <2>9, <2>10, Zenon DEF Next1, v
<1>11. CASE row + 1 # a[i].end
  <2>1. PICK next \in 1..Len(rows) : next = row + 1
    BY <1>1, <1>5, <1>11
  <2>2. v = [w EXCEPT !.time = after, !.row = @ + 1, !.due = after]
    BY <1>3, <1>4, <1>6, <1>11, Zenon DEF Walk
  <2> HIDE DEF v
  <2>3. /\ IsWalk(v) /\ v.lap = w.lap /\ v.length = w.length /\ v.done = w.done
        /\ v.segment = w.segment /\ v.time = after /\ v.due = after /\ v.row = w.row + 1
    <3>1. PICK more \in Nat : more = w.row + 1
      BY <1>4
    <3>2. v = [w EXCEPT !.time = after, !.row = more, !.due = after]
      BY <2>2, <3>1, Zenon
    <3>3. WalkAt(v, w, w.segment, after, more, after, w.done)
      BY <1>9, <1>13, <3>2, MovedFields, Zenon
    <3> QED BY <3>1, <3>3, Zenon DEF WalkAt
  <2>4. v.row = next
    BY <1>4, <2>1, <2>3
  <2>5. next \in Nat /\ InSegment(a, i, next)
    BY <1>1, <1>5, <1>11, <2>1 DEF InSegment
  <2>6. after = Begins(a, rows, i, next, lap)
    BY <1>5, <1>7, <2>1, RowBegins
  <2>7. AtRow(script, lap, v)
    BY <1>3, <1>8, <2>3, <2>4, <2>5, <2>6, Zenon DEF AtRow
  <2>8. Place(script, lap, v)
    BY <1>9, <2>3, <2>7, Zenon DEF Place
  <2>9. NoneBetween(script, lap, row, next)
    <3>1. ASSUME NEW other \in Nat
          PROVE  other <= row \/ next <= other
      BY <2>1
    <3> QED BY <3>1, Zenon DEF NoneBetween
  <2>10. row < next /\ next \in 1..(Len(rows) + 1)
    BY <1>1, <2>1
  <2> QED BY <1>4, <2>4, <2>8, <2>9, <2>10, Zenon DEF Next1, v
<1> QED BY <1>10, <1>11

-----------------------------------------------------------------------------
(* A lap's start, and a seek                                               *)

\* LapWalk(script, lap)
LEMMA StartPlaces ==
  ASSUME NEW script, Good(script), NEW lap \in Nat
  PROVE  Place(script, lap, Start(script, lap)) /\ NoneBefore(script, lap, 1, Start(script, lap))
<1>1. PICK w : w = [lap |-> lap, length |-> LapLength(script, lap), segment |-> 1, time |-> 0,
                    row |-> 1, due |-> 0, done |-> FALSE]
  OBVIOUS
<1>2. LapLength(script, lap) \in Nat
  BY LapLengthType, Zenon DEF Good
<1>3. Start(script, lap) = Settle(script, w)
  BY <1>1, Zenon DEF Start
<1>4. Total(script.segments, lap, 0) = 0
  <2>1. 1 \in Nat \ {0} /\ 0 \in Nat /\ 0 < 1
    OBVIOUS
  <2> QED BY <2>1, SumNone, Zenon DEF Total
<1>5. IsWalk(w)
  <2>1. DOMAIN w = WalkFields
    BY <1>1 DEF WalkFields
  <2>2. w = [x \in WalkFields |-> w[x]]
    BY <1>1, <2>1
  <2>3. ASSUME NEW x \in WalkFields PROVE w[x] \in Nat \union BOOLEAN
    <3>1. w.lap \in Nat /\ w.length \in Nat /\ w.segment \in Nat /\ w.time \in Nat /\ w.row \in Nat /\ w.due \in Nat
      BY <1>1, <1>2
    <3>2. w.done \in BOOLEAN
      BY <1>1
    <3> QED BY <3>1, <3>2, Zenon DEF WalkFields
  <2> QED BY <2>2, <2>3, Zenon DEF IsWalk
<1>6. w.lap = lap /\ w.length = LapLength(script, lap) /\ w.done = FALSE /\ w.segment = 1 /\ w.time = 0
  BY <1>1
<1>7. 1 \in 1..(Len(script.segments) + 1) /\ 1 - 1 = 0
  BY GoodScript
<1>8. Settling(script, lap, w)
  BY <1>4, <1>5, <1>6, <1>7, Zenon DEF Settling
<1> QED BY <1>3, <1>6, <1>8, SettlePlaces, Zenon

\* A seek that need not go on.
Arrived(w, time) == w.done \/ w.due >= time

\* One step of a seek.
SeekNext(script, time, w) == IF w.done \/ w.due >= time THEN w ELSE Walk(script, w)

\* The seek is over.
SeekStays(script, time, w) == SeekNext(script, time, w) = w

\* The seek goes on to the next row.
SeekGoes(script, time, w) == w.done # TRUE /\ SeekNext(script, time, w) = Walk(script, w)

\* A seek row by row, as Seek defines it.
SeekIs(script, lap, time, r) ==
  r = [n \in 0..Len(script.rows) |->
         IF n = 0 THEN Start(script, lap)
         ELSE LET before == r[n - 1]
              IN IF before.done \/ before.due >= time THEN before ELSE Walk(script, before)]

LEMMA SeekStepType ==
  ASSUME NEW script, Good(script), NEW lap, NEW time, NEW w, Place(script, lap, w)
  PROVE  /\ w.done \in BOOLEAN
         /\ Arrived(w, time) => SeekStays(script, time, w)
         /\ ~Arrived(w, time) => SeekGoes(script, time, w)
         /\ Place(script, lap, SeekNext(script, time, w))
<1>1. w.done \in BOOLEAN
  BY Zenon DEF Place, AtRow, AtEnd
<1>2. CASE Arrived(w, time)
  <2>1. SeekNext(script, time, w) = w
    BY <1>2, Zenon DEF SeekNext, Arrived
  <2> QED BY <1>1, <1>2, <2>1, Zenon DEF SeekStays
<1>3. CASE ~Arrived(w, time)
  <2>1. SeekNext(script, time, w) = Walk(script, w)
    BY <1>3, Zenon DEF SeekNext, Arrived
  <2>2. w.done # TRUE
    BY <1>3 DEF Arrived
  <2>3. Place(script, lap, Walk(script, w))
    BY <2>2, WalkPlaces, Zenon DEF Next1
  <2> QED BY <1>1, <1>3, <2>1, <2>2, <2>3, Zenon DEF SeekGoes
<1> QED BY <1>2, <1>3

\* LapWalk::seek() goes on from row to row.
LEMMA SeekSteps ==
  ASSUME NEW script, Good(script), NEW lap \in Nat, NEW time
  PROVE  \E r : SeekIs(script, lap, time, r) /\ SeekTo(script, lap, time) = r[Len(script.rows)]
<1>1. PICK R \in Nat : R = Len(script.rows)
  BY GoodScript, Zenon
<1> DEFINE X == {w \in [WalkFields -> Nat \union BOOLEAN] : Place(script, lap, w)}
           step == [n \in 1..R |-> [w \in X |-> SeekNext(script, time, w)]]
<1>2. \A w : Place(script, lap, w) => w \in X
  BY Zenon DEF Place, IsWalk
<1>3. Start(script, lap) \in X
  BY <1>2, StartPlaces, Zenon
<1>4. \A w \in X : SeekNext(script, time, w) \in X
  <2>1. ASSUME NEW w \in X PROVE SeekNext(script, time, w) \in X
    <3>1. Place(script, lap, w)
      BY Zenon
    <3>2. Place(script, lap, SeekNext(script, time, w))
      BY <3>1, SeekStepType, Zenon
    <3> QED BY <1>2, <3>2, Zenon
  <2> QED BY <2>1, Zenon
<1> HIDE DEF X
<1>5. step \in [1..R -> [X -> X]]
  BY <1>4
<1>6. \A n \in 1..R, w \in X : step[n][w] = SeekNext(script, time, w)
  OBVIOUS
<1> HIDE DEF step
<1>7. PICK w \in [0..R -> X] : Follows(w, R, Start(script, lap), step)
  BY <1>3, <1>5, StepsExist
<1>8. SeekIs(script, lap, time, w)
  <2>1. ASSUME NEW n \in 0..R
        PROVE  w[n] = IF n = 0 THEN Start(script, lap)
                      ELSE LET before == w[n - 1]
                           IN IF before.done \/ before.due >= time THEN before ELSE Walk(script, before)
    <3>1. CASE n = 0
      BY <1>7, <3>1, Zenon DEF Follows
    <3>2. CASE n # 0
      <4>1. n \in 1..R
        BY <3>2
      <4>2. w[n - 1] \in X
        BY <4>1
      <4>3. w[n] = SeekNext(script, time, w[n - 1])
        BY <1>6, <1>7, <4>1, <4>2, Zenon DEF Follows
      <4> QED BY <3>2, <4>3, Zenon DEF SeekNext
    <3> QED BY <3>1, <3>2, Zenon
  <2>2. w = [n \in 0..R |-> w[n]]
    OBVIOUS
  <2>3. [n \in 0..R |-> w[n]] =
          [n \in 0..R |-> IF n = 0 THEN Start(script, lap)
                          ELSE LET before == w[n - 1]
                               IN IF before.done \/ before.due >= time THEN before ELSE Walk(script, before)]
    BY <2>1, Zenon
  <2> QED BY <1>1, <2>2, <2>3, Zenon DEF SeekIs
<1> DEFINE r == CHOOSE u : SeekIs(script, lap, time, u)
<1>9. SeekIs(script, lap, time, r)
  BY <1>8, Zenon
<1>10. SeekTo(script, lap, time) = r[Len(script.rows)]
  BY DEF SeekTo, SeekIs
<1> QED BY <1>9, <1>10, Zenon

\* The rows of the lap that a seek passes over are due before where it goes.
SkippedEarlier(script, lap, time, w) ==
  \A i \in 1..Len(script.segments), row \in Nat :
    InSegment(script.segments, i, row) /\ RunsOn(script.segments[i].when, lap) /\ row < w.row =>
      Begins(script.segments, script.rows, i, row, lap) < time

LEMMA OnlySegment ==
  ASSUME NEW script, Good(script), NEW i \in 1..Len(script.segments), NEW j \in 1..Len(script.segments),
         NEW row \in Nat, InSegment(script.segments, i, row), InSegment(script.segments, j, row)
  PROVE  i = j
<1>1. ~(i < j) /\ ~(j < i)
  <2>1. ~(row < row)
    OBVIOUS
  <2> QED BY <2>1, OrderedRows, Zenon
<1>2. i \in Nat /\ j \in Nat
  BY GoodScript
<1> QED BY <1>1, <1>2

LEMMA SeekPlaces ==
  ASSUME NEW script, Good(script), NEW lap \in Nat, NEW time \in Int
  PROVE  /\ Place(script, lap, SeekTo(script, lap, time))
         /\ SkippedEarlier(script, lap, time, SeekTo(script, lap, time))
<1>1. PICK R \in Nat : R = Len(script.rows)
  BY GoodScript, Zenon
<1>2. PICK r : SeekIs(script, lap, time, r) /\ SeekTo(script, lap, time) = r[R]
  BY <1>1, SeekSteps, Zenon
<1>3. \A n \in 0..R : r[n] = IF n = 0 THEN Start(script, lap) ELSE SeekNext(script, time, r[n - 1])
  BY <1>1, <1>2, Zenon DEF SeekIs, SeekNext
<1> DEFINE T == {n \in 0..R : Place(script, lap, r[n]) /\ SkippedEarlier(script, lap, time, r[n])}
<1>4. 0 \in T
  <2>1. 0 \in 0..R
    OBVIOUS
  <2>2. r[0] = Start(script, lap)
    BY <1>3, <2>1, Zenon
  <2>3. Place(script, lap, r[0]) /\ NoneBefore(script, lap, 1, r[0])
    BY <2>2, StartPlaces, Zenon
  <2>4. r[0].row \in Nat
    <3>1. r[0].row \in 1..(Len(script.rows) + 1)
      BY <2>3, PlaceRow, Zenon
    <3> QED BY <1>1, <3>1
  <2>5. ASSUME NEW i \in 1..Len(script.segments), NEW row \in Nat, InSegment(script.segments, i, row),
               RunsOn(script.segments[i].when, lap), row < r[0].row
        PROVE  FALSE
    <3>1. r[0].row <= row
      BY <2>3, <2>5, Zenon DEF NoneBefore
    <3> QED BY <2>4, <2>5, <3>1
  <2>6. SkippedEarlier(script, lap, time, r[0])
    BY <2>5, Zenon DEF SkippedEarlier
  <2> QED BY <2>1, <2>3, <2>6, Zenon
<1>5. ASSUME NEW n \in 1..R, n - 1 \in T PROVE n \in T
  <2>1. n \in 0..R /\ n # 0
    OBVIOUS
  <2>2. PICK w : w = r[n - 1]
    OBVIOUS
  <2>3. Place(script, lap, w) /\ SkippedEarlier(script, lap, time, w)
    BY <1>5, <2>2, Zenon
  <2>4. r[n] = SeekNext(script, time, w)
    BY <1>3, <2>1, <2>2, Zenon
  <2>5. CASE Arrived(w, time)
    <3>1. r[n] = w
      BY <2>3, <2>4, <2>5, SeekStepType, Zenon DEF SeekStays
    <3> QED BY <2>1, <2>3, <3>1, Zenon
  <2>6. CASE ~Arrived(w, time)
    <3>1. w.done # TRUE /\ r[n] = Walk(script, w)
      BY <2>3, <2>4, <2>6, SeekStepType, Zenon DEF SeekGoes
    <3>2. PICK v : v = r[n]
      OBVIOUS
    <3>3. Next1(script, lap, w, v)
      BY <2>3, <3>1, <3>2, WalkPlaces, Zenon
    <3>4. AtRow(script, lap, w)
      BY <2>3, <3>1, PlaceRow, Zenon
    <3>5. PICK j \in 1..Len(script.segments) : j = w.segment
      BY <3>4, Zenon DEF AtRow
    <3>6. PICK row \in Nat : row = w.row /\ InSegment(script.segments, j, row)
      BY <3>4, <3>5, Zenon DEF AtRow
    <3>7. PICK due \in Nat : due = w.due /\ due = Begins(script.segments, script.rows, j, row, lap)
      <4>1. row \in 1..Len(script.rows)
        BY <3>3, <3>6, Zenon DEF Next1
      <4>2. Begins(script.segments, script.rows, j, row, lap) \in Nat
        BY <3>6, <4>1, RowBegins, Zenon DEF InSegment
      <4> QED BY <3>4, <3>5, <3>6, <4>2, Zenon DEF AtRow
    <3>8. due < time
      <4>1. ~(due >= time)
        BY <2>6, <3>7, Zenon DEF Arrived
      <4> QED BY <4>1
    <3>9. ASSUME NEW i \in 1..Len(script.segments), NEW other \in Nat, InSegment(script.segments, i, other),
                 RunsOn(script.segments[i].when, lap), other < v.row
          PROVE  Begins(script.segments, script.rows, i, other, lap) < time
      <4>1. RowRuns(script, other, lap)
        BY <3>9, RunsInSegment, Zenon
      <4>2. other <= row \/ v.row <= other
        BY <3>3, <3>6, <4>1, Zenon DEF Next1, NoneBetween
      <4>3. v.row \in Nat
        BY <3>3, GoodScript DEF Next1
      <4>4. other <= row
        BY <3>9, <4>2, <4>3
      <4>5. CASE other = row
        <5>1. i = j
          BY <3>6, <3>9, <4>5, OnlySegment, Zenon
        <5> QED BY <3>7, <3>8, <4>5, <5>1, Zenon
      <4>6. CASE other # row
        <5>1. other < w.row
          BY <3>6, <4>4, <4>6
        <5> QED BY <2>3, <3>9, <5>1, Zenon DEF SkippedEarlier
      <4> QED BY <4>5, <4>6
    <3>10. SkippedEarlier(script, lap, time, v)
      BY <3>9, Zenon DEF SkippedEarlier
    <3> QED BY <2>1, <3>2, <3>3, <3>10, Zenon DEF Next1
  <2> QED BY <2>5, <2>6
<1>6. R \in T
  <2> HIDE DEF T
  <2>1. 0..R \subseteq T
    BY <1>4, <1>5, StepByStep
  <2> QED BY <2>1
<1> QED BY <1>2, <1>6, Zenon

-----------------------------------------------------------------------------
(* The clock                                                               *)

LEMMA Rounded ==
  ASSUME NEW a \in Int, NEW d \in Nat \ {0}
  PROVE  a \div d \in Int /\ a % d \in 0..(d - 1) /\ a = d * (a \div d) + (a % d)
  OBVIOUS

LEMMA LaterMultiple ==
  ASSUME NEW d \in Nat \ {0}, NEW k \in Int, NEW m \in Int, k < m
  PROVE  d * k + d <= d * m
<1>1. PICK n \in Nat : m = k + 1 + n
  <2>1. m - k - 1 \in Nat /\ m = k + 1 + (m - k - 1)
    OBVIOUS
  <2> QED BY <2>1
<1>2. d * m = d * k + d + d * n
  BY <1>1
<1>3. d * n \in Nat /\ d * k \in Int
  OBVIOUS
<1> QED BY <1>2, <1>3

LEMMA QuotientIs ==
  ASSUME NEW d \in Nat \ {0}, NEW q \in Int, NEW r \in 0..(d - 1), NEW a \in Int, a = d * q + r
  PROVE  a \div d = q
<1>1. PICK k \in Int, m \in 0..(d - 1) : k = a \div d /\ a = d * k + m
  BY Rounded
<1>2. d * q \in Int /\ d * k \in Int
  OBVIOUS
<1>3. ~(k < q)
  <2>1. ASSUME k < q PROVE FALSE
    <3>1. d * k + d <= d * q
      BY <2>1, LaterMultiple
    <3> QED BY <1>1, <1>2, <3>1
  <2> QED BY <2>1
<1>4. ~(q < k)
  <2>1. ASSUME q < k PROVE FALSE
    <3>1. d * q + d <= d * k
      BY <2>1, LaterMultiple
    <3> QED BY <1>1, <1>2, <3>1
  <2> QED BY <2>1
<1> QED BY <1>1, <1>3, <1>4

\* scaled() of two spans, one of which it need not round.
LEMMA ScaledAdds ==
  ASSUME NEW a \in Int, NEW b \in Nat, NEW speed \in Nat \ {0}, b % speed = 0
  PROVE  /\ Scaled(a, speed) \in Int /\ Scaled(b, speed) \in Int /\ Scaled(0, speed) = 0
         /\ Scaled(a + b, speed) = Scaled(a, speed) + Scaled(b, speed)
<1>1. PICK k \in Nat : b = speed * k
  BY WholeSteps
<1>2. PICK q \in Int, r \in 0..(speed - 1) : q = a \div speed /\ a = speed * q + r
  BY Rounded
<1>3. b \div speed = k
  <2>1. 0 \in 0..(speed - 1) /\ b = speed * k + 0 /\ k \in Int /\ b \in Int
    BY <1>1
  <2> QED BY <2>1, QuotientIs
<1>4. (a + b) \div speed = q + k
  <2>1. q + k \in Int /\ a + b \in Int
    BY <1>2
  <2>2. speed * (q + k) = speed * q + speed * k
    OBVIOUS
  <2>3. speed * q \in Int /\ speed * k \in Int
    OBVIOUS
  <2>4. a + b = speed * (q + k) + r
    <3>1. PICK x \in Int : x = speed * q
      BY <2>3
    <3>2. PICK y \in Int : y = speed * k
      BY <2>3
    <3>3. a = x + r /\ b = y /\ speed * (q + k) = x + y
      BY <1>1, <1>2, <2>2, <3>1, <3>2, Zenon
    <3>5. r \in Int
      OBVIOUS
    <3>4. a + b = (x + y) + r
      BY <3>3, <3>5
    <3> QED BY <3>3, <3>4
  <2> QED BY <2>1, <2>4, QuotientIs
<1>5. 0 \div speed = 0
  <2>1. 0 \in 0..(speed - 1) /\ 0 = speed * 0 + 0
    OBVIOUS
  <2> QED BY <2>1, QuotientIs
<1>6. k \in Int
  BY <1>1
<1> QED BY <1>2, <1>3, <1>4, <1>5, <1>6, Zenon DEF Scaled

\* A number that a speed divides.
Whole(f, n, speed) == f[n] \in Nat /\ f[n] % speed = 0

LEMMA MultiplesAdd ==
  ASSUME NEW a \in Nat, NEW b \in Nat, NEW speed \in Nat \ {0}, a % speed = 0, b % speed = 0
  PROVE  (a + b) % speed = 0
<1>1. PICK k \in Nat : a = speed * k
  BY WholeSteps
<1>2. PICK m \in Nat : b = speed * m
  BY WholeSteps
<1>3. speed * (k + m) = speed * k + speed * m /\ k + m \in Nat
  OBVIOUS
<1>4. a + b = speed * (k + m) /\ a + b \in Nat
  BY <1>1, <1>2, <1>3
<1> QED BY <1>3, <1>4, WholeSteps

LEMMA SumIsWhole ==
  ASSUME NEW f, NEW L \in Nat, NEW speed \in Nat \ {0}, \A n \in 1..L : Whole(f, n, speed)
  PROVE  SumOver(f, 1, L) \in Nat /\ SumOver(f, 1, L) % speed = 0
<1> DEFINE T == {n \in 0..L : SumOver(f, 1, n) \in Nat /\ SumOver(f, 1, n) % speed = 0}
<1>0. 0 % speed = 0
  <2>1. 0 = speed * 0 /\ 0 \in Nat
    OBVIOUS
  <2> QED BY <2>1, WholeSteps
<1>1. 0 \in T
  <2>1. 1 \in Nat \ {0} /\ 0 \in Nat /\ 0 < 1 /\ 0 \in 0..L
    OBVIOUS
  <2>2. SumOver(f, 1, 0) = 0
    BY <2>1, SumNone, Zenon
  <2> QED BY <1>0, <2>1, <2>2
<1>2. ASSUME NEW n \in 1..L, n - 1 \in T PROVE n \in T
  <2>1. PICK sum \in Nat : sum = SumOver(f, 1, n - 1) /\ sum % speed = 0
    BY <1>2
  <2>2. f[n] \in Nat /\ f[n] % speed = 0
    BY Zenon DEF Whole
  <2>3. \A k \in 1..n : f[k] \in Nat
    <3>1. \A k \in 1..n : k \in 1..L
      OBVIOUS
    <3> QED BY <3>1, Zenon DEF Whole
  <2>4. 1 \in Nat \ {0} /\ n \in Nat /\ n >= 1
    OBVIOUS
  <2>5. SumOver(f, 1, n) = SumOver(f, 1, n - 1) + f[n]
    BY <2>3, <2>4, SumStep
  <2>6. sum + f[n] \in Nat /\ (sum + f[n]) % speed = 0
    BY <2>1, <2>2, MultiplesAdd
  <2>7. n \in 0..L
    OBVIOUS
  <2> QED BY <2>1, <2>5, <2>6, <2>7, Zenon
<1>3. L \in T
  <2> HIDE DEF T
  <2>1. 0..L \subseteq T
    BY <1>1, <1>2, StepByStep
  <2> QED BY <2>1
<1> QED BY <1>3

\* Every speed, and that of a clock that was not set yet.
PlayedSpeeds == Speeds \union {1}

\* No wait is rounded at a speed the script is played at.
LEMMA WaitsAreWhole ==
  ASSUME FormatInv, DataFits, NEW lap, NEW speed \in PlayedSpeeds, NEW i \in DOMAIN lines
  PROVE  Whole(WaitsOn(lap), i, speed)
<1>1. speed \in Nat \ {0}
  BY TimelineAssumption DEF PlayedSpeeds
<1>2. 0 \in Nat /\ 0 % speed = 0
  <2>1. 0 = speed * 0 /\ 0 \in Nat
    BY <1>1
  <2> QED BY <1>1, <2>1, WholeSteps
<1>3. WaitsOn(lap)[i] = IF i \in Kinds({"row", "wait"}) THEN More(WhenOf(i), lap, lines[i].wait) ELSE 0
  BY WaitOnIs
<1>4. CASE i \notin Kinds({"row", "wait"})
  BY <1>2, <1>3, <1>4, Zenon DEF Whole
<1>5. CASE i \in Kinds({"row", "wait"})
  <2>1. PICK line : line = lines[i]
    OBVIOUS
  <2>2. line.kind \in {"row", "wait"} /\ line.wait # Malformed
    BY <1>5, <2>1, Zenon DEF Kinds, DataFits
  <2>3. PICK a \in DOMAIN Alphabets : line \in Alphabets[a]
    <3>1. line \in AllLines
      BY <2>1 DEF FormatInv
    <3> QED BY <3>1, Zenon DEF AllLines
  <2>4. line.wait \in Nat
    <3>1. line.wait \in Nat \union {Malformed}
      BY <2>2, <2>3, ReaderAssumption, Zenon
    <3> QED BY <2>2, <3>1, Zenon
  <2>5. line.wait % speed = 0
    <3>1. CASE speed \in Speeds
      BY <2>2, <2>3, <3>1, ScaledAssumption, Zenon
    <3>2. CASE speed = 1
      BY <2>4, <3>2
    <3> QED BY <3>1, <3>2, Zenon DEF PlayedSpeeds
  <2>6. WaitsOn(lap)[i] = line.wait \/ WaitsOn(lap)[i] = 0
    BY <1>3, <1>5, <2>1, Zenon DEF More
  <2> QED BY <1>2, <2>4, <2>5, <2>6, Zenon DEF Whole
<1> QED BY <1>4, <1>5, Zenon

-----------------------------------------------------------------------------
(* Laps to come                                                            *)

\* The laps that a block leaves out.
TurnedAround(w) == [w EXCEPT !.negate = ~@]

\* What a search for laps looks for, for a segment.
Whens(s, rows_only) ==
  LET takes_time == ~rows_only /\ s.duration > 0
  IN (IF HasRows(s) \/ takes_time THEN {s.when} ELSE {})
       \union (IF takes_time /\ s.when.keep_time THEN {[s.when EXCEPT !.negate = ~@]} ELSE {})

\* The next lap of each segment, in a search.
Candidates(script, from, rows_only) ==
  UNION {{NextRunFrom(w, from) : w \in Whens(script.segments[i], rows_only)} : i \in DOMAIN script.segments}

\* The next lap of a selector; none is 0.
NextIs(w, from, n) ==
  /\ n = 0 => (\A l \in from..MaxLap : ~RunsOn(w, l))
  /\ n # 0 => n \in from..MaxLap /\ RunsOn(w, n) /\ (\A l \in from..MaxLap : RunsOn(w, l) => n <= l)

LEMMA NextRunIs ==
  ASSUME NEW w \in Selectors, NEW from \in 1..MaxLap
  PROVE  NextIs(w, from, NextRunFrom(w, from))
<1> DEFINE S == {l \in from..MaxLap : RunsOn(w, l)}
<1>1. NextRunFrom(w, from) = Least(S)
  BY LapArithmetic, Zenon
<1>2. S \subseteq Nat
  <2>1. from..MaxLap \subseteq Nat
    BY LapsAssumption
  <2> QED BY <2>1, Zenon
<1>3. CASE S = {}
  <2>1. NextRunFrom(w, from) = 0
    BY <1>1, <1>3, Zenon DEF Least
  <2> QED BY <1>3, <2>1, Zenon DEF NextIs
<1>4. CASE S # {}
  <2>1. PICK n : n = Min(S)
    OBVIOUS
  <2>2. n \in S /\ \A l \in S : n <= l
    BY <1>2, <1>4, <2>1, LeastNumber, Zenon
  <2>3. NextRunFrom(w, from) = n
    BY <1>1, <1>4, <2>1, Zenon DEF Least
  <2>4. n # 0
    BY <2>2
  <2> QED BY <2>2, <2>3, <2>4, Zenon DEF NextIs
<1> QED BY <1>3, <1>4

LEMMA TurnedIsSelector ==
  ASSUME NEW w \in Selectors
  PROVE  TurnedAround(w) \in Selectors /\ \A lap \in Nat \ {0} : RunsOn(TurnedAround(w), lap) <=> ~RunsOn(w, lap)
<1>1. TurnedAround(w) \in Selectors
  BY DEF Selectors, TurnedAround
<1>2. PICK t : t = TurnedAround(w)
  OBVIOUS
<1>3. t.first = w.first /\ t.last = w.last /\ t.every = w.every /\ t.negate = ~w.negate /\ w.negate \in BOOLEAN
  BY <1>2 DEF Selectors, TurnedAround
<1>4. ASSUME NEW lap \in Nat \ {0} PROVE RunsOn(t, lap) <=> ~RunsOn(w, lap)
  <2>1. lap >= 1
    OBVIOUS
  <2>2. Matches(t, lap) <=> Matches(w, lap)
    BY <1>3, Zenon DEF Matches
  <2>3. Matches(t, lap) \in BOOLEAN /\ Matches(w, lap) \in BOOLEAN
    BY Zenon DEF Matches
  <2>4. CASE Matches(w, lap)
    <3>1. Matches(t, lap) = TRUE /\ Matches(w, lap) = TRUE
      BY <2>2, <2>3, <2>4, Zenon
    <3>2. CASE w.negate = TRUE
      <4>1. t.negate = FALSE
        BY <1>3, <3>2, Zenon
      <4> QED BY <2>1, <3>1, <3>2, <4>1, Zenon DEF RunsOn
    <3>3. CASE w.negate = FALSE
      <4>1. t.negate = TRUE
        BY <1>3, <3>3, Zenon
      <4> QED BY <2>1, <3>1, <3>3, <4>1, Zenon DEF RunsOn
    <3> QED BY <1>3, <3>2, <3>3
  <2>5. CASE ~Matches(w, lap)
    <3>1. Matches(t, lap) = FALSE /\ Matches(w, lap) = FALSE
      BY <2>2, <2>3, <2>5, Zenon
    <3>2. CASE w.negate = TRUE
      <4>1. t.negate = FALSE
        BY <1>3, <3>2, Zenon
      <4> QED BY <2>1, <3>1, <3>2, <4>1, Zenon DEF RunsOn
    <3>3. CASE w.negate = FALSE
      <4>1. t.negate = TRUE
        BY <1>3, <3>3, Zenon
      <4> QED BY <2>1, <3>1, <3>3, <4>1, Zenon DEF RunsOn
    <3> QED BY <1>3, <3>2, <3>3
  <2> QED BY <2>4, <2>5
<1> QED BY <1>1, <1>2, <1>4, Zenon

LEMMA WhensAreSelectors ==
  ASSUME NEW s, s.when \in Selectors, NEW rows_only
  PROVE  Whens(s, rows_only) \subseteq Selectors
<1>1. TurnedAround(s.when) \in Selectors
  BY TurnedIsSelector, Zenon
<1> QED BY <1>1, Zenon DEF Whens, TurnedAround

LEMMA NextLapIs ==
  ASSUME NEW script, NEW from, NEW rows_only
  PROVE  NextLap(script, from, rows_only) = Least(Candidates(script, from, rows_only) \ {0})
BY Zenon DEF NextLap, Candidates, Whens

\* The laps found: a lap at which a segment's selector runs, and none is passed over.
FoundLap(script, from, rows_only, n) ==
  /\ n = 0 => (\A i \in DOMAIN script.segments : \A w \in Whens(script.segments[i], rows_only) :
                 \A l \in from..MaxLap : ~RunsOn(w, l))
  /\ n # 0 => n \in from..MaxLap
              /\ (\A i \in DOMAIN script.segments : \A w \in Whens(script.segments[i], rows_only) :
                    \A l \in from..MaxLap : RunsOn(w, l) => n <= l)

LEMMA NextLapFound ==
  ASSUME NEW script, IsSegments(script.segments), NEW from \in 1..MaxLap, NEW rows_only
  PROVE  FoundLap(script, from, rows_only, NextLap(script, from, rows_only))
<1> DEFINE S == Candidates(script, from, rows_only) \ {0}
<1>1. ASSUME NEW i \in DOMAIN script.segments, NEW w \in Whens(script.segments[i], rows_only)
      PROVE  NextIs(w, from, NextRunFrom(w, from)) /\ NextRunFrom(w, from) \in Candidates(script, from, rows_only)
  <2>1. w \in Selectors
    BY WhensAreSelectors, Zenon DEF IsSegments, IsSegment
  <2>2. NextRunFrom(w, from) \in Candidates(script, from, rows_only)
    <3>1. PICK T : T = {NextRunFrom(u, from) : u \in Whens(script.segments[i], rows_only)}
      OBVIOUS
    <3>2. NextRunFrom(w, from) \in T
      BY <3>1, Zenon
    <3>3. T \in {{NextRunFrom(u, from) : u \in Whens(script.segments[j], rows_only)} : j \in DOMAIN script.segments}
      BY <3>1, Zenon
    <3> QED BY <3>2, <3>3, Zenon DEF Candidates
  <2> QED BY <2>1, <2>2, NextRunIs, Zenon
<1>2. ASSUME NEW n \in S PROVE n \in from..MaxLap
  <2>1. PICK i \in DOMAIN script.segments : \E w \in Whens(script.segments[i], rows_only) : n = NextRunFrom(w, from)
    <3>1. n \in Candidates(script, from, rows_only)
      BY Zenon
    <3>2. PICK T \in {{NextRunFrom(w, from) : w \in Whens(script.segments[j], rows_only)} : j \in DOMAIN script.segments} : n \in T
      BY <3>1, Zenon DEF Candidates
    <3>3. PICK j \in DOMAIN script.segments : T = {NextRunFrom(w, from) : w \in Whens(script.segments[j], rows_only)}
      BY <3>2, Zenon
    <3> QED BY <3>2, <3>3, Zenon
  <2>2. PICK w \in Whens(script.segments[i], rows_only) : n = NextRunFrom(w, from)
    BY <2>1, Zenon
  <2>3. NextIs(w, from, n) /\ n # 0
    BY <1>1, <2>2, Zenon
  <2> QED BY <2>3, Zenon DEF NextIs
<1>3. S \subseteq Nat
  <2>1. from..MaxLap \subseteq Nat
    BY LapsAssumption
  <2> QED BY <1>2, <2>1, Zenon
<1>4. CASE S = {}
  <2>1. NextLap(script, from, rows_only) = 0
    BY <1>4, NextLapIs, Zenon DEF Least
  <2>2. ASSUME NEW i \in DOMAIN script.segments, NEW w \in Whens(script.segments[i], rows_only),
               NEW l \in from..MaxLap
        PROVE  ~RunsOn(w, l)
    <3>1. NextRunFrom(w, from) = 0
      BY <1>1, <1>4, Zenon
    <3> QED BY <1>1, <3>1, Zenon DEF NextIs
  <2> QED BY <2>1, <2>2, Zenon DEF FoundLap
<1>5. CASE S # {}
  <2>1. PICK n : n = Min(S)
    OBVIOUS
  <2>2. n \in S /\ \A l \in S : n <= l
    BY <1>3, <1>5, <2>1, LeastNumber, Zenon
  <2>3. NextLap(script, from, rows_only) = n
    BY <1>5, <2>1, NextLapIs, Zenon DEF Least
  <2>4. n # 0 /\ n \in from..MaxLap
    BY <1>2, <2>2, Zenon
  <2>5. ASSUME NEW i \in DOMAIN script.segments, NEW w \in Whens(script.segments[i], rows_only),
               NEW l \in from..MaxLap, RunsOn(w, l)
        PROVE  n <= l
    <3>1. PICK m : m = NextRunFrom(w, from)
      OBVIOUS
    <3>2. NextIs(w, from, m) /\ m \in Candidates(script, from, rows_only)
      BY <1>1, <3>1, Zenon
    <3>3. m # 0
      BY <2>5, <3>2, Zenon DEF NextIs
    <3>4. m \in from..MaxLap /\ m <= l
      BY <2>5, <3>2, <3>3, Zenon DEF NextIs
    <3>5. n <= m
      BY <2>2, <3>2, <3>3, Zenon
    <3> QED BY <2>4, <3>4, <3>5
  <2> QED BY <2>3, <2>4, <2>5, Zenon DEF FoundLap
<1> QED BY <1>4, <1>5

\* A lap with a row is also one with a row or a wait.
LEMMA RowsAreFound ==
  ASSUME NEW script, IsSegments(script.segments), NEW from \in 1..MaxLap, NextLap(script, from, TRUE) # 0
  PROVE  NextLap(script, from, FALSE) # 0
<1>1. ASSUME NextLap(script, from, FALSE) = 0 PROVE FALSE
  <2>1. PICK n : n = NextLap(script, from, TRUE)
    OBVIOUS
  <2>2. \A i \in DOMAIN script.segments : Whens(script.segments[i], TRUE) \subseteq Whens(script.segments[i], FALSE)
    BY Zenon DEF Whens
  <2>3. \A i \in DOMAIN script.segments : \A w \in Whens(script.segments[i], TRUE) : \A l \in from..MaxLap : ~RunsOn(w, l)
    BY <1>1, <2>2, NextLapFound, Zenon DEF FoundLap
  <2>4. Candidates(script, from, TRUE) \subseteq {0}
    <3>1. ASSUME NEW i \in DOMAIN script.segments, NEW w \in Whens(script.segments[i], TRUE)
          PROVE  NextRunFrom(w, from) = 0
      <4>1. w \in Selectors
        BY WhensAreSelectors, Zenon DEF IsSegments, IsSegment
      <4> QED BY <2>3, <4>1, NextRunIs, Zenon DEF NextIs
    <3> QED BY <3>1, Zenon DEF Candidates
  <2>5. Candidates(script, from, TRUE) \ {0} = {}
    BY <2>4, Zenon
  <2> QED BY <2>5, NextLapIs, Zenon DEF Least
<1> QED BY <1>1

-----------------------------------------------------------------------------
(* The playback: where the walk is, and what the clock counts from         *)

\* There is a walk.
Playing == mode \in {"playing", "paused"}

\* The rows of this lap that were passed were sent, or are due before where playback began.
PassedRows(script, lap, w, rows, from) ==
  \A i \in 1..Len(script.segments), row \in Nat :
    InSegment(script.segments, i, row) /\ RunsOn(script.segments[i].when, lap) /\ row < w.row =>
      row \in rows \/ Begins(script.segments, script.rows, i, row, lap) < from

\* The types of what the clock counts from.
PlayTypes ==
  /\ now \in Nat /\ offset \in Int
  /\ anchor \in [real : Int, script : Int, offset : Int, speed : PlayedSpeeds]
  /\ base \in [real : Int, script : Int, laps : Nat, from : Int]
  /\ pause_position \in [lap : Int, time : Int]

\* What the clock is set to, and what it was set to and has counted since.
AnchorInv ==
  /\ anchor.real - anchor.offset = base.real + Scaled(base.laps + anchor.script - base.script, anchor.speed)
  /\ anchor.script = 0 \/ base.laps + anchor.script - base.script = 0

\* The walk stands somewhere on a lap of a script that was taken, and what it passed was sent.
WalkInv ==
  /\ Accepted /\ walk.lap \in 1..(MaxLap \div 2) /\ Place(Script, walk.lap, walk)
  /\ PassedRows(Script, walk.lap, walk, sent, base.from)

\* Where playback stands, and what the clock counts from.
PlaceInv == PlayTypes /\ AnchorInv /\ (Playing => WalkInv)

\* The invariant: what is known of the script that was read, and where its playback stands.
PlayInv == TimedInv /\ PlaceInv

LEMMA ScriptIsGood == ASSUME TimedInv, Accepted PROVE Good(Script)
<1>1. Playable(reader.segments, reader.rows, 0)
  <2>1. 0 \in Nat
    OBVIOUS
  <2> QED BY <2>1, Zenon DEF TimedInv, ScriptInv
<1>2. Script.segments = reader.segments /\ Script.rows = reader.rows
  BY DEF Script
<1> QED BY <1>1, <1>2, Zenon DEF Playable, Times, Good

LEMMA HalfOfLaps == MaxLap \in Nat /\ MaxLap \div 2 \in Nat /\ 1 <= MaxLap \div 2 /\ MaxLap \div 2 + 1 <= MaxLap
BY LapsAssumption, TimelineAssumption

\* clamp()
LEMMA Clamped ==
  ASSUME Good(Script), NEW position, position.lap \in Int, position.time \in Int
  PROVE  /\ Clamp(position).lap \in 1..(MaxLap \div 2) /\ Clamp(position).time \in Nat
         /\ Clamp(position) \in [lap : Int, time : Int]
<1>1. PICK half \in Nat : half = MaxLap \div 2 /\ 1 <= half
  BY HalfOfLaps
<1>2. PICK a \in Int : a = position.lap
  OBVIOUS
<1>3. PICK t \in Int : t = position.time
  OBVIOUS
<1>4. PICK b \in Int : b = Max({a, 1}) /\ b >= 1
  <2>1. Max({a, 1}) = IF a >= 1 THEN a ELSE 1
    BY LargerOf
  <2> QED BY <2>1
<1>5. PICK lap \in 1..half : lap = Min({b, half})
  <2>1. Min({b, half}) = IF b <= half THEN b ELSE half
    BY SmallerOf
  <2> QED BY <1>1, <1>4, <2>1
<1>6. PICK u \in Int : u = Max({t, 0}) /\ u >= 0
  <2>1. Max({t, 0}) = IF t >= 0 THEN t ELSE 0
    BY LargerOf
  <2> QED BY <2>1
<1>7. PICK length \in Nat : length = LapLength(Script, lap)
  BY LapLengthType, Zenon DEF Good
<1>8. PICK time \in Nat : time = Min({u, length})
  <2>1. Min({u, length}) = IF u <= length THEN u ELSE length
    BY SmallerOf
  <2> QED BY <1>6, <2>1
<1>9. Clamp(position) = [lap |-> lap, time |-> time]
  BY <1>1, <1>2, <1>3, <1>4, <1>5, <1>6, <1>7, <1>8, Zenon DEF Clamp, Position
<1> QED BY <1>1, <1>9

\* The script does not change.
SameScript == reader' = reader /\ Script' = Script /\ (Accepted' <=> Accepted)

LEMMA ScriptStays == ASSUME UNCHANGED readerVars PROVE SameScript
BY DEF readerVars, Script, Accepted, SameScript

LEMMA SpeedType == ASSUME PlayTypes PROVE anchor.speed \in PlayedSpeeds /\ anchor.speed \in Nat \ {0} /\ TimeNow \in Int
<1>1. anchor.speed \in PlayedSpeeds /\ anchor.real \in Int /\ anchor.script \in Int /\ anchor.offset \in Int
  BY DEF PlayTypes
<1>2. anchor.speed \in Nat \ {0}
  <2>1. PICK speed \in PlayedSpeeds : speed = anchor.speed
    BY <1>1, Zenon
  <2>2. speed \in Nat \ {0}
    BY TimelineAssumption DEF PlayedSpeeds
  <2> QED BY <2>1, <2>2, Zenon
<1>3. PICK speed \in Int : speed = anchor.speed
  BY <1>2
<1>4. PICK span \in Int : span = now - anchor.real - offset + anchor.offset
  BY <1>1 DEF PlayTypes
<1>5. span * speed \in Int
  OBVIOUS
<1>6. TimeNow \in Int
  <2>1. TimeNow = anchor.script + span * speed
    BY <1>3, <1>4, Zenon DEF TimeNow
  <2>2. PICK more \in Int : more = span * speed
    BY <1>5
  <2>3. PICK start \in Int : start = anchor.script
    BY <1>1
  <2>4. start + more \in Int
    OBVIOUS
  <2> QED BY <2>1, <2>2, <2>3, <2>4, Zenon
<1> QED BY <1>1, <1>2, <1>6

LEMMA NothingScaled == ASSUME NEW speed \in Nat \ {0} PROVE Scaled(0, speed) = 0
<1>1. 0 \in Int /\ 0 \in Nat /\ 0 = speed * 0 /\ 0 % speed = 0
  <2>1. 0 \in Int /\ 0 \in Nat /\ 0 = speed * 0
    OBVIOUS
  <2> QED BY <2>1, WholeSteps
<1> QED BY <1>1, ScaledAdds, Zenon

\* jump(): the clock and the walk start over.
LEMMA JumpPlaces ==
  ASSUME TimedInv, PlayTypes, Accepted, UNCHANGED readerVars, NEW position,
         position.lap \in Int, position.time \in Int, Jump(position, anchor.speed),
         now' = now, offset' = offset
  PROVE  /\ AnchorInv' /\ WalkInv'
         /\ anchor' \in [real : Int, script : Int, offset : Int, speed : PlayedSpeeds]
         /\ base' \in [real : Int, script : Int, laps : Nat, from : Int]
<1>1. Good(Script)
  BY ScriptIsGood
<1>2. PICK target : target = Clamp(position)
  OBVIOUS
<1>3. PICK lap \in 1..(MaxLap \div 2) : lap = target.lap
  BY <1>1, <1>2, Clamped
<1>4. PICK time \in Nat : time = target.time
  BY <1>1, <1>2, Clamped
<1>5. PICK speed \in PlayedSpeeds : speed = anchor.speed /\ speed \in Nat \ {0}
  BY SpeedType
<1>6. /\ walk' = SeekTo(Script, lap, time) /\ sent' = {}
      /\ anchor' = [real |-> now, script |-> time, offset |-> offset, speed |-> speed]
      /\ base' = [real |-> now - offset, script |-> time, laps |-> 0, from |-> time]
  BY <1>2, <1>3, <1>4, <1>5, Zenon DEF Jump
<1>7. now \in Int /\ offset \in Int /\ now - offset \in Int /\ time \in Int /\ lap \in Nat
  BY <1>3, HalfOfLaps DEF PlayTypes
<1>8. AnchorInv'
  <2>1. anchor'.real = now /\ anchor'.offset = offset /\ anchor'.script = time /\ anchor'.speed = speed
    BY <1>6
  <2>2. base'.real = now - offset /\ base'.laps = 0 /\ base'.script = time
    BY <1>6
  <2>3. 0 + time - time = 0
    BY <1>7
  <2>4. Scaled(0, speed) = 0
    BY <1>5, NothingScaled
  <2>5. now - offset = now - offset + 0
    BY <1>7
  <2> QED BY <2>1, <2>2, <2>3, <2>4, <2>5, Zenon DEF AnchorInv, Scaled
<1>9. WalkInv'
  <2>1. Place(Script, lap, walk') /\ SkippedEarlier(Script, lap, time, walk')
    BY <1>1, <1>6, <1>7, SeekPlaces, Zenon
  <2>2. walk'.lap = lap
    BY <2>1, Zenon DEF Place
  <2>3. SameScript
    BY ScriptStays, Zenon
  <2>4. base'.from = time
    BY <1>6
  <2>5. PassedRows(Script, lap, walk', sent', base'.from)
    BY <2>1, <2>4, Zenon DEF PassedRows, SkippedEarlier
  <2> QED BY <1>3, <2>1, <2>2, <2>3, <2>5, Zenon DEF WalkInv, SameScript
<1>10. anchor' \in [real : Int, script : Int, offset : Int, speed : PlayedSpeeds]
  BY <1>6, <1>7
<1>11. base' \in [real : Int, script : Int, laps : Nat, from : Int]
  BY <1>6, <1>7
<1> QED BY <1>8, <1>9, <1>10, <1>11, Zenon

-----------------------------------------------------------------------------
(* Every step keeps them                                                   *)

LEMMA PlayInit == Init => PlayInv
<1> SUFFICES ASSUME Init PROVE PlayInv
  OBVIOUS
<1>1. TimedInv
  BY TimedInit
<1>2. PlayTypes
  BY DEF Init, TimelineInit, PlayTypes, PlayedSpeeds, Position
<1>3. AnchorInv
  <2>1. 1 \in Nat \ {0}
    OBVIOUS
  <2>2. Scaled(0, 1) = 0
    BY <2>1, NothingScaled
  <2>3. anchor.real = 0 /\ anchor.script = 0 /\ anchor.offset = 0 /\ anchor.speed = 1
    BY DEF Init, TimelineInit
  <2>4. base.real = 0 /\ base.script = 0 /\ base.laps = 0
    BY DEF Init, TimelineInit
  <2>5. 0 - 0 = 0 + 0 /\ 0 + 0 - 0 = 0
    OBVIOUS
  <2> QED BY <2>2, <2>3, <2>4, <2>5, Zenon DEF AnchorInv
<1>4. ~Playing
  BY DEF Init, TimelineInit, Playing
<1> QED BY <1>1, <1>2, <1>3, <1>4 DEF PlayInv, PlaceInv

LEMMA Unmoved ==
  ASSUME UNCHANGED readerVars, UNCHANGED <<walk, anchor, base, sent>>
  PROVE  (AnchorInv => AnchorInv') /\ (WalkInv => WalkInv')
<1>1. walk' = walk /\ anchor' = anchor /\ base' = base /\ sent' = sent
  OBVIOUS
<1>2. SameScript
  BY ScriptStays
<1> QED BY <1>1, <1>2, Zenon DEF AnchorInv, WalkInv, SameScript

LEMMA PlayReads == ASSUME PlayInv, ReaderNext, UNCHANGED playVars PROVE PlaceInv'
<1>1. ~reader.done
  BY DEF ReaderNext, Read, EndOfFile
<1>2. ~Playing
  BY <1>1, Zenon DEF PlayInv, PlaceInv, WalkInv, Accepted
<1>3. now' = now /\ offset' = offset /\ anchor' = anchor /\ base' = base /\ pause_position' = pause_position /\ mode' = mode
  BY DEF playVars
<1> QED BY <1>2, <1>3, Zenon DEF PlayInv, PlaceInv, PlayTypes, AnchorInv, Playing

LEMMA PlayTicks == ASSUME PlayInv, Tick, UNCHANGED readerVars PROVE PlaceInv'
<1>1. AnchorInv' /\ (Playing => WalkInv')
  <2>1. UNCHANGED <<walk, anchor, base, sent>>
    BY DEF Tick
  <2> QED BY <2>1, Unmoved, Zenon DEF PlayInv, PlaceInv
<1>2. PlayTypes'
  BY DEF Tick, PlayTypes, PlayInv, PlaceInv
<1>3. Playing' <=> Playing
  BY DEF Tick, Playing
<1> QED BY <1>1, <1>2, <1>3, Zenon DEF PlaceInv

LEMMA PlayPauses == ASSUME PlayInv, Pause, UNCHANGED readerVars PROVE PlaceInv'
<1>1. AnchorInv' /\ WalkInv'
  <2>1. UNCHANGED <<walk, anchor, base, sent>> /\ Playing
    BY DEF Pause, Playing
  <2> QED BY <2>1, Unmoved, Zenon DEF PlayInv, PlaceInv
<1>2. pause_position' \in [lap : Int, time : Int]
  <2>1. Playing
    BY DEF Pause, Playing
  <2>2. WalkInv /\ PlayTypes /\ TimedInv
    BY <2>1, Zenon DEF PlayInv, PlaceInv
  <2>3. Good(Script)
    BY <2>2, ScriptIsGood, Zenon DEF WalkInv
  <2>4. PICK there : there = Position(walk.lap, TimeNow)
    OBVIOUS
  <2>5. walk.lap \in Int /\ TimeNow \in Int
    BY <2>2, SpeedType, HalfOfLaps DEF WalkInv
  <2>6. there.lap \in Int /\ there.time \in Int
    BY <2>4, <2>5 DEF Position
  <2>7. pause_position' = Clamp(there)
    BY <2>4, Zenon DEF Pause
  <2> QED BY <2>3, <2>6, <2>7, Clamped, Zenon
<1>3. now' = now /\ offset' = offset /\ anchor' = anchor /\ base' = base
  BY DEF Pause
<1>4. PlayTypes'
  BY <1>2, <1>3, Zenon DEF PlayTypes, PlayInv, PlaceInv
<1> QED BY <1>1, <1>4, Zenon DEF PlaceInv

LEMMA PlayEnds == ASSUME PlayInv, FinishScript, UNCHANGED readerVars PROVE PlaceInv'
<1>1. AnchorInv'
  <2>1. UNCHANGED <<walk, anchor, base, sent>>
    BY DEF FinishScript
  <2> QED BY <2>1, Unmoved, Zenon DEF PlayInv, PlaceInv
<1>2. now' = now /\ offset' = offset /\ anchor' = anchor /\ base' = base /\ pause_position' = pause_position /\ mode' = "stopped"
  BY DEF FinishScript
<1>3. ~Playing'
  BY <1>2 DEF Playing
<1> QED BY <1>1, <1>2, <1>3, Zenon DEF PlaceInv, PlayTypes, PlayInv

LEMMA OffsetMoves == ASSUME PlayInv, NEW value \in Offsets, SetOffset(value), UNCHANGED readerVars PROVE PlaceInv'
<1>1. AnchorInv' /\ (Playing => WalkInv')
  <2>1. UNCHANGED <<walk, anchor, base, sent>>
    BY DEF SetOffset
  <2> QED BY <2>1, Unmoved, Zenon DEF PlayInv, PlaceInv
<1>2. now' = now /\ anchor' = anchor /\ base' = base /\ pause_position' = pause_position /\ mode' = mode /\ offset' = value
  BY DEF SetOffset
<1>3. value \in Int
  BY TimelineAssumption
<1> QED BY <1>1, <1>2, <1>3, Zenon DEF PlaceInv, PlayTypes, PlayInv, Playing

LEMMA JumpKeeps ==
  ASSUME PlayInv, Accepted, UNCHANGED readerVars, NEW position, position.lap \in Int, position.time \in Int,
         Jump(position, anchor.speed), now' = now, offset' = offset, pause_position' = pause_position
  PROVE  PlaceInv'
<1>1. TimedInv /\ PlayTypes
  BY DEF PlayInv, PlaceInv
<1>2. /\ AnchorInv' /\ WalkInv'
      /\ anchor' \in [real : Int, script : Int, offset : Int, speed : PlayedSpeeds]
      /\ base' \in [real : Int, script : Int, laps : Nat, from : Int]
  BY <1>1, JumpPlaces, Zenon
<1> QED BY <1>1, <1>2, Zenon DEF PlaceInv, PlayTypes

LEMMA PlayStarts ==
  ASSUME PlayInv, NEW lap \in Nat, NEW time \in Nat, Play(Position(lap, time)), UNCHANGED readerVars
  PROVE  PlaceInv'
<1>1. PICK start : start = Position(lap, time)
  OBVIOUS
<1>2. start.lap \in Int /\ start.time \in Int
  BY <1>1 DEF Position
<1>3. Accepted /\ Jump(start, anchor.speed) /\ now' = now /\ offset' = offset /\ pause_position' = pause_position
  BY <1>1, Zenon DEF Play
<1> QED BY <1>2, <1>3, JumpKeeps, Zenon

LEMMA PlayResumes == ASSUME PlayInv, Resume, UNCHANGED readerVars PROVE PlaceInv'
<1>1. Playing
  BY DEF Resume, Playing
<1>2. Accepted
  BY <1>1, Zenon DEF PlayInv, PlaceInv, WalkInv
<1>3. pause_position.lap \in Int /\ pause_position.time \in Int
  BY DEF PlayInv, PlaceInv, PlayTypes
<1>4. Jump(pause_position, anchor.speed) /\ now' = now /\ offset' = offset /\ pause_position' = pause_position
  BY Zenon DEF Resume
<1> QED BY <1>2, <1>3, <1>4, JumpKeeps, Zenon

LEMMA PlaySeeks ==
  ASSUME PlayInv, NEW position, position.lap \in Int, position.time \in Int, Seek(position), UNCHANGED readerVars
  PROVE  PlaceInv'
<1>1. Playing /\ now' = now /\ offset' = offset /\ mode' = mode
  BY DEF Seek, Playing
<1>2. Accepted /\ TimedInv
  BY <1>1, Zenon DEF PlayInv, PlaceInv, WalkInv
<1>3. CASE Jump(position, anchor.speed) /\ pause_position' = pause_position
  BY <1>1, <1>2, <1>3, JumpKeeps, Zenon
<1>4. CASE pause_position' = Clamp(position) /\ UNCHANGED <<walk, cursor, anchor, live, base, sent>>
  <2>1. UNCHANGED <<walk, anchor, base, sent>>
    BY <1>4
  <2>2. AnchorInv' /\ WalkInv'
    BY <1>1, <2>1, Unmoved, Zenon DEF PlayInv, PlaceInv
  <2>3. Good(Script)
    BY <1>2, ScriptIsGood
  <2>4. pause_position' \in [lap : Int, time : Int]
    BY <1>4, <2>3, Clamped, Zenon
  <2>5. anchor' = anchor /\ base' = base
    BY <2>1
  <2> QED BY <1>1, <2>2, <2>4, <2>5, Zenon DEF PlaceInv, PlayTypes, PlayInv
<1> QED BY <1>3, <1>4 DEF Seek

LEMMA SpeedChanges ==
  ASSUME PlayInv, NEW speed \in Speeds, SetSpeed(speed), UNCHANGED readerVars
  PROVE  PlaceInv'
<1>1. PlayTypes /\ WalkInv
  BY DEF PlayInv, PlaceInv, SetSpeed, Playing
<1>2. PICK time \in Int : time = TimeNow
  BY <1>1, SpeedType
<1>3. /\ anchor' = [real |-> now, script |-> time, offset |-> offset, speed |-> speed]
      /\ base' = [base EXCEPT !.real = now - offset, !.script = time, !.laps = 0]
      /\ walk' = walk /\ sent' = sent /\ now' = now /\ offset' = offset /\ pause_position' = pause_position
  BY <1>2, Zenon DEF SetSpeed
<1>4. now \in Int /\ offset \in Int /\ now - offset \in Int /\ speed \in Nat \ {0} /\ speed \in PlayedSpeeds
  BY <1>1, TimelineAssumption DEF PlayTypes, PlayedSpeeds
<1>5. base'.real = now - offset /\ base'.script = time /\ base'.laps = 0 /\ base'.from = base.from
  BY <1>1, <1>3 DEF PlayTypes
<1>6. base' \in [real : Int, script : Int, laps : Nat, from : Int]
  BY <1>1, <1>3, <1>4 DEF PlayTypes
<1>7. anchor' \in [real : Int, script : Int, offset : Int, speed : PlayedSpeeds]
  BY <1>3, <1>4
<1>8. AnchorInv'
  <2>1. anchor'.real = now /\ anchor'.offset = offset /\ anchor'.script = time /\ anchor'.speed = speed
    BY <1>3
  <2>2. 0 + time - time = 0
    OBVIOUS
  <2>3. Scaled(0, speed) = 0
    BY <1>4, NothingScaled
  <2>4. now - offset = now - offset + 0
    BY <1>4
  <2> QED BY <1>5, <2>1, <2>2, <2>3, <2>4, Zenon DEF AnchorInv, Scaled
<1>9. WalkInv'
  <2>1. SameScript
    BY ScriptStays
  <2> QED BY <1>1, <1>3, <1>5, <2>1, Zenon DEF WalkInv, SameScript
<1> QED BY <1>1, <1>3, <1>6, <1>7, <1>8, <1>9, Zenon DEF PlaceInv, PlayTypes

-----------------------------------------------------------------------------
(* When lines and laps are due                                             *)

LEMMA DueIsWhole ==
  ASSUME TimedInv, Accepted, NEW lap, NEW line \in 1..Number, NEW speed \in PlayedSpeeds
  PROVE  DueOn(lap, line) \in Nat /\ DueOn(lap, line) % speed = 0
<1>1. FormatInv /\ DataFits
  BY Zenon DEF TimedInv, ScriptInv
<1>2. Len(lines) \in Nat /\ DOMAIN lines = 1..Len(lines)
  BY <1>1 DEF FormatInv
<1>3. PICK n \in 0..Len(lines) : n = line - 1
  BY <1>2 DEF Number
<1>4. \A i \in 1..n : i \in DOMAIN lines
  BY <1>2
<1>5. \A i \in 1..n : Whole(WaitsOn(lap), i, speed)
  BY <1>1, <1>4, WaitsAreWhole, Zenon
<1>6. speed \in Nat \ {0} /\ n \in Nat
  BY TimelineAssumption DEF PlayedSpeeds
<1>7. SumOver(WaitsOn(lap), 1, n) \in Nat /\ SumOver(WaitsOn(lap), 1, n) % speed = 0
  BY <1>5, <1>6, SumIsWhole, Zenon
<1> QED BY <1>3, <1>7, Zenon DEF DueOn

LEMMA LapIsWritten ==
  ASSUME TimedInv, Accepted, NEW lap \in Nat
  PROVE  /\ LapLength(Script, lap) = DueOn(lap, Len(lines) + 1)
         /\ Len(lines) + 1 \in 1..Number /\ Len(lines) \in Nat
<1>1. Playable(reader.segments, reader.rows, lap)
  BY Zenon DEF TimedInv, ScriptInv
<1>2. Len(lines) \in Nat
  BY DEF TimedInv, FormatInv
<1>3. Total(reader.segments, lap, Len(reader.segments)) = SumOver(WaitsOn(lap), 1, Number - 1)
  BY <1>1, Zenon DEF Playable, Times, Totals, Total
<1>4. Script.segments = reader.segments
  BY DEF Script
<1>5. LapLength(Script, lap) = SumOver(WaitsOn(lap), 1, Number - 1)
  BY <1>3, <1>4, LapLengthIs, Zenon
<1>6. Len(lines) + 1 \in 1..Number
  BY <1>2 DEF Number
<1> QED BY <1>2, <1>5, <1>6, Zenon DEF DueOn, Number

LEMMA RowIsWritten ==
  ASSUME TimedInv, Accepted, NEW lap \in Nat, NEW i \in 1..Len(Script.segments),
         NEW row \in 1..Len(Script.rows), InSegment(Script.segments, i, row),
         RunsOn(Script.segments[i].when, lap)
  PROVE  /\ Begins(Script.segments, Script.rows, i, row, lap) = DueOn(lap, LineOf(row))
         /\ LineOf(row) \in 1..Number
<1>1. Playable(reader.segments, reader.rows, lap)
  BY Zenon DEF TimedInv, ScriptInv
<1>2. Script.segments = reader.segments /\ Script.rows = reader.rows
  BY DEF Script
<1>3. Begins(reader.segments, reader.rows, i, row, lap) = SumOver(WaitsOn(lap), 1, RowLines[row] - 1)
  BY <1>1, <1>2, Zenon DEF Playable, Times, Dues
<1>4. LineOf(row) \in 1..(Number - 1)
  BY <1>2, Zenon DEF TimedInv, ScriptInv
<1>5. Len(lines) \in Nat
  BY DEF TimedInv, FormatInv
<1>6. LineOf(row) \in 1..Number
  BY <1>4, <1>5 DEF Number
<1> QED BY <1>2, <1>3, <1>6, Zenon DEF DueOn, LineOf

\* A walk's row is due after the lines above it.
WalkDue(w) == DueOn(w.lap, IF w.done THEN Len(lines) + 1 ELSE LineOf(w.row))

LEMMA WalkIsDue ==
  ASSUME TimedInv, Accepted, NEW w, w.lap \in Nat, Place(Script, w.lap, w), NEW speed \in PlayedSpeeds
  PROVE  w.due = WalkDue(w) /\ w.due \in Nat /\ w.due % speed = 0
<1>1. Good(Script)
  BY ScriptIsGood
<1>2. PICK lap \in Nat : lap = w.lap
  OBVIOUS
<1>3. CASE w.done = TRUE
  <2>1. ~AtRow(Script, lap, w)
    BY <1>3 DEF AtRow
  <2>2. w.due = w.length /\ w.length = LapLength(Script, lap)
    BY <1>2, <2>1, Zenon DEF Place, AtEnd
  <2>3. w.due = DueOn(lap, Len(lines) + 1) /\ Len(lines) + 1 \in 1..Number
    BY <2>2, LapIsWritten, Zenon
  <2>4. WalkDue(w) = DueOn(lap, Len(lines) + 1)
    BY <1>2, <1>3, Zenon DEF WalkDue
  <2> QED BY <2>3, <2>4, DueIsWhole, Zenon
<1>4. CASE w.done # TRUE
  <2>1. AtRow(Script, lap, w) /\ w.row \in 1..Len(Script.rows)
    BY <1>1, <1>2, <1>4, PlaceRow, Zenon
  <2>2. w.done = FALSE
    BY <2>1, Zenon DEF AtRow
  <2>3. PICK i \in 1..Len(Script.segments) : i = w.segment
    BY <2>1, Zenon DEF AtRow
  <2>4. /\ InSegment(Script.segments, i, w.row) /\ RunsOn(Script.segments[i].when, lap)
        /\ w.due = Begins(Script.segments, Script.rows, i, w.row, lap)
    BY <2>1, <2>3, Zenon DEF AtRow
  <2>5. w.due = DueOn(lap, LineOf(w.row)) /\ LineOf(w.row) \in 1..Number
    BY <2>1, <2>4, RowIsWritten, Zenon
  <2>6. WalkDue(w) = DueOn(lap, LineOf(w.row))
    BY <1>2, <2>2, Zenon DEF WalkDue
  <2> QED BY <2>5, <2>6, DueIsWhole, Zenon
<1> QED BY <1>3, <1>4

-----------------------------------------------------------------------------
(* A row, and a lap's end                                                  *)

LEMMA DoneOrNot ==
  ASSUME NEW lap, NEW w, Place(Script, lap, w)
  PROVE  (w.done <=> w.done = TRUE) /\ (~w.done <=> w.done # TRUE)
BY DEF Place, AtRow, AtEnd

LEMMA RowSent == ASSUME PlayInv, Row, UNCHANGED readerVars PROVE PlaceInv'
<1>1. Playing /\ mode' = mode
  BY DEF Row, Due, Playing
<1>2. WalkInv /\ TimedInv /\ PlayTypes /\ AnchorInv
  BY <1>1, Zenon DEF PlayInv, PlaceInv
<1>3. Good(Script) /\ SameScript
  BY <1>2, ScriptIsGood, ScriptStays, Zenon DEF WalkInv
<1>4. PICK lap \in 1..(MaxLap \div 2) : lap = walk.lap /\ Place(Script, lap, walk)
  BY <1>2, Zenon DEF WalkInv
<1>5. walk' = Walk(Script, walk) /\ walk.done # TRUE
  BY <1>4, DoneOrNot, Zenon DEF Row
<1>6. Next1(Script, lap, walk, walk')
  BY <1>3, <1>4, <1>5, WalkPlaces, Zenon
<1>7. walk'.lap = lap
  BY <1>6, Zenon DEF Next1, Place
<1>8. sent' = sent \union {walk.row} /\ anchor' = anchor /\ base' = base /\ now' = now /\ offset' = offset
      /\ pause_position' = pause_position
  BY DEF Row
<1>9. PassedRows(Script, lap, walk', sent', base'.from)
  <2>1. ASSUME NEW i \in 1..Len(Script.segments), NEW row \in Nat, InSegment(Script.segments, i, row),
               RunsOn(Script.segments[i].when, lap), row < walk'.row
        PROVE  row \in sent' \/ Begins(Script.segments, Script.rows, i, row, lap) < base'.from
    <3>1. RowRuns(Script, row, lap)
      BY <1>3, <2>1, RunsInSegment, Zenon
    <3>2. row <= walk.row \/ walk'.row <= row
      BY <1>6, <3>1, Zenon DEF Next1, NoneBetween
    <3>3. Len(Script.rows) \in Nat
      BY <1>3, GoodScript, Zenon
    <3>4. walk'.row \in Nat /\ walk.row \in Nat
      BY <1>6, <3>3 DEF Next1
    <3>5. row <= walk.row
      BY <2>1, <3>2, <3>4
    <3>6. CASE row = walk.row
      BY <1>8, <3>6
    <3>7. CASE row # walk.row
      <4>1. row < walk.row
        BY <3>4, <3>5, <3>7
      <4>2. row \in sent \/ Begins(Script.segments, Script.rows, i, row, lap) < base.from
        BY <1>2, <1>4, <2>1, <4>1, Zenon DEF WalkInv, PassedRows
      <4> QED BY <1>8, <4>2, Zenon
    <3> QED BY <3>6, <3>7
  <2> QED BY <2>1, Zenon DEF PassedRows
<1>10. WalkInv'
  BY <1>2, <1>3, <1>4, <1>6, <1>7, <1>9, Zenon DEF WalkInv, Next1, SameScript
<1> QED BY <1>2, <1>8, <1>10, Zenon DEF PlaceInv, PlayTypes, AnchorInv

\* The next lap of playback.
LEMMA NextIsLap ==
  ASSUME TimedInv, Accepted, NEW ended \in 1..(MaxLap \div 2), NEW next,
         next = NextLap(Script, ended + 1, FALSE), NextLap(Script, ended + 1, TRUE) # 0, next <= LoopLimit
  PROVE  next \in 1..(MaxLap \div 2) /\ next \in (ended + 1)..MaxLap /\ FoundLap(Script, ended + 1, FALSE, next)
<1>1. PICK from \in 1..MaxLap : from = ended + 1
  BY HalfOfLaps
<1>2. IsSegments(Script.segments)
  BY ScriptIsGood, Zenon DEF Good
<1>3. next # 0 /\ FoundLap(Script, from, FALSE, next)
  BY <1>1, <1>2, NextLapFound, RowsAreFound, Zenon
<1>4. next \in from..MaxLap
  BY <1>3, Zenon DEF FoundLap
<1>5. PICK half \in Nat : half = MaxLap \div 2 /\ LoopLimit \in 0..half
  BY HalfOfLaps, TimelineAssumption
<1>6. next \in 1..half
  <2>10. \A x \in from..MaxLap : x \in Nat /\ 1 <= x
    BY LapsAssumption
  <2>1. PICK m \in Nat : m = next /\ 1 <= m
    BY <1>4, <2>10, Zenon
  <2>2. PICK limit \in 0..half : limit = LoopLimit
    BY <1>5
  <2>3. m <= limit
    BY <2>1, <2>2, Zenon
  <2>4. \A x \in Nat, y \in 0..half : 1 <= x /\ x <= y => x \in 1..half
    OBVIOUS
  <2> QED BY <2>1, <2>2, <2>3, <2>4, Zenon
<1> QED BY <1>1, <1>3, <1>4, <1>5, <1>6, Zenon

LEMMA AnchorPut ==
  ASSUME NEW a \in [real : Int, script : Int, offset : Int, speed : PlayedSpeeds], NEW b \in Int, NEW c \in Int
  PROVE  [a EXCEPT !.real = b, !.script = c] \in [real : Int, script : Int, offset : Int, speed : PlayedSpeeds]
OBVIOUS

LEMMA BasePut ==
  ASSUME NEW a \in [real : Int, script : Int, laps : Nat, from : Int], NEW b \in Nat, NEW c \in Int
  PROVE  [a EXCEPT !.laps = b, !.from = c] \in [real : Int, script : Int, laps : Nat, from : Int]
OBVIOUS

LEMMA LapEnds == ASSUME PlayInv, FinishLap, UNCHANGED readerVars PROVE PlaceInv'
<1>1. Playing /\ mode' = mode
  BY DEF FinishLap, Due, Playing
<1>2. WalkInv /\ TimedInv /\ PlayTypes /\ AnchorInv /\ Accepted
  BY <1>1, Zenon DEF PlayInv, PlaceInv, WalkInv
<1>3. Good(Script) /\ SameScript
  BY <1>2, ScriptIsGood, ScriptStays, Zenon
<1>4. PICK ended \in 1..(MaxLap \div 2) : ended = walk.lap /\ Place(Script, ended, walk)
  BY <1>2, Zenon DEF WalkInv
<1>5. PICK next : next = NextLap(Script, ended + 1, FALSE)
  OBVIOUS
<1>6. /\ NextLap(Script, ended + 1, TRUE) # 0 /\ next <= LoopLimit /\ walk.done
      /\ anchor' = [anchor EXCEPT !.real = @ + Scaled(walk.length - anchor.script, anchor.speed), !.script = 0]
      /\ base' = [base EXCEPT !.laps = @ + walk.length, !.from = 0]
      /\ walk' = Start(Script, next) /\ sent' = {}
      /\ now' = now /\ offset' = offset /\ pause_position' = pause_position
  BY <1>4, <1>5, Zenon DEF FinishLap
<1>7. next \in 1..(MaxLap \div 2)
  BY <1>2, <1>5, <1>6, NextIsLap, Zenon
<1>8. next \in Nat /\ ended \in Nat
  BY <1>7, HalfOfLaps
<1>9. WalkInv'
  <2>1. Place(Script, next, walk') /\ NoneBefore(Script, next, 1, walk')
    BY <1>3, <1>6, <1>8, StartPlaces, Zenon
  <2>2. walk'.lap = next
    BY <2>1, Zenon DEF Place
  <2>3. walk'.row \in Nat
    <3>1. walk'.row \in 1..(Len(Script.rows) + 1) /\ Len(Script.rows) \in Nat
      BY <1>3, <2>1, PlaceRow, GoodScript, Zenon
    <3> QED BY <3>1
  <2>4. ASSUME NEW i \in 1..Len(Script.segments), NEW row \in Nat, InSegment(Script.segments, i, row),
               RunsOn(Script.segments[i].when, next), row < walk'.row
        PROVE  FALSE
    <3>1. walk'.row <= row
      BY <2>1, <2>4, Zenon DEF NoneBefore
    <3> QED BY <2>3, <2>4, <3>1
  <2>5. PassedRows(Script, next, walk', sent', base'.from)
    BY <2>4, Zenon DEF PassedRows
  <2> QED BY <1>2, <1>3, <1>7, <2>1, <2>2, <2>5, Zenon DEF WalkInv, SameScript
<1>10. PICK speed \in PlayedSpeeds : speed = anchor.speed /\ speed \in Nat \ {0}
  BY <1>2, SpeedType
<1>11. PICK length \in Nat : length = walk.length /\ length % speed = 0
  <2>1. walk.due \in Nat /\ walk.due % speed = 0
    BY <1>2, <1>4, <1>8, WalkIsDue, Zenon
  <2>2. walk.done = TRUE
    BY <1>4, <1>6, DoneOrNot, Zenon
  <2>3. ~AtRow(Script, ended, walk)
    BY <2>2 DEF AtRow
  <2>4. walk.due = walk.length
    BY <1>4, <2>3, Zenon DEF Place, AtEnd
  <2> QED BY <2>1, <2>4, Zenon
<1>12. /\ anchor.real \in Int /\ anchor.script \in Int /\ anchor.offset \in Int
       /\ base.real \in Int /\ base.laps \in Nat /\ base.script \in Int
  BY <1>2 DEF PlayTypes
<1>13. PICK span \in Int : span = base.laps + anchor.script - base.script
  BY <1>12
<1>14. PICK rest \in Int : rest = walk.length - anchor.script
  BY <1>11, <1>12
<1>15. Scaled(rest, speed) \in Int /\ Scaled(span, speed) \in Int
  BY <1>10, <1>11, ScaledAdds, Zenon
<1>16. /\ anchor'.real = anchor.real + Scaled(rest, speed) /\ anchor'.script = 0
       /\ anchor'.offset = anchor.offset /\ anchor'.speed = speed
  BY <1>2, <1>6, <1>10, <1>14 DEF PlayTypes
<1>17. base'.real = base.real /\ base'.script = base.script /\ base'.laps = base.laps + length /\ base'.from = 0
  BY <1>2, <1>6, <1>11 DEF PlayTypes
<1>18. anchor.real - anchor.offset = base.real + Scaled(span, speed)
  BY <1>2, <1>10, <1>13, Zenon DEF AnchorInv
<1>19. Scaled(base.laps + length - base.script, speed) = Scaled(span, speed) + Scaled(rest, speed)
  <2>1. CASE anchor.script = 0
    <3>1. rest = length /\ base.laps + length - base.script = span + length
      BY <1>11, <1>12, <1>13, <1>14, <2>1
    <3>2. Scaled(span + length, speed) = Scaled(span, speed) + Scaled(length, speed)
      BY <1>10, <1>11, ScaledAdds
    <3> QED BY <3>1, <3>2, Zenon
  <2>2. CASE span = 0
    <3>1. base.laps + length - base.script = rest
      BY <1>11, <1>12, <1>13, <1>14, <2>2
    <3>2. Scaled(span, speed) = 0
      BY <1>10, <2>2, NothingScaled, Zenon
    <3> QED BY <1>15, <3>1, <3>2
  <2> QED BY <1>2, <1>13, <2>1, <2>2, Zenon DEF AnchorInv
<1>20. AnchorInv'
  <2>1. PICK a \in Int : a = Scaled(rest, speed)
    BY <1>15
  <2>2. PICK b \in Int : b = Scaled(span, speed)
    BY <1>15
  <2>3. (anchor.real + a) - anchor.offset = base.real + (b + a)
    BY <1>12, <1>18, <2>2
  <2>4. base.laps + length + 0 - base.script = base.laps + length - base.script
    BY <1>12
  <2> QED BY <1>16, <1>17, <1>19, <2>1, <2>2, <2>3, <2>4, Zenon DEF AnchorInv
<1>21. anchor' \in [real : Int, script : Int, offset : Int, speed : PlayedSpeeds]
  <2>1. PICK a \in Int : a = Scaled(rest, speed)
    BY <1>15
  <2>2. PICK b \in Int : b = anchor.real + a
    BY <1>12
  <2>3. anchor' = [anchor EXCEPT !.real = b, !.script = 0]
    BY <1>6, <1>10, <1>14, <2>1, <2>2, Zenon
  <2>4. anchor \in [real : Int, script : Int, offset : Int, speed : PlayedSpeeds]
    BY <1>2, Zenon DEF PlayTypes
  <2>5. 0 \in Int
    OBVIOUS
  <2> QED BY <2>2, <2>3, <2>4, <2>5, AnchorPut, Zenon
<1>22. base' \in [real : Int, script : Int, laps : Nat, from : Int]
  <2>1. PICK b \in Nat : b = base.laps + length
    BY <1>12
  <2>2. base' = [base EXCEPT !.laps = b, !.from = 0]
    BY <1>6, <1>11, <2>1, Zenon
  <2>3. base \in [real : Int, script : Int, laps : Nat, from : Int]
    BY <1>2, Zenon DEF PlayTypes
  <2>4. 0 \in Int
    OBVIOUS
  <2> QED BY <2>1, <2>2, <2>3, <2>4, BasePut, Zenon
<1> QED BY <1>2, <1>6, <1>9, <1>20, <1>21, <1>22, Zenon DEF PlaceInv, PlayTypes

LEMMA PlayStep == PlayInv /\ [Next]_vars => PlayInv'
<1> SUFFICES ASSUME PlayInv, [Next]_vars PROVE PlayInv'
  OBVIOUS
<1>1. TimedInv'
  BY TimedStep, Zenon DEF PlayInv
<1>2. CASE ReaderNext /\ UNCHANGED playVars
  BY <1>1, <1>2, PlayReads, Zenon DEF PlayInv
<1>3. CASE Playback /\ UNCHANGED readerVars
  <2>1. ASSUME Play(Position(1, 0)) PROVE PlaceInv'
    <3>1. 1 \in Nat /\ 0 \in Nat
      OBVIOUS
    <3> QED BY <1>3, <2>1, <3>1, PlayStarts, Zenon
  <2>2. ASSUME Tick PROVE PlaceInv'
    BY <1>3, <2>2, PlayTicks, Zenon
  <2>3. ASSUME Row PROVE PlaceInv'
    BY <1>3, <2>3, RowSent, Zenon
  <2>4. ASSUME FinishLap PROVE PlaceInv'
    BY <1>3, <2>4, LapEnds, Zenon
  <2>5. ASSUME FinishScript PROVE PlaceInv'
    BY <1>3, <2>5, PlayEnds, Zenon
  <2>6. ASSUME Pause PROVE PlaceInv'
    BY <1>3, <2>6, PlayPauses, Zenon
  <2>7. ASSUME Resume PROVE PlaceInv'
    BY <1>3, <2>7, PlayResumes, Zenon
  <2>8. ASSUME NEW speed \in Speeds, SetSpeed(speed) PROVE PlaceInv'
    BY <1>3, <2>8, SpeedChanges, Zenon
  <2>9. ASSUME NEW value \in Offsets, SetOffset(value) PROVE PlaceInv'
    BY <1>3, <2>9, OffsetMoves, Zenon
  <2>10. ASSUME NEW position \in Positions, Seek(position) PROVE PlaceInv'
    <3>1. position.lap \in Int /\ position.time \in Int
      BY LapsAssumption DEF Positions, Position
    <3> QED BY <1>3, <2>10, <3>1, PlaySeeks, Zenon
  <2> QED BY <1>1, <1>3, <2>1, <2>2, <2>3, <2>4, <2>5, <2>6, <2>7, <2>8, <2>9, <2>10, Zenon DEF Playback, PlayInv
<1>4. CASE UNCHANGED vars
  <2>1. UNCHANGED readerVars /\ UNCHANGED playVars
    BY <1>4 DEF vars
  <2>2. UNCHANGED <<walk, anchor, base, sent>> /\ mode' = mode /\ now' = now /\ offset' = offset /\ pause_position' = pause_position
        /\ anchor' = anchor /\ base' = base
    BY <2>1 DEF playVars
  <2>3. AnchorInv' /\ (Playing => WalkInv')
    BY <2>1, <2>2, Unmoved, Zenon DEF PlayInv, PlaceInv
  <2> QED BY <1>1, <2>2, <2>3, Zenon DEF PlayInv, PlaceInv, PlayTypes, Playing
<1> QED BY <1>2, <1>3, <1>4, Zenon DEF Next

\* wait_to(), deadline_for() and retime(): however late each row went out, and whatever was
\* paused, seeked or changed on the way, the next row is due when exactly the waits written
\* above it that count on its lap have passed since the last seek, speed change or resume.
THEOREM RowsAreOnTime == Spec => []LapsDoNotDrift
<1>1. PlayInv => LapsDoNotDrift
  <2> SUFFICES ASSUME PlayInv, Playing PROVE LapsDoNotDrift
    BY Zenon DEF LapsDoNotDrift, Playing
  <2>1. WalkInv /\ TimedInv /\ PlayTypes /\ AnchorInv /\ Accepted
    BY Zenon DEF PlayInv, PlaceInv, WalkInv
  <2>2. walk.lap \in Nat /\ Place(Script, walk.lap, walk)
    BY <2>1, HalfOfLaps DEF WalkInv
  <2>3. PICK speed \in PlayedSpeeds : speed = anchor.speed /\ speed \in Nat \ {0}
    BY <2>1, SpeedType
  <2>4. PICK due \in Nat : due = walk.due /\ due = WalkDue(walk) /\ due % speed = 0
    BY <2>1, <2>2, WalkIsDue, Zenon
  <2>5. /\ anchor.real \in Int /\ anchor.script \in Int /\ anchor.offset \in Int
        /\ base.real \in Int /\ base.laps \in Nat /\ base.script \in Int /\ offset \in Int
    BY <2>1 DEF PlayTypes
  <2>6. PICK span \in Int : span = base.laps + anchor.script - base.script
    BY <2>5
  <2>7. PICK rest \in Int : rest = due - anchor.script
    BY <2>5
  <2>8. Scaled(rest, speed) \in Int /\ Scaled(span, speed) \in Int
    BY <2>3, <2>4, ScaledAdds, Zenon
  <2>9. Scaled(base.laps + due - base.script, speed) = Scaled(span, speed) + Scaled(rest, speed)
    <3>1. CASE anchor.script = 0
      <4>1. rest = due /\ base.laps + due - base.script = span + due
        BY <2>5, <2>6, <2>7, <3>1
      <4>2. Scaled(span + due, speed) = Scaled(span, speed) + Scaled(due, speed)
        BY <2>3, <2>4, ScaledAdds
      <4> QED BY <4>1, <4>2, Zenon
    <3>2. CASE span = 0
      <4>1. base.laps + due - base.script = rest
        BY <2>5, <2>6, <2>7, <3>2
      <4>2. Scaled(span, speed) = 0
        BY <2>3, <3>2, NothingScaled, Zenon
      <4> QED BY <2>8, <4>1, <4>2
    <3> QED BY <2>1, <2>6, <3>1, <3>2, Zenon DEF AnchorInv
  <2>10. DeadlineFor(walk.due) = base.real + Scaled(base.laps + due - base.script, anchor.speed) + offset
    <3>1. PICK a \in Int : a = Scaled(rest, speed)
      BY <2>8
    <3>2. PICK b \in Int : b = Scaled(span, speed)
      BY <2>8
    <3>3. anchor.real - anchor.offset = base.real + b
      BY <2>1, <2>3, <2>6, <3>2, Zenon DEF AnchorInv
    <3>4. DeadlineFor(walk.due) = anchor.real + a + offset - anchor.offset
      BY <2>3, <2>4, <2>7, <3>1, Zenon DEF DeadlineFor
    <3>5. anchor.real + a + offset - anchor.offset = base.real + (b + a) + offset
      BY <2>5, <3>3
    <3> QED BY <2>3, <2>9, <3>1, <3>2, <3>4, <3>5, Zenon
  <2> QED BY <2>4, <2>10, Zenon DEF LapsDoNotDrift, WalkDue
<1> QED BY <1>1, PlayInit, PlayStep, PTL DEF Spec

-----------------------------------------------------------------------------
(* Laps are complete                                                       *)

LEMMA NothingSums ==
  ASSUME NEW f, NEW L \in Nat, \A n \in 1..L : f[n] = 0
  PROVE  SumOver(f, 1, L) = 0
<1> DEFINE T == {n \in 0..L : SumOver(f, 1, n) = 0}
<1>1. 0 \in T
  <2>1. 1 \in Nat \ {0} /\ 0 \in Nat /\ 0 < 1 /\ 0 \in 0..L
    OBVIOUS
  <2>2. SumOver(f, 1, 0) = 0
    BY <2>1, SumNone, Zenon
  <2> QED BY <2>1, <2>2
<1>2. ASSUME NEW n \in 1..L, n - 1 \in T PROVE n \in T
  <2>1. SumOver(f, 1, n - 1) = 0
    BY <1>2
  <2>2. \A k \in 1..n : f[k] \in Nat
    OBVIOUS
  <2>3. 1 \in Nat \ {0} /\ n \in Nat /\ n >= 1
    OBVIOUS
  <2>4. SumOver(f, 1, n) = SumOver(f, 1, n - 1) + f[n]
    BY <2>2, <2>3, SumStep
  <2>5. f[n] = 0 /\ n \in 0..L
    OBVIOUS
  <2> QED BY <2>1, <2>4, <2>5
<1>3. L \in T
  <2> HIDE DEF T
  <2>1. 0..L \subseteq T
    BY <1>1, <1>2, StepByStep
  <2> QED BY <2>1
<1> QED BY <1>3

\* Nothing runs on the laps from one up to another, or there is no time on them.
NoRows(lap) == \A i \in Kinds({"row"}) : ~RunsOn(WhenOf(i), lap)

\* A search for laps finds no segment on this one.
NothingRuns(lap, rows_only) ==
  \A i \in 1..Len(Script.segments) : \A w \in Whens(Script.segments[i], rows_only) : ~RunsOn(w, lap)

LEMMA NothingRunsRows ==
  ASSUME TimedInv, Accepted, NEW lap, NEW rows_only, NothingRuns(lap, rows_only)
  PROVE  NoRows(lap)
<1>1. ScriptInv /\ Good(Script)
  BY ScriptIsGood, Zenon DEF TimedInv
<1>2. Script.segments = reader.segments /\ Script.rows = reader.rows
  BY DEF Script
<1>3. ASSUME NEW k \in Kinds({"row"}), RunsOn(WhenOf(k), lap) PROVE FALSE
  <2>1. PICK row \in 1..Len(reader.rows) : RowLines[row] = k
    BY <1>1, Zenon DEF ScriptInv, EveryRow
  <2>2. PICK i \in 1..Len(reader.segments) :
          InSegment(reader.segments, i, row) /\ reader.segments[i].when = WhenOf(LineOf(row))
    BY <1>1, Zenon DEF ScriptInv, RowsPlaced
  <2>3. reader.segments[i].when = WhenOf(k)
    BY <2>1, <2>2, Zenon DEF LineOf
  <2>4. HasRows(reader.segments[i])
    <3>1. reader.segments[i].begin \in Nat /\ reader.segments[i].end \in Nat /\ row \in Nat
      BY <1>1, <1>2, GoodScript
    <3> QED BY <2>2, <3>1 DEF InSegment, HasRows
  <2>5. reader.segments[i].when \in Whens(reader.segments[i], rows_only)
    BY <2>4, Zenon DEF Whens
  <2> QED BY <1>2, <1>3, <2>3, <2>5, Zenon DEF NothingRuns
<1> QED BY <1>3, Zenon DEF NoRows

LEMMA NothingRunsTime ==
  ASSUME TimedInv, Accepted, NEW lap \in Nat \ {0}, NothingRuns(lap, FALSE)
  PROVE  LapLength(Script, lap) = 0
<1> DEFINE a == Script.segments
<1>1. Good(Script)
  BY ScriptIsGood
<1>2. Len(a) \in Nat /\ DOMAIN a = 1..Len(a)
  BY <1>1, GoodScript, Zenon
<1>3. ASSUME NEW i \in 1..Len(a) PROVE LapTimes(a, lap)[i] = 0
  <2>1. PICK s : s = a[i]
    OBVIOUS
  <2>2. s.when \in Selectors /\ s.duration \in Nat
    BY <1>1, <1>2, <2>1, Zenon DEF Good, IsSegments, IsSegment, TimesTyped
  <2>3. LapTimes(a, lap)[i] = IF Passes(s.when, lap) THEN s.duration ELSE 0
    BY <1>1, <2>1, LapTimesType, Zenon DEF Good
  <2>4. ASSUME Passes(s.when, lap), s.duration # 0 PROVE FALSE
    <3>1. s.duration > 0
      BY <2>2, <2>4
    <3>2. s.when \in Whens(s, FALSE)
      BY <3>1, Zenon DEF Whens
    <3>3. ~RunsOn(s.when, lap)
      BY <2>1, <3>2, Zenon DEF NothingRuns
    <3>4. s.when.keep_time
      BY <2>4, <3>3, Zenon DEF Passes
    <3>5. TurnedAround(s.when) \in Whens(s, FALSE)
      BY <3>1, <3>4, Zenon DEF Whens, TurnedAround
    <3>6. ~RunsOn(TurnedAround(s.when), lap)
      BY <2>1, <3>5, Zenon DEF NothingRuns
    <3> QED BY <2>2, <3>3, <3>6, TurnedIsSelector, Zenon
  <2> QED BY <2>3, <2>4, Zenon
<1>4. SumOver(LapTimes(a, lap), 1, Len(a)) = 0
  <2> HIDE DEF a
  <2>1. PICK f : f = LapTimes(a, lap)
    OBVIOUS
  <2>2. \A n \in 1..Len(a) : f[n] = 0
    BY <1>3, <2>1, Zenon
  <2>3. SumOver(f, 1, Len(a)) = 0
    BY <1>2, <2>2, NothingSums, Zenon
  <2> QED BY <2>1, <2>3, Zenon
<1> QED BY <1>4, LapLengthIs, Zenon DEF Total

\* The controls of the user are counted.
ControlsInv == controls \in Nat

LEMMA ControlsStep == ControlsInv /\ [Next]_vars => ControlsInv'
<1> SUFFICES ASSUME ControlsInv, [Next]_vars PROVE ControlsInv'
  OBVIOUS
<1>1. controls' = controls \/ controls' = controls + 1
  BY DEF Next, Playback, vars, playVars, Play, Tick, Row, FinishLap, FinishScript, Pause, Resume,
         SetSpeed, SetOffset, Seek, Control
<1> QED BY <1>1 DEF ControlsInv

\* What was not sent on a lap that is over is due before where playback began.
AllSent ==
  \A row \in DOMAIN reader.rows \ sent :
    RunsOn(WhenOf(LineOf(row)), walk.lap) => DueOn(walk.lap, LineOf(row)) < base.from

LEMMA LapIsSent == ASSUME PlayInv, Playing, walk.done PROVE AllSent
<1>1. WalkInv /\ TimedInv /\ Accepted
  BY Zenon DEF PlayInv, PlaceInv, WalkInv
<1>2. ScriptInv /\ Good(Script)
  BY <1>1, ScriptIsGood, Zenon DEF TimedInv
<1>3. Script.segments = reader.segments /\ Script.rows = reader.rows
  BY DEF Script
<1>4. PICK lap \in Nat : lap = walk.lap /\ Place(Script, lap, walk)
  <2>1. walk.lap \in Nat
    BY <1>1, HalfOfLaps DEF WalkInv
  <2> QED BY <1>1, <2>1, Zenon DEF WalkInv
<1>5. DOMAIN reader.rows = 1..Len(reader.rows) /\ Len(reader.rows) \in Nat
  BY <1>2, <1>3, GoodScript, Zenon
<1>6. walk.row = Len(reader.rows) + 1
  <2>1. walk.done = TRUE
    BY <1>4, DoneOrNot, Zenon
  <2> QED BY <1>2, <1>3, <1>4, <2>1, PlaceRow, Zenon
<1>7. ASSUME NEW row \in DOMAIN reader.rows \ sent, RunsOn(WhenOf(LineOf(row)), walk.lap)
      PROVE  DueOn(walk.lap, LineOf(row)) < base.from
  <2>1. row \in 1..Len(reader.rows) /\ row \in Nat
    BY <1>5
  <2>2. row < walk.row
    BY <1>5, <1>6, <2>1
  <2>3. PICK i \in 1..Len(reader.segments) :
          InSegment(reader.segments, i, row) /\ reader.segments[i].when = WhenOf(LineOf(row))
    BY <1>2, <2>1, Zenon DEF ScriptInv, RowsPlaced
  <2>4. RunsOn(reader.segments[i].when, lap)
    BY <1>4, <1>7, <2>3, Zenon
  <2>5. Begins(Script.segments, Script.rows, i, row, lap) < base.from
    BY <1>1, <1>3, <1>4, <2>1, <2>2, <2>3, <2>4, Zenon DEF WalkInv, PassedRows
  <2>6. Begins(Script.segments, Script.rows, i, row, lap) = DueOn(lap, LineOf(row))
    <3>1. i \in 1..Len(Script.segments) /\ row \in 1..Len(Script.rows)
      BY <1>3, <2>1, Zenon
    <3>2. InSegment(Script.segments, i, row) /\ RunsOn(Script.segments[i].when, lap)
      BY <1>3, <2>3, <2>4, Zenon
    <3> QED BY <1>1, <1>4, <3>1, <3>2, RowIsWritten, Zenon
  <2> QED BY <1>4, <2>5, <2>6, Zenon
<1> QED BY <1>7, Zenon DEF AllSent

\* What playback passes over when it goes on, or ends.
PassesOver(ends) ==
  \A lap \in (walk.lap + 1)..(IF ends THEN LoopLimit ELSE walk'.lap - 1) :
    /\ \A i \in Kinds({"row"}) : ~RunsOn(WhenOf(i), lap)
    /\ ends \/ LapLength(Script, lap) = 0

LEMMA LapEndPasses == ASSUME PlayInv, FinishLap PROVE PassesOver(FALSE)
<1>1. Playing
  BY DEF FinishLap, Due, Playing
<1>2. WalkInv /\ TimedInv /\ Accepted /\ Good(Script)
  BY <1>1, ScriptIsGood, Zenon DEF PlayInv, PlaceInv, WalkInv
<1>3. PICK ended \in 1..(MaxLap \div 2) : ended = walk.lap /\ Place(Script, ended, walk)
  BY <1>2, Zenon DEF WalkInv
<1>4. PICK next : next = NextLap(Script, ended + 1, FALSE)
  OBVIOUS
<1>5. NextLap(Script, ended + 1, TRUE) # 0 /\ next <= LoopLimit /\ walk' = Start(Script, next)
  BY <1>3, <1>4, Zenon DEF FinishLap
<1>6. next \in (ended + 1)..MaxLap /\ next \in 1..(MaxLap \div 2) /\ FoundLap(Script, ended + 1, FALSE, next)
  BY <1>2, <1>3, <1>4, <1>5, NextIsLap, Zenon
<1>7. next \in Nat /\ ended \in Nat /\ MaxLap \in Nat /\ next <= MaxLap
  BY <1>6, HalfOfLaps
<1>8. walk'.lap = next
  <2>1. Place(Script, next, walk')
    BY <1>2, <1>5, <1>7, StartPlaces, Zenon
  <2> QED BY <2>1, Zenon DEF Place
<1>9. ASSUME NEW lap \in (ended + 1)..(next - 1) PROVE NoRows(lap) /\ LapLength(Script, lap) = 0
  <2>1. lap \in (ended + 1)..MaxLap /\ lap \in Nat \ {0} /\ ~(next <= lap)
    BY <1>7
  <2>2. next # 0
    BY <1>6
  <2>3. DOMAIN Script.segments = 1..Len(Script.segments)
    BY <1>2, GoodScript, Zenon
  <2>4. NothingRuns(lap, FALSE)
    BY <1>6, <2>1, <2>2, <2>3, Zenon DEF FoundLap, NothingRuns
  <2> QED BY <1>2, <2>1, <2>4, NothingRunsRows, NothingRunsTime, Zenon
<1> QED BY <1>3, <1>8, <1>9, Zenon DEF PassesOver, NoRows

LEMMA ScriptEndPasses == ASSUME PlayInv, FinishScript PROVE PassesOver(TRUE)
<1>1. Playing
  BY DEF FinishScript, Due, Playing
<1>2. WalkInv /\ TimedInv /\ Accepted /\ Good(Script)
  BY <1>1, ScriptIsGood, Zenon DEF PlayInv, PlaceInv, WalkInv
<1>3. PICK ended \in 1..(MaxLap \div 2) : ended = walk.lap
  BY <1>2, Zenon DEF WalkInv
<1>4. PICK from \in 1..MaxLap : from = ended + 1
  BY HalfOfLaps
<1>5. PICK half \in Nat : half = MaxLap \div 2 /\ half <= MaxLap /\ MaxLap \in Nat
  BY HalfOfLaps
<1>6. PICK limit \in 0..half : limit = LoopLimit
  BY <1>5, TimelineAssumption
<1>7. NextLap(Script, from, TRUE) = 0 \/ NextLap(Script, from, FALSE) > LoopLimit
  BY <1>3, <1>4, Zenon DEF FinishScript
<1>8. IsSegments(Script.segments) /\ DOMAIN Script.segments = 1..Len(Script.segments)
  BY <1>2, GoodScript, Zenon DEF Good
<1>9. ASSUME NEW lap \in from..limit PROVE NoRows(lap)
  <2>1. lap \in from..MaxLap /\ lap \in Nat /\ lap <= limit
    BY <1>4, <1>5, <1>6
  <2>2. CASE NextLap(Script, from, TRUE) = 0
    <3>1. FoundLap(Script, from, TRUE, 0)
      BY <1>8, <2>2, NextLapFound, Zenon
    <3>2. NothingRuns(lap, TRUE)
      BY <1>8, <2>1, <3>1, Zenon DEF FoundLap, NothingRuns
    <3> QED BY <1>2, <3>2, NothingRunsRows, Zenon
  <2>3. CASE NextLap(Script, from, FALSE) > LoopLimit
    <3>1. PICK next : next = NextLap(Script, from, FALSE)
      OBVIOUS
    <3>2. FoundLap(Script, from, FALSE, next)
      BY <1>8, <3>1, NextLapFound, Zenon
    <3>3. next > limit
      BY <1>6, <2>3, <3>1, Zenon
    <3>4. next # 0
      BY <1>6, <3>3
    <3>5. next \in from..MaxLap
      BY <3>2, <3>4, Zenon DEF FoundLap
    <3>6. ~(next <= lap)
      BY <1>4, <1>5, <1>6, <2>1, <3>3, <3>5
    <3>7. NothingRuns(lap, FALSE)
      BY <1>8, <2>1, <3>2, <3>4, <3>6, Zenon DEF FoundLap, NothingRuns
    <3> QED BY <1>2, <3>7, NothingRunsRows, Zenon
  <2> QED BY <1>7, <2>2, <2>3
<1> QED BY <1>3, <1>4, <1>6, <1>9, Zenon DEF PassesOver, NoRows

\* A lap that is left was played to its end, and so was the script.
LeavesComplete ==
  walk.done /\ mode = "playing" /\ controls' = controls /\ (walk' # walk \/ mode' = "stopped") =>
    AllSent /\ PassesOver(mode' = "stopped")

LEMMA LapsLeft == ASSUME PlayInv, ControlsInv, Next PROVE LeavesComplete
<1> SUFFICES ASSUME walk.done, mode = "playing", controls' = controls, walk' # walk \/ mode' = "stopped"
             PROVE  AllSent /\ PassesOver(mode' = "stopped")
  BY Zenon DEF LeavesComplete
<1>1. AllSent
  <2>1. Playing
    BY DEF Playing
  <2> QED BY <2>1, LapIsSent, Zenon
<1>2. FinishLap \/ FinishScript
  <2>1. ~(ReaderNext /\ UNCHANGED playVars)
    BY DEF playVars
  <2>2. controls' # controls + 1
    BY DEF ControlsInv
  <2>3. ~Tick /\ ~Row /\ ~Play(Position(1, 0)) /\ ~Resume
    BY DEF Tick, Row, Play, Resume
  <2>4. ~Pause /\ (\A speed \in Speeds : ~SetSpeed(speed)) /\ (\A value \in Offsets : ~SetOffset(value))
        /\ (\A position \in Positions : ~Seek(position))
    BY <2>2, Zenon DEF Pause, SetSpeed, SetOffset, Seek, Control
  <2> QED BY <2>1, <2>3, <2>4, Zenon DEF Next, Playback
<1>3. CASE FinishLap
  <2>1. (mode' = "stopped") = FALSE
    BY <1>3 DEF FinishLap
  <2> QED BY <1>1, <1>3, <2>1, LapEndPasses, Zenon
<1>4. CASE FinishScript
  <2>1. (mode' = "stopped") = TRUE
    BY <1>4 DEF FinishScript
  <2> QED BY <1>1, <1>4, <2>1, ScriptEndPasses, Zenon
<1> QED BY <1>1, <1>2, <1>3, <1>4

\* finish_lap(): when playback leaves a lap by itself, or ends, each row of the lap that is due
\* from where the lap was entered on was sent; and it passes over no lap that has a row nor,
\* unless it ends, over one that takes time.
THEOREM EveryRowOfALap == Spec => LapsAreComplete
<1>1. Init => PlayInv /\ ControlsInv
  BY PlayInit DEF Init, TimelineInit, ControlsInv
<1>2. PlayInv /\ ControlsInv /\ [Next]_vars => (PlayInv /\ ControlsInv)'
  BY PlayStep, ControlsStep, Zenon
<1>3. PlayInv /\ ControlsInv /\ [Next]_vars => [LeavesComplete]_vars
  <2> SUFFICES ASSUME PlayInv, ControlsInv, [Next]_vars PROVE [LeavesComplete]_vars
    OBVIOUS
  <2> QED BY LapsLeft, Zenon
<1>4. [LeavesComplete]_vars <=>
        [walk.done /\ mode = "playing" /\ controls' = controls /\ (walk' # walk \/ mode' = "stopped") =>
       LET ends == mode' = "stopped"
           Passed == (walk.lap + 1)..(IF ends THEN LoopLimit ELSE walk'.lap - 1)
       IN /\ \A row \in DOMAIN reader.rows \ sent :
               RunsOn(WhenOf(LineOf(row)), walk.lap) => DueOn(walk.lap, LineOf(row)) < base.from
          /\ \A lap \in Passed :
               /\ \A i \in Kinds({"row"}) : ~RunsOn(WhenOf(i), lap)
               /\ ends \/ LapLength(Script, lap) = 0]_vars
  BY Zenon DEF LeavesComplete, AllSent, PassesOver
<1> QED BY <1>1, <1>2, <1>3, <1>4, PTL DEF Spec, LapsAreComplete

-----------------------------------------------------------------------------
(* The last payload of a control counts                                    *)

\* What a state says of a control.
On(state, c) == {p \in state : p.control = c}

\* What a payload leaves on its control: a neutral one leaves nothing.
Effect(payload) == {p \in {payload} : p.control \in Controls /\ p.value # Neutral}

\* The states that some rows can leave.
States(rows) == SUBSET {rows[k].payload : k \in DOMAIN rows}

LEMMA AppliedOn ==
  ASSUME NEW state, NEW payload, NEW c
  PROVE  /\ payload.control = c => On(Apply(state, payload), c) = Effect(payload)
         /\ payload.control # c => On(Apply(state, payload), c) = On(state, c)
<1>1. ASSUME payload.control = c PROVE On(Apply(state, payload), c) = Effect(payload)
  BY <1>1 DEF On, Apply, Others, Effect
<1>2. ASSUME payload.control # c PROVE On(Apply(state, payload), c) = On(state, c)
  BY <1>2 DEF On, Apply, Others
<1> QED BY <1>1, <1>2, Zenon

LEMMA SameOn ==
  ASSUME NEW s, NEW t, \A c : On(s, c) = On(t, c)
  PROVE  s = t
<1>1. \A p : p \in s <=> p \in On(s, p.control)
  BY Zenon DEF On
<1>2. \A p : p \in t <=> p \in On(t, p.control)
  BY Zenon DEF On
<1>3. \A p : p \in s <=> p \in t
  BY <1>1, <1>2, Zenon
<1> QED BY <1>3

LEMMA AppliedState ==
  ASSUME NEW rows, NEW state \in States(rows), NEW k \in DOMAIN rows
  PROVE  Apply(state, rows[k].payload) \in States(rows)
<1>1. rows[k].payload \in {rows[m].payload : m \in DOMAIN rows}
  BY Zenon
<1>2. state \subseteq {rows[m].payload : m \in DOMAIN rows}
  BY Zenon DEF States
<1> QED BY <1>1, <1>2, Zenon DEF States, Apply, Others

-----------------------------------------------------------------------------
(* A stretch of rows                                                       *)

\* A stretch row by row, as ApplyRows defines it.
RowsApplied(state, rows, begin, end, r) ==
  r = [n \in 0 .. end - 1 |-> IF n < begin THEN state ELSE Apply(r[n - 1], rows[n].payload)]

\* A stretch of the table of rows.
Stretch(rows, begin, end) ==
  /\ begin \in Nat \ {0} /\ end \in Nat /\ begin <= end
  /\ \A n \in Nat : begin <= n /\ n < end => n \in DOMAIN rows

\* One row of a stretch.
NextState(state, rows, begin, n, before) == IF n < begin THEN state ELSE Apply(before, rows[n].payload)

LEMMA RowsAreApplied ==
  ASSUME NEW rows, NEW state \in States(rows), NEW begin, NEW end, Stretch(rows, begin, end)
  PROVE  \E r \in [0 .. end - 1 -> States(rows)] :
           RowsApplied(state, rows, begin, end, r) /\ ApplyRows(state, rows, begin, end) = r[end - 1]
<1>1. PICK L \in Nat : L = end - 1 /\ begin \in Nat \ {0} /\ begin - 1 <= L
  BY DEF Stretch
<1> DEFINE X == States(rows)
           step == [n \in 1..L |-> [before \in X |-> NextState(state, rows, begin, n, before)]]
<1>2. ASSUME NEW n \in 1..L, NEW before \in X PROVE NextState(state, rows, begin, n, before) \in X
  <2>1. CASE n < begin
    BY <2>1, Zenon DEF NextState
  <2>2. CASE ~(n < begin)
    <3>1. n \in Nat /\ begin <= n /\ n < end
      BY <1>1, <2>2 DEF Stretch
    <3>2. n \in DOMAIN rows
      BY <3>1, Zenon DEF Stretch
    <3> QED BY <2>2, <3>2, AppliedState, Zenon DEF NextState
  <2> QED BY <2>1, <2>2
<1> HIDE DEF X
<1>3. step \in [1..L -> [X -> X]]
  BY <1>2
<1>4. \A n \in 1..L, before \in X : step[n][before] = NextState(state, rows, begin, n, before)
  OBVIOUS
<1> HIDE DEF step
<1>5. state \in X
  BY DEF X
<1>6. PICK w \in [0..L -> X] : Follows(w, L, state, step)
  BY <1>3, <1>5, StepsExist
<1>7. RowsApplied(state, rows, begin, end, w)
  <2>1. ASSUME NEW n \in 0..L
        PROVE  w[n] = IF n < begin THEN state ELSE Apply(w[n - 1], rows[n].payload)
    <3>1. CASE n = 0
      <4>1. n < begin
        BY <1>1, <3>1
      <4>2. w[n] = state
        BY <1>6, <3>1, Zenon DEF Follows
      <4> QED BY <4>1, <4>2, Zenon
    <3>2. CASE n # 0
      <4>1. n \in 1..L
        BY <3>2
      <4>2. w[n - 1] \in X
        BY <4>1
      <4>3. w[n] = NextState(state, rows, begin, n, w[n - 1])
        BY <1>4, <1>6, <4>1, <4>2, Zenon DEF Follows
      <4> QED BY <4>3, Zenon DEF NextState
    <3> QED BY <3>1, <3>2, Zenon
  <2>2. w = [n \in 0..L |-> w[n]]
    OBVIOUS
  <2>3. [n \in 0..L |-> w[n]] = [n \in 0..L |-> IF n < begin THEN state ELSE Apply(w[n - 1], rows[n].payload)]
    BY <2>1, Zenon
  <2> QED BY <1>1, <2>2, <2>3, Zenon DEF RowsApplied
<1> DEFINE r == CHOOSE u : RowsApplied(state, rows, begin, end, u)
<1>8. RowsApplied(state, rows, begin, end, r)
  BY <1>7, Zenon
<1>9. ApplyRows(state, rows, begin, end) = r[end - 1]
  BY DEF ApplyRows, RowsApplied
<1> HIDE DEF r
<1>10. r \in [0..L -> X]
  <2>1. \A n \in 0..L : r[n] = IF n < begin THEN state ELSE Apply(r[n - 1], rows[n].payload)
    BY <1>1, <1>8, Zenon DEF RowsApplied
  <2>2. StepAlike(r, w, L)
    <3>1. \A n \in 0..L : w[n] = IF n < begin THEN state ELSE Apply(w[n - 1], rows[n].payload)
      BY <1>1, <1>7, Zenon DEF RowsApplied
    <3>2. 0 \in 0..L /\ 0 < begin
      BY <1>1
    <3>3. r[0] = w[0]
      BY <2>1, <3>1, <3>2, Zenon
    <3>4. ASSUME NEW n \in 1..L, r[n - 1] = w[n - 1] PROVE r[n] = w[n]
      <4>1. n \in 0..L
        OBVIOUS
      <4> QED BY <2>1, <3>1, <3>4, <4>1, Zenon
    <3> QED BY <3>3, <3>4, Zenon DEF StepAlike
  <2>3. \A n \in 0..L : r[n] = w[n]
    BY <2>2, StepsAgree
  <2>4. r = [n \in 0..L |-> r[n]]
    <3>1. r = [n \in 0..L |-> IF n < begin THEN state ELSE Apply(r[n - 1], rows[n].payload)]
      BY <1>1, <1>8, Zenon DEF RowsApplied
    <3> QED BY <2>1, <3>1
  <2>5. \A n \in 0..L : r[n] \in X
    BY <2>3
  <2> QED BY <2>4, <2>5
<1> QED BY <1>1, <1>8, <1>9, <1>10, Zenon DEF X

-----------------------------------------------------------------------------

\* No row of a stretch is about a control.
WroteNone(rows, begin, end, c) ==
  \A n \in Nat : begin <= n /\ n < end => rows[n].payload.control # c

\* The last row of a stretch that is about a control.
WroteLast(rows, begin, end, c, k) ==
  /\ k \in Nat /\ begin <= k /\ k < end /\ rows[k].payload.control = c
  /\ \A n \in Nat : begin <= n /\ n < end /\ rows[n].payload.control = c => n <= k

\* What a stretch of rows leaves on a control: its last payload for it, if it has one.
Leaves(rows, begin, end, state, left) ==
  /\ left \in States(rows)
  /\ \A c : WroteNone(rows, begin, end, c) => On(left, c) = On(state, c)
  /\ \A c, k : WroteLast(rows, begin, end, c, k) => On(left, c) = Effect(rows[k].payload)

LEMMA RowsLeave ==
  ASSUME NEW rows, NEW state \in States(rows), NEW begin, NEW end, Stretch(rows, begin, end)
  PROVE  Leaves(rows, begin, end, state, ApplyRows(state, rows, begin, end))
<1>1. PICK L \in Nat : L = end - 1 /\ begin \in Nat \ {0} /\ begin - 1 <= L
  BY DEF Stretch
<1>2. PICK r \in [0 .. end - 1 -> States(rows)] :
        RowsApplied(state, rows, begin, end, r) /\ ApplyRows(state, rows, begin, end) = r[end - 1]
  BY RowsAreApplied
<1>3. PICK left : left = ApplyRows(state, rows, begin, end) /\ left = r[L]
  BY <1>1, <1>2, Zenon
<1>4. \A n \in 0..L : r[n] = IF n < begin THEN state ELSE Apply(r[n - 1], rows[n].payload)
  BY <1>1, <1>2, Zenon DEF RowsApplied
<1>5. left \in States(rows)
  <2>1. L \in 0 .. end - 1
    BY <1>1
  <2> QED BY <1>2, <1>3, <2>1, Zenon
<1>6. \A n \in Nat : begin <= n /\ n < end <=> begin <= n /\ n <= L
  BY <1>1 DEF Stretch
<1>7. ASSUME NEW c, WroteNone(rows, begin, end, c) PROVE On(left, c) = On(state, c)
  <2> DEFINE T == {n \in 0..L : On(r[n], c) = On(state, c)}
  <2>1. 0 \in T
    <3>1. 0 \in 0..L /\ 0 < begin
      BY <1>1
    <3> QED BY <1>4, <3>1, Zenon
  <2>2. ASSUME NEW n \in 1..L, n - 1 \in T PROVE n \in T
    <3>1. n \in 0..L /\ n \in Nat
      OBVIOUS
    <3>2. On(r[n - 1], c) = On(state, c)
      BY <2>2
    <3>3. CASE n < begin
      <4>1. r[n] = state
        BY <1>4, <3>1, <3>3, Zenon
      <4> QED BY <3>1, <4>1, Zenon
    <3>4. CASE ~(n < begin)
      <4>1. begin <= n /\ n <= L
        BY <1>1, <3>4
      <4>2. rows[n].payload.control # c
        BY <1>6, <1>7, <3>1, <4>1, Zenon DEF WroteNone
      <4>3. r[n] = Apply(r[n - 1], rows[n].payload)
        BY <1>4, <3>1, <3>4, Zenon
      <4>4. PICK before : before = r[n - 1]
        OBVIOUS
      <4>5. PICK payload : payload = rows[n].payload
        OBVIOUS
      <4>6. On(Apply(before, payload), c) = On(before, c)
        BY <4>2, <4>5, AppliedOn
      <4>7. On(r[n], c) = On(r[n - 1], c)
        BY <4>3, <4>4, <4>5, <4>6, Zenon
      <4> QED BY <3>1, <3>2, <4>7, Zenon
    <3> QED BY <3>3, <3>4
  <2>3. L \in T
    <3> HIDE DEF T
    <3>1. 0..L \subseteq T
      BY <1>1, <2>1, <2>2, StepByStep
    <3> QED BY <1>1, <3>1
  <2> QED BY <1>3, <2>3, Zenon
<1>8. ASSUME NEW c, NEW k, WroteLast(rows, begin, end, c, k) PROVE On(left, c) = Effect(rows[k].payload)
  <2>1. k \in Nat /\ begin <= k /\ k <= L /\ rows[k].payload.control = c
    BY <1>6, <1>8, Zenon DEF WroteLast
  <2> DEFINE T == {n \in 0..L : k <= n => On(r[n], c) = Effect(rows[k].payload)}
  <2>2. 0 \in T
    <3>1. ~(k <= 0) /\ 0 \in 0..L
      BY <1>1, <2>1
    <3> QED BY <3>1, Zenon
  <2>3. ASSUME NEW n \in 1..L, n - 1 \in T PROVE n \in T
    <3>1. n \in 0..L /\ n \in Nat /\ n - 1 \in 0..L
      OBVIOUS
    <3>2. CASE n < k
      <4>1. ~(k <= n)
        BY <2>1, <3>2
      <4> QED BY <3>1, <4>1, Zenon
    <3>3. CASE n = k
      <4>1. ~(n < begin)
        BY <1>1, <2>1, <3>3
      <4>2. r[n] = Apply(r[n - 1], rows[k].payload)
        BY <1>4, <3>1, <3>3, <4>1, Zenon
      <4>3. PICK before : before = r[n - 1]
        OBVIOUS
      <4>4. PICK payload : payload = rows[k].payload
        OBVIOUS
      <4>5. On(Apply(before, payload), c) = Effect(payload)
        BY <2>1, <4>4, AppliedOn
      <4>6. On(r[n], c) = Effect(rows[k].payload)
        BY <4>2, <4>3, <4>4, <4>5, Zenon
      <4> QED BY <3>1, <4>6, Zenon
    <3>4. CASE n > k
      <4>1. k <= n - 1 /\ begin <= n /\ n <= L /\ ~(n < begin) /\ ~(n <= k)
        BY <1>1, <2>1, <3>4
      <4>2. On(r[n - 1], c) = Effect(rows[k].payload)
        BY <2>3, <4>1
      <4>3. rows[n].payload.control # c
        BY <1>6, <1>8, <3>1, <4>1, Zenon DEF WroteLast
      <4>4. r[n] = Apply(r[n - 1], rows[n].payload)
        BY <1>4, <3>1, <4>1, Zenon
      <4>5. PICK before : before = r[n - 1]
        OBVIOUS
      <4>6. PICK payload : payload = rows[n].payload
        OBVIOUS
      <4>7. On(Apply(before, payload), c) = On(before, c)
        BY <4>3, <4>6, AppliedOn
      <4>8. On(r[n], c) = On(r[n - 1], c)
        BY <4>4, <4>5, <4>6, <4>7, Zenon
      <4> QED BY <3>1, <4>2, <4>8, Zenon
    <3> QED BY <2>1, <3>2, <3>3, <3>4
  <2>4. L \in T
    <3> HIDE DEF T
    <3>1. 0..L \subseteq T
      BY <1>1, <2>2, <2>3, StepByStep
    <3> QED BY <1>1, <3>1
  <2> QED BY <1>3, <2>1, <2>4, Zenon
<1> QED BY <1>3, <1>5, <1>7, <1>8, Zenon DEF Leaves

-----------------------------------------------------------------------------
(* Whole segments, one after the other                                     *)

\* Segments one by one, as ApplySegments defines it.
SegmentsApplied(script, order, r) ==
  r = [n \in 0..Len(order) |->
         IF n = 0 THEN AllNeutral
         ELSE LET s == script.segments[order[n]]
              IN ApplyRows(r[n - 1], script.rows, s.begin, s.end)]

\* One segment more.
NextSegment(script, order, n, before) ==
  LET s == script.segments[order[n]] IN ApplyRows(before, script.rows, s.begin, s.end)

\* Some of the script's segments, in some order.
IsOrder(script, order) == Len(order) \in Nat /\ \A n \in 1..Len(order) : order[n] \in 1..Len(script.segments)

LEMMA SegmentStretch ==
  ASSUME NEW script, Good(script), NEW i \in 1..Len(script.segments)
  PROVE  Stretch(script.rows, script.segments[i].begin, script.segments[i].end)
BY GoodScript DEF Stretch

LEMMA SegmentsAreApplied ==
  ASSUME NEW script, Good(script), NEW order, IsOrder(script, order)
  PROVE  \E r \in [0..Len(order) -> States(script.rows)] :
           SegmentsApplied(script, order, r) /\ ApplySegments(script, order) = r[Len(order)]
<1>1. PICK L \in Nat : L = Len(order)
  BY DEF IsOrder
<1> DEFINE X == States(script.rows)
           step == [n \in 1..L |-> [before \in X |-> NextSegment(script, order, n, before)]]
<1>2. ASSUME NEW n \in 1..L, NEW before \in X PROVE NextSegment(script, order, n, before) \in X
  <2>1. PICK i \in 1..Len(script.segments) : i = order[n]
    BY <1>1, Zenon DEF IsOrder
  <2>2. PICK s : s = script.segments[i]
    OBVIOUS
  <2>3. Stretch(script.rows, s.begin, s.end)
    BY <2>2, SegmentStretch, Zenon
  <2>4. ApplyRows(before, script.rows, s.begin, s.end) \in X
    BY <2>3, RowsLeave, Zenon DEF Leaves
  <2> QED BY <2>1, <2>2, <2>4, Zenon DEF NextSegment
<1>3. AllNeutral \in X
  BY Zenon DEF AllNeutral, States
<1> HIDE DEF X
<1>4. step \in [1..L -> [X -> X]]
  BY <1>2
<1>5. \A n \in 1..L, before \in X : step[n][before] = NextSegment(script, order, n, before)
  OBVIOUS
<1> HIDE DEF step
<1>6. PICK w \in [0..L -> X] : Follows(w, L, AllNeutral, step)
  BY <1>3, <1>4, StepsExist
<1>7. SegmentsApplied(script, order, w)
  <2>1. ASSUME NEW n \in 0..L
        PROVE  w[n] = IF n = 0 THEN AllNeutral
                      ELSE LET s == script.segments[order[n]]
                           IN ApplyRows(w[n - 1], script.rows, s.begin, s.end)
    <3>1. CASE n = 0
      BY <1>6, <3>1, Zenon DEF Follows
    <3>2. CASE n # 0
      <4>1. n \in 1..L
        BY <3>2
      <4>2. w[n - 1] \in X
        BY <4>1
      <4>3. w[n] = NextSegment(script, order, n, w[n - 1])
        BY <1>5, <1>6, <4>1, <4>2, Zenon DEF Follows
      <4> QED BY <3>2, <4>3, Zenon DEF NextSegment
    <3> QED BY <3>1, <3>2, Zenon
  <2>2. w = [n \in 0..L |-> w[n]]
    OBVIOUS
  <2>3. [n \in 0..L |-> w[n]] = [n \in 0..L |-> IF n = 0 THEN AllNeutral
                                                ELSE LET s == script.segments[order[n]]
                                                     IN ApplyRows(w[n - 1], script.rows, s.begin, s.end)]
    BY <2>1, Zenon
  <2> QED BY <1>1, <2>2, <2>3, Zenon DEF SegmentsApplied
<1> DEFINE r == CHOOSE u : SegmentsApplied(script, order, u)
<1>8. SegmentsApplied(script, order, r)
  BY <1>7, Zenon
<1>9. ApplySegments(script, order) = r[Len(order)]
  BY DEF ApplySegments, SegmentsApplied
<1> HIDE DEF r
<1>10. \A n \in 0..L : r[n] = IF n = 0 THEN AllNeutral ELSE NextSegment(script, order, n, r[n - 1])
  BY <1>1, <1>8, Zenon DEF SegmentsApplied, NextSegment
<1>11. \A n \in 0..L : w[n] = IF n = 0 THEN AllNeutral ELSE NextSegment(script, order, n, w[n - 1])
  BY <1>1, <1>7, Zenon DEF SegmentsApplied, NextSegment
<1>12. StepAlike(r, w, L)
  <2>1. 0 \in 0..L
    OBVIOUS
  <2>2. r[0] = w[0]
    BY <1>10, <1>11, <2>1, Zenon
  <2>3. ASSUME NEW n \in 1..L, r[n - 1] = w[n - 1] PROVE r[n] = w[n]
    <3>1. n \in 0..L
      OBVIOUS
    <3> QED BY <1>10, <1>11, <2>3, <3>1, Zenon
  <2> QED BY <2>2, <2>3, Zenon DEF StepAlike
<1>13. \A n \in 0..L : r[n] = w[n]
  BY <1>12, StepsAgree
<1>14. L \in 0..L
  OBVIOUS
<1> QED BY <1>1, <1>7, <1>9, <1>13, <1>14, Zenon DEF X

-----------------------------------------------------------------------------
(* The last segment of a control counts                                    *)

LEMMA GreatestNumber ==
  ASSUME NEW L \in Nat, NEW S, S \subseteq 0..L, S # {}
  PROVE  \E m \in S : \A n \in S : n <= m
<1> DEFINE D == {d \in 0..L : L - d \in S}
<1>1. D \subseteq Nat
  OBVIOUS
<1>2. D # {}
  <2>1. PICK n \in 0..L : n \in S
    BY Zenon
  <2>2. L - n \in 0..L /\ L - (L - n) = n
    OBVIOUS
  <2>3. L - n \in D
    BY <2>1, <2>2
  <2> QED BY <2>3
<1>3. PICK d \in D : \A e \in D : d <= e
  <2> HIDE DEF D
  <2> QED BY <1>1, <1>2, LeastNumber
<1>4. ASSUME NEW n \in S PROVE n <= L - d
  <2>1. n \in 0..L
    BY Zenon
  <2>2. L - n \in 0..L /\ L - (L - n) = n
    BY <2>1
  <2>3. L - n \in D
    BY <2>1, <2>2
  <2>4. d <= L - n /\ d \in 0..L
    BY <1>3, <2>3
  <2> QED BY <2>1, <2>4
<1> QED BY <1>3, <1>4

\* No row of a segment is about a control.
SegNone(script, i, c) == WroteNone(script.rows, script.segments[i].begin, script.segments[i].end, c)

\* The last row of a segment that is about a control.
SegLast(script, i, c, k) == WroteLast(script.rows, script.segments[i].begin, script.segments[i].end, c, k)

LEMMA NoneOrLast ==
  ASSUME NEW script, Good(script), NEW i \in 1..Len(script.segments), NEW c, ~SegNone(script, i, c)
  PROVE  \E k \in 1..Len(script.rows) : SegLast(script, i, c, k)
<1>1. PICK begin \in Nat : begin = script.segments[i].begin /\ begin >= 1
  BY GoodScript
<1>2. PICK end \in Nat : end = script.segments[i].end /\ end <= Len(script.rows) + 1
  BY GoodScript
<1>3. PICK R \in Nat : R = Len(script.rows)
  BY GoodScript
<1> DEFINE S == {n \in 0..R : begin <= n /\ n < end /\ script.rows[n].payload.control = c}
<1>4. PICK n \in Nat : begin <= n /\ n < end /\ script.rows[n].payload.control = c
  BY <1>1, <1>2, Zenon DEF SegNone, WroteNone
<1>5. n \in 0..R
  BY <1>2, <1>3, <1>4
<1>6. n \in S
  BY <1>4, <1>5
<1>7. S \subseteq 0..R
  OBVIOUS
<1> HIDE DEF S
<1>8. PICK k \in S : \A m \in S : m <= k
  BY <1>6, <1>7, GreatestNumber
<1>9. k \in 0..R /\ begin <= k /\ k < end /\ script.rows[k].payload.control = c
  BY <1>8 DEF S
<1>10. k \in Nat /\ k \in 1..R
  BY <1>1, <1>9
<1>11. ASSUME NEW m \in Nat, begin <= m, m < end, script.rows[m].payload.control = c PROVE m <= k
  <2>1. m \in 0..R
    BY <1>2, <1>3, <1>11
  <2>2. m \in S
    BY <1>11, <2>1 DEF S
  <2> QED BY <1>8, <2>2
<1> QED BY <1>1, <1>2, <1>3, <1>9, <1>10, <1>11, Zenon DEF SegLast, WroteLast

\* What a segment leaves on a control.
SegLeft(script, i, before, after) ==
  /\ \A c : SegNone(script, i, c) => On(after, c) = On(before, c)
  /\ \A c, k : SegLast(script, i, c, k) => On(after, c) = Effect(script.rows[k].payload)

LEMMA SegmentLeaves ==
  ASSUME NEW script, Good(script), NEW i \in 1..Len(script.segments), NEW before \in States(script.rows), NEW after,
         after = ApplyRows(before, script.rows, script.segments[i].begin, script.segments[i].end)
  PROVE  SegLeft(script, i, before, after)
<1>1. PICK s : s = script.segments[i]
  OBVIOUS
<1>2. Stretch(script.rows, s.begin, s.end)
  BY <1>1, SegmentStretch, Zenon
<1>3. Leaves(script.rows, s.begin, s.end, before, ApplyRows(before, script.rows, s.begin, s.end))
  BY <1>2, RowsLeave, Zenon
<1>4. Leaves(script.rows, s.begin, s.end, before, after)
  BY <1>1, <1>3, Zenon
<1> QED BY <1>1, <1>4, Zenon DEF Leaves, SegNone, SegLast, SegLeft

\* No segment of an order from one on writes a control.
NoneFrom(script, order, n, c) == \A m \in 1..Len(order) : n < m => SegNone(script, order[m], c)

\* What an order of segments leaves on a control.
OrderLeaves(script, order, left) ==
  /\ left \in States(script.rows)
  /\ \A c : NoneFrom(script, order, 0, c) => On(left, c) = On(AllNeutral, c)
  /\ \A c, k : \A n \in 1..Len(order) :
       SegLast(script, order[n], c, k) /\ NoneFrom(script, order, n, c) =>
         On(left, c) = Effect(script.rows[k].payload)

LEMMA SegmentsLeave ==
  ASSUME NEW script, Good(script), NEW order, IsOrder(script, order), NEW left, left = ApplySegments(script, order)
  PROVE  OrderLeaves(script, order, left)
<1>1. PICK L \in Nat : L = Len(order)
  BY DEF IsOrder
<1>2. PICK r \in [0..L -> States(script.rows)] : SegmentsApplied(script, order, r) /\ left = r[L]
  BY <1>1, SegmentsAreApplied, Zenon
<1>3. \A n \in 0..L : r[n] = IF n = 0 THEN AllNeutral ELSE NextSegment(script, order, n, r[n - 1])
  BY <1>1, <1>2, Zenon DEF SegmentsApplied, NextSegment
<1>4. left \in States(script.rows)
  <2>1. L \in 0..L
    OBVIOUS
  <2> QED BY <1>2, <2>1, Zenon
<1>5. ASSUME NEW n \in 1..L
      PROVE  SegLeft(script, order[n], r[n - 1], r[n])
  <2>1. n \in 0..L /\ n # 0 /\ n - 1 \in 0..L
    OBVIOUS
  <2>2. PICK i \in 1..Len(script.segments) : i = order[n]
    BY <1>1, Zenon DEF IsOrder
  <2>3. PICK before \in States(script.rows) : before = r[n - 1]
    BY <2>1
  <2>4. r[n] = ApplyRows(before, script.rows, script.segments[i].begin, script.segments[i].end)
    BY <1>3, <2>1, <2>2, <2>3, Zenon DEF NextSegment
  <2>5. PICK after : after = r[n]
    OBVIOUS
  <2>6. SegLeft(script, i, before, after)
    BY <2>4, <2>5, SegmentLeaves, Zenon
  <2> QED BY <2>2, <2>3, <2>5, <2>6, Zenon
<1>6. r[0] = AllNeutral
  <2>1. 0 \in 0..L
    OBVIOUS
  <2> QED BY <1>3, <2>1, Zenon
<1>7. ASSUME NEW c, NoneFrom(script, order, 0, c) PROVE On(left, c) = On(AllNeutral, c)
  <2> DEFINE T == {n \in 0..L : On(r[n], c) = On(AllNeutral, c)}
  <2>1. 0 \in T
    BY <1>6
  <2>2. ASSUME NEW n \in 1..L, n - 1 \in T PROVE n \in T
    <3>1. n \in 0..L /\ 0 < n
      OBVIOUS
    <3>2. SegNone(script, order[n], c)
      BY <1>1, <1>7, <3>1, Zenon DEF NoneFrom
    <3>3. On(r[n], c) = On(r[n - 1], c)
      BY <1>5, <3>2, Zenon DEF SegLeft
    <3>4. On(r[n - 1], c) = On(AllNeutral, c)
      BY <2>2
    <3> QED BY <3>1, <3>3, <3>4, Zenon
  <2>3. L \in T
    <3> HIDE DEF T
    <3>1. 0..L \subseteq T
      BY <2>1, <2>2, StepByStep
    <3> QED BY <3>1
  <2> QED BY <1>2, <2>3, Zenon
<1>8. ASSUME NEW c, NEW k, NEW m \in 1..L, SegLast(script, order[m], c, k), NoneFrom(script, order, m, c)
      PROVE  On(left, c) = Effect(script.rows[k].payload)
  <2> DEFINE T == {n \in 0..L : m <= n => On(r[n], c) = Effect(script.rows[k].payload)}
  <2>1. 0 \in T
    <3>1. 0 \in 0..L /\ ~(m <= 0)
      OBVIOUS
    <3> QED BY <3>1, Zenon
  <2>2. ASSUME NEW n \in 1..L, n - 1 \in T PROVE n \in T
    <3>1. n \in 0..L
      OBVIOUS
    <3>2. CASE n < m
      <4>1. ~(m <= n)
        BY <3>2
      <4> QED BY <3>1, <4>1, Zenon
    <3>3. CASE n = m
      <4>1. On(r[n], c) = Effect(script.rows[k].payload)
        BY <1>5, <1>8, <3>3, Zenon DEF SegLeft
      <4> QED BY <3>1, <4>1, Zenon
    <3>4. CASE m < n
      <4>1. m <= n - 1
        BY <3>4
      <4>2. On(r[n - 1], c) = Effect(script.rows[k].payload)
        BY <2>2, <4>1
      <4>3. SegNone(script, order[n], c)
        BY <1>1, <1>8, <3>4, Zenon DEF NoneFrom
      <4>4. On(r[n], c) = On(r[n - 1], c)
        BY <1>5, <4>3, Zenon DEF SegLeft
      <4> QED BY <3>1, <4>2, <4>4, Zenon
    <3> QED BY <3>2, <3>3, <3>4
  <2>3. L \in T
    <3> HIDE DEF T
    <3>1. 0..L \subseteq T
      BY <2>1, <2>2, StepByStep
    <3> QED BY <3>1
  <2>4. m <= L
    OBVIOUS
  <2> QED BY <1>2, <2>3, <2>4, Zenon
<1> QED BY <1>1, <1>4, <1>7, <1>8, Zenon DEF OrderLeaves

-----------------------------------------------------------------------------
(* The segments that ran, the oldest first                                 *)

\* The last lap of a selector before another lap; none is 0.
LastIs(w, lap, n) ==
  /\ n \in Nat
  /\ n = 0 => (\A l \in 1..(lap - 1) : ~RunsOn(w, l))
  /\ n # 0 => n \in 1..(lap - 1) /\ RunsOn(w, n) /\ (\A l \in 1..(lap - 1) : RunsOn(w, l) => l <= n)

LEMMA LastRunIs ==
  ASSUME NEW w \in Selectors, NEW lap \in 1..MaxLap
  PROVE  LastIs(w, lap, LastRunBefore(w, lap))
<1> DEFINE S == {l \in 1..(lap - 1) : RunsOn(w, l)}
<1>1. LastRunBefore(w, lap) = IF S = {} THEN 0 ELSE Max(S)
  BY LapArithmetic, Zenon
<1>2. PICK L \in Nat : L = lap - 1
  BY LapsAssumption
<1>3. CASE S = {}
  <2>1. LastRunBefore(w, lap) = 0 /\ 0 \in Nat
    BY <1>1, <1>3
  <2>2. \A l \in 1..(lap - 1) : ~RunsOn(w, l)
    BY <1>3, Zenon
  <2> QED BY <2>1, <2>2, Zenon DEF LastIs
<1>4. CASE S # {}
  <2>1. S \subseteq 0..L /\ S \subseteq Nat
    BY <1>2
  <2>2. PICK n \in S : \A l \in S : l <= n
    <3> HIDE DEF S
    <3> QED BY <1>4, <2>1, GreatestNumber
  <2>3. LastRunBefore(w, lap) = n
    <3>1. Max(S) = n
      <4> HIDE DEF S
      <4> QED BY <2>1, <2>2, LastOf
    <3> QED BY <1>1, <1>4, <3>1, Zenon
  <2>4. n \in 1..(lap - 1) /\ RunsOn(w, n) /\ n \in Nat /\ n # 0
    BY <2>1, <2>2
  <2>5. \A l \in 1..(lap - 1) : RunsOn(w, l) => l <= n
    BY <2>2
  <2> QED BY <2>3, <2>4, <2>5, Zenon DEF LastIs
<1> QED BY <1>3, <1>4

\* The last lap before this one on which a segment ran.
LatestOf(script, lap, i) == LastRunBefore(script.segments[i].when, lap)

\* The segments that ran on some lap before.
RanBefore(script, lap) == {i \in DOMAIN script.segments : LatestOf(script, lap, i) # 0}

\* One segment ran last before the other did.
Earlier(script, lap, i, j) ==
  LatestOf(script, lap, i) < LatestOf(script, lap, j)
    \/ (LatestOf(script, lap, i) = LatestOf(script, lap, j) /\ i < j)

\* The segments that ran last before this one did.
Older(script, lap, i) == {j \in RanBefore(script, lap) : Earlier(script, lap, j, i)}

\* The place of a segment among those that ran.
PlaceOf(script, lap, i) == Cardinality(Older(script, lap, i)) + 1

\* The segments that ran, each at its place.
InPlace(script, lap, ran) == [n \in 1..Cardinality(ran) |-> CHOOSE i \in ran : PlaceOf(script, lap, i) = n]

LEMMA OldestFirstIs ==
  ASSUME NEW script, NEW lap
  PROVE  OldestFirst(script, lap) = InPlace(script, lap, RanBefore(script, lap))
BY Zenon DEF OldestFirst, InPlace, RanBefore, PlaceOf, Older, Earlier, LatestOf

LEMMA LatestType ==
  ASSUME NEW script, Good(script), NEW lap \in 1..MaxLap, NEW i \in 1..Len(script.segments)
  PROVE  LastIs(script.segments[i].when, lap, LatestOf(script, lap, i)) /\ LatestOf(script, lap, i) \in Nat
<1>1. script.segments[i].when \in Selectors
  BY GoodScript, Zenon DEF Good, IsSegments, IsSegment
<1>2. LastIs(script.segments[i].when, lap, LatestOf(script, lap, i))
  BY <1>1, LastRunIs, Zenon DEF LatestOf
<1> QED BY <1>2, Zenon DEF LastIs

\* A strict order.
LEMMA EarlierOrders ==
  ASSUME NEW script, Good(script), NEW lap \in 1..MaxLap,
         NEW i \in 1..Len(script.segments), NEW j \in 1..Len(script.segments)
  PROVE  /\ ~(Earlier(script, lap, i, j) /\ Earlier(script, lap, j, i))
         /\ i = j \/ Earlier(script, lap, i, j) \/ Earlier(script, lap, j, i)
         /\ \A k \in 1..Len(script.segments) :
              Earlier(script, lap, k, i) /\ Earlier(script, lap, i, j) => Earlier(script, lap, k, j)
<1>1. PICK a \in Nat : a = LatestOf(script, lap, i)
  BY LatestType
<1>2. PICK b \in Nat : b = LatestOf(script, lap, j)
  BY LatestType
<1>3. Len(script.segments) \in Nat
  BY GoodScript, Zenon
<1>4. ASSUME NEW k \in 1..Len(script.segments), Earlier(script, lap, k, i), Earlier(script, lap, i, j)
      PROVE  Earlier(script, lap, k, j)
  <2>1. PICK d \in Nat : d = LatestOf(script, lap, k)
    BY LatestType
  <2>2. d < a \/ (d = a /\ k < i)
    BY <1>1, <1>4, <2>1, Zenon DEF Earlier
  <2>3. a < b \/ (a = b /\ i < j)
    BY <1>1, <1>2, <1>4, Zenon DEF Earlier
  <2>4. d < b \/ (d = b /\ k < j)
    BY <1>3, <2>2, <2>3
  <2> QED BY <1>2, <2>1, <2>4, Zenon DEF Earlier
<1>5. Earlier(script, lap, i, j) <=> a < b \/ (a = b /\ i < j)
  BY <1>1, <1>2, Zenon DEF Earlier
<1>6. Earlier(script, lap, j, i) <=> b < a \/ (b = a /\ j < i)
  BY <1>1, <1>2, Zenon DEF Earlier
<1>7. i = j \/ Earlier(script, lap, i, j) \/ Earlier(script, lap, j, i)
  BY <1>3, <1>5, <1>6
<1>8. ~(Earlier(script, lap, i, j) /\ Earlier(script, lap, j, i))
  BY <1>3, <1>5, <1>6
<1> QED BY <1>4, <1>7, <1>8, Zenon

LEMMA PlacesOf ==
  ASSUME NEW script, Good(script), NEW lap \in 1..MaxLap, NEW ran, ran = RanBefore(script, lap)
  PROVE  /\ IsFiniteSet(ran) /\ Cardinality(ran) \in Nat /\ ran \subseteq 1..Len(script.segments)
         /\ \A i \in ran : PlaceOf(script, lap, i) \in 1..Cardinality(ran)
         /\ \A i \in ran, j \in ran :
              Earlier(script, lap, i, j) => PlaceOf(script, lap, i) < PlaceOf(script, lap, j)
<1>1. Len(script.segments) \in Nat /\ DOMAIN script.segments = 1..Len(script.segments)
  BY GoodScript, Zenon
<1>2. ran \subseteq 1..Len(script.segments)
  BY <1>1, Zenon DEF RanBefore
<1>3. IsFiniteSet(1..Len(script.segments))
  <2>1. PICK L \in Int : L = Len(script.segments)
    BY <1>1
  <2>2. 1 \in Int
    OBVIOUS
  <2>3. IsFiniteSet(1..L)
    BY <2>2, FS_Interval
  <2> QED BY <2>1, <2>3, Zenon
<1>4. IsFiniteSet(ran)
  BY <1>2, <1>3, FS_Subset
<1>5. PICK K \in Nat : K = Cardinality(ran)
  BY <1>4, FS_CardinalityType
<1>6. ASSUME NEW i \in ran PROVE IsFiniteSet(Older(script, lap, i)) /\ Older(script, lap, i) \subseteq ran
  <2>1. Older(script, lap, i) \subseteq ran
    BY Zenon DEF Older
  <2> QED BY <1>4, <2>1, FS_Subset
<1>7. ASSUME NEW i \in ran PROVE PlaceOf(script, lap, i) \in 1..K
  <2>1. PICK older : older = Older(script, lap, i)
    OBVIOUS
  <2>2. i \notin older
    <3>1. i \in 1..Len(script.segments)
      BY <1>2
    <3> QED BY <2>1, <3>1, EarlierOrders, Zenon DEF Older
  <2>3. older \subseteq ran \ {i} /\ IsFiniteSet(older)
    BY <1>6, <2>1, <2>2, Zenon
  <2>4. IsFiniteSet(ran \ {i}) /\ Cardinality(ran \ {i}) = K - 1
    BY <1>4, <1>5, FS_RemoveElement
  <2>5. Cardinality(older) <= Cardinality(ran \ {i}) /\ Cardinality(older) \in Nat
    BY <2>3, <2>4, FS_Subset, FS_CardinalityType
  <2>6. PICK n \in Nat : n = Cardinality(older) /\ n <= K - 1
    BY <2>4, <2>5
  <2>7. n + 1 \in 1..K
    BY <2>6
  <2> QED BY <2>1, <2>6, <2>7, Zenon DEF PlaceOf
<1>8. ASSUME NEW i \in ran, NEW j \in ran, Earlier(script, lap, i, j)
      PROVE  PlaceOf(script, lap, i) < PlaceOf(script, lap, j)
  <2>1. PICK older : older = Older(script, lap, i)
    OBVIOUS
  <2>2. PICK more : more = Older(script, lap, j)
    OBVIOUS
  <2>3. i \in 1..Len(script.segments) /\ j \in 1..Len(script.segments)
    BY <1>2
  <2>4. i \notin older
    BY <2>1, <2>3, EarlierOrders, Zenon DEF Older
  <2>5. ASSUME NEW k \in older PROVE k \in more
    <3>1. k \in ran /\ Earlier(script, lap, k, i)
      BY <2>1, Zenon DEF Older
    <3>2. k \in 1..Len(script.segments)
      BY <1>2, <3>1
    <3>3. Earlier(script, lap, k, j)
      BY <1>8, <2>3, <3>1, <3>2, EarlierOrders, Zenon
    <3> QED BY <2>2, <3>1, <3>3, Zenon DEF Older
  <2>6. i \in more
    BY <1>8, <2>2, Zenon DEF Older
  <2>7. older \union {i} \subseteq more
    BY <2>5, <2>6, Zenon
  <2>8. IsFiniteSet(older) /\ IsFiniteSet(more)
    BY <1>6, <2>1, <2>2, Zenon
  <2>9. IsFiniteSet(older \union {i}) /\ Cardinality(older \union {i}) = Cardinality(older) + 1
    BY <2>4, <2>8, FS_AddElement
  <2>10. Cardinality(older \union {i}) <= Cardinality(more)
    BY <2>7, <2>8, FS_Subset
  <2>11. PICK n \in Nat : n = Cardinality(older)
    BY <2>8, FS_CardinalityType
  <2>12. PICK m \in Nat : m = Cardinality(more)
    BY <2>8, FS_CardinalityType
  <2>13. n + 1 < m + 1
    BY <2>9, <2>10, <2>11, <2>12
  <2> QED BY <2>1, <2>2, <2>11, <2>12, <2>13, Zenon DEF PlaceOf
<1> QED BY <1>2, <1>4, <1>5, <1>7, <1>8, Zenon

\* Each segment that ran is in its place.
OldestOrder(script, lap, order) ==
  /\ IsOrder(script, order)
  /\ \A n \in 1..Len(order) : order[n] \in RanBefore(script, lap)
  /\ \A i \in RanBefore(script, lap) : \E n \in 1..Len(order) : order[n] = i
  /\ \A m, n \in 1..Len(order) : m < n => Earlier(script, lap, order[m], order[n])

LEMMA OldestFirstOrders ==
  ASSUME NEW script, Good(script), NEW lap \in 1..MaxLap
  PROVE  OldestOrder(script, lap, OldestFirst(script, lap))
<1>1. PICK ran : ran = RanBefore(script, lap)
  OBVIOUS
<1>2. PICK K \in Nat : K = Cardinality(ran)
  BY <1>1, PlacesOf, Zenon
<1>3. /\ IsFiniteSet(ran) /\ ran \subseteq 1..Len(script.segments)
      /\ \A i \in ran : PlaceOf(script, lap, i) \in 1..K
      /\ \A i \in ran, j \in ran : Earlier(script, lap, i, j) => PlaceOf(script, lap, i) < PlaceOf(script, lap, j)
  BY <1>1, <1>2, PlacesOf, Zenon
<1> DEFINE f == [i \in ran |-> PlaceOf(script, lap, i)]
<1>4. ASSUME NEW i \in ran, NEW j \in ran, i # j PROVE PlaceOf(script, lap, i) # PlaceOf(script, lap, j)
  <2>1. i \in 1..Len(script.segments) /\ j \in 1..Len(script.segments)
    BY <1>3
  <2>2. Earlier(script, lap, i, j) \/ Earlier(script, lap, j, i)
    BY <1>4, <2>1, EarlierOrders, Zenon
  <2>3. PlaceOf(script, lap, i) < PlaceOf(script, lap, j) \/ PlaceOf(script, lap, j) < PlaceOf(script, lap, i)
    BY <1>3, <2>2, Zenon
  <2>4. PICK n \in 1..K : n = PlaceOf(script, lap, i)
    BY <1>3
  <2>5. PICK m \in 1..K : m = PlaceOf(script, lap, j)
    BY <1>3
  <2> QED BY <2>3, <2>4, <2>5
<1>5. f \in Injection(ran, 1..K)
  <2>1. f \in [ran -> 1..K]
    BY <1>3
  <2>2. \A i, j \in ran : f[i] = f[j] => i = j
    BY <1>4
  <2> HIDE DEF f
  <2> QED BY <2>1, <2>2, Zenon DEF Injection, IsInjective
<1>6. f \in Surjection(ran, 1..K)
  <2> HIDE DEF f
  <2>1. IsFiniteSet(1..K) /\ Cardinality(1..K) = K
    BY FS_Interval
  <2> QED BY <1>2, <1>5, <2>1, FS_Injection
<1>7. ASSUME NEW n \in 1..K PROVE \E i \in ran : PlaceOf(script, lap, i) = n
  <2>1. \E i \in ran : f[i] = n
    BY <1>6, Zenon DEF Surjection
  <2> QED BY <2>1
<1>8. PICK order : order = OldestFirst(script, lap)
  OBVIOUS
<1>9. order = [n \in 1..K |-> CHOOSE i \in ran : PlaceOf(script, lap, i) = n]
  <2>1. order = InPlace(script, lap, ran)
    BY <1>1, <1>8, OldestFirstIs, Zenon
  <2>2. InPlace(script, lap, ran) = [n \in 1..Cardinality(ran) |-> CHOOSE i \in ran : PlaceOf(script, lap, i) = n]
    BY DEF InPlace
  <2> QED BY <1>2, <2>1, <2>2, Zenon
<1>10. ASSUME NEW n \in 1..K PROVE order[n] \in ran /\ PlaceOf(script, lap, order[n]) = n
  <2>1. order[n] = CHOOSE i \in ran : PlaceOf(script, lap, i) = n
    BY <1>9, Zenon
  <2> QED BY <1>7, <2>1, Zenon
<1>11. Len(order) = K
  <2>1. DOMAIN order = 1..K
    BY <1>9, Zenon
  <2>2. order \in [1..K -> ran]
    <3>1. order = [n \in 1..K |-> order[n]]
      <4> DEFINE g == [n \in 1..K |-> CHOOSE i \in ran : PlaceOf(script, lap, i) = n]
      <4>1. g = [n \in 1..K |-> g[n]]
        OBVIOUS
      <4> HIDE DEF g
      <4>2. order = g
        BY <1>9 DEF g
      <4> QED BY <4>1, <4>2, Zenon
    <3> QED BY <1>10, <3>1
  <2>3. order \in Seq(ran)
    BY <2>2
  <2>4. DOMAIN order = 1..Len(order) /\ Len(order) \in Nat
    BY <2>3
  <2> QED BY <2>1, <2>4
<1>12. IsOrder(script, order)
  BY <1>3, <1>10, <1>11, Zenon DEF IsOrder
<1>13. ASSUME NEW i \in ran PROVE \E n \in 1..K : order[n] = i
  <2>1. PICK n \in 1..K : n = PlaceOf(script, lap, i)
    BY <1>3
  <2>2. order[n] \in ran /\ PlaceOf(script, lap, order[n]) = PlaceOf(script, lap, i)
    BY <1>10, <2>1, Zenon
  <2> QED BY <1>4, <2>2, Zenon
<1>14. ASSUME NEW m \in 1..K, NEW n \in 1..K, m < n PROVE Earlier(script, lap, order[m], order[n])
  <2>1. PICK i \in ran : i = order[m] /\ PlaceOf(script, lap, i) = m
    BY <1>10, Zenon
  <2>2. PICK j \in ran : j = order[n] /\ PlaceOf(script, lap, j) = n
    BY <1>10, Zenon
  <2>3. i # j
    BY <1>14, <2>1, <2>2
  <2>4. ~(n < m)
    BY <1>14
  <2>5. ~Earlier(script, lap, j, i)
    BY <1>3, <2>1, <2>2, <2>4, Zenon
  <2>6. i \in 1..Len(script.segments) /\ j \in 1..Len(script.segments)
    BY <1>3
  <2>7. Earlier(script, lap, i, j)
    BY <2>3, <2>5, <2>6, EarlierOrders, Zenon
  <2> QED BY <2>1, <2>2, <2>7, Zenon
<1> QED BY <1>1, <1>8, <1>10, <1>11, <1>12, <1>13, <1>14, Zenon DEF OldestOrder

-----------------------------------------------------------------------------
(* What the earlier laps leave                                             *)

\* The segment that last wrote a control before a lap.
Decides(script, lap, i, c) ==
  /\ i \in RanBefore(script, lap) /\ ~SegNone(script, i, c)
  /\ \A j \in RanBefore(script, lap) : ~SegNone(script, j, c) /\ j # i => Earlier(script, lap, j, i)

\* No segment that ran is about a control.
NoneDecides(script, lap, c) == \A i \in RanBefore(script, lap) : SegNone(script, i, c)

LEMMA DecidesOrNone ==
  ASSUME NEW script, Good(script), NEW lap \in 1..MaxLap, NEW c, ~NoneDecides(script, lap, c)
  PROVE  \E i \in 1..Len(script.segments) : Decides(script, lap, i, c)
<1>1. PICK order : OldestOrder(script, lap, order)
  BY OldestFirstOrders
<1>2. PICK L \in Nat : L = Len(order)
  BY <1>1 DEF OldestOrder, IsOrder
<1> DEFINE S == {n \in 0..L : n \in 1..L /\ ~SegNone(script, order[n], c)}
<1>3. PICK i \in RanBefore(script, lap) : ~SegNone(script, i, c)
  BY Zenon DEF NoneDecides
<1>4. PICK n \in 1..L : order[n] = i
  BY <1>1, <1>2, Zenon DEF OldestOrder
<1>5. n \in S
  <2>1. n \in 0..L
    OBVIOUS
  <2> QED BY <1>3, <1>4, <2>1, Zenon
<1>6. S \subseteq 0..L
  OBVIOUS
<1> HIDE DEF S
<1>7. PICK m \in S : \A k \in S : k <= m
  BY <1>5, <1>6, GreatestNumber
<1>8. m \in 1..L /\ ~SegNone(script, order[m], c)
  BY <1>7, Zenon DEF S
<1>9. PICK d \in 1..Len(script.segments) : d = order[m] /\ d \in RanBefore(script, lap)
  BY <1>1, <1>2, <1>8, Zenon DEF OldestOrder, IsOrder
<1>10. ASSUME NEW j \in RanBefore(script, lap), ~SegNone(script, j, c), j # d PROVE Earlier(script, lap, j, d)
  <2>1. PICK k \in 1..L : order[k] = j
    BY <1>1, <1>2, Zenon DEF OldestOrder
  <2>2. k \in 0..L
    OBVIOUS
  <2>3. k \in S
    BY <1>10, <2>1, <2>2, Zenon DEF S
  <2>4. k <= m /\ k # m
    BY <1>7, <1>9, <1>10, <2>1, <2>3, Zenon
  <2>5. k < m
    BY <1>8, <2>4
  <2> QED BY <1>1, <1>2, <1>8, <1>9, <2>1, <2>5, Zenon DEF OldestOrder
<1> QED BY <1>8, <1>9, <1>10, Zenon DEF Decides

\* What the earlier laps leave on a control.
LapsLeave(script, lap, left) ==
  /\ left \in States(script.rows)
  /\ \A c : NoneDecides(script, lap, c) => On(left, c) = On(AllNeutral, c)
  /\ \A c, i, k : Decides(script, lap, i, c) /\ SegLast(script, i, c, k) =>
       On(left, c) = Effect(script.rows[k].payload)

LEMMA EarlierLapsLeave ==
  ASSUME NEW script, Good(script), NEW lap \in 1..MaxLap
  PROVE  LapsLeave(script, lap, ApplySegments(script, OldestFirst(script, lap)))
<1>1. PICK order : order = OldestFirst(script, lap) /\ OldestOrder(script, lap, order)
  BY OldestFirstOrders
<1>2. PICK L \in Nat : L = Len(order)
  BY <1>1 DEF OldestOrder, IsOrder
<1>3. PICK left : left = ApplySegments(script, order)
  OBVIOUS
<1>4. IsOrder(script, order)
  BY <1>1, Zenon DEF OldestOrder
<1>5. OrderLeaves(script, order, left)
  BY <1>3, <1>4, SegmentsLeave, Zenon
<1>6. ASSUME NEW c, NoneDecides(script, lap, c) PROVE On(left, c) = On(AllNeutral, c)
  <2>1. ASSUME NEW m \in 1..Len(order) PROVE SegNone(script, order[m], c)
    BY <1>1, <1>6, Zenon DEF NoneDecides, OldestOrder
  <2>2. NoneFrom(script, order, 0, c)
    BY <2>1, Zenon DEF NoneFrom
  <2> QED BY <1>5, <2>2, Zenon DEF OrderLeaves
<1>7. ASSUME NEW c, NEW i, NEW k, Decides(script, lap, i, c), SegLast(script, i, c, k)
      PROVE  On(left, c) = Effect(script.rows[k].payload)
  <2>1. PICK n \in 1..L : order[n] = i
    BY <1>1, <1>2, <1>7, Zenon DEF OldestOrder, Decides
  <2>2. ASSUME NEW m \in 1..Len(order), n < m PROVE SegNone(script, order[m], c)
    <3>1. PICK j : j = order[m] /\ j \in RanBefore(script, lap)
      BY <1>1, Zenon DEF OldestOrder
    <3>2. Earlier(script, lap, i, j)
      BY <1>1, <1>2, <2>1, <2>2, <3>1, Zenon DEF OldestOrder
    <3>3. i \in 1..Len(script.segments) /\ j \in 1..Len(script.segments)
      <4>1. DOMAIN script.segments = 1..Len(script.segments)
        BY GoodScript, Zenon
      <4> QED BY <1>7, <3>1, <4>1, Zenon DEF Decides, RanBefore
    <3>4. ~Earlier(script, lap, j, i)
      BY <3>2, <3>3, EarlierOrders, Zenon
    <3>5. j # i
      BY <3>2, <3>4, Zenon
    <3> QED BY <1>7, <3>1, <3>4, <3>5, Zenon DEF Decides
  <2>3. NoneFrom(script, order, n, c)
    BY <2>2, Zenon DEF NoneFrom
  <2>4. SegLast(script, order[n], c, k)
    BY <1>7, <2>1, Zenon
  <2> QED BY <1>2, <1>5, <2>3, <2>4, Zenon DEF OrderLeaves
<1> QED BY <1>1, <1>3, <1>5, <1>6, <1>7, Zenon DEF LapsLeave, OrderLeaves

-----------------------------------------------------------------------------
(* state_at()                                                              *)

\* One row of a lap: it counts if it runs.
NextAt(script, lap, n, before) ==
  IF RowRuns(script, n, lap) THEN Apply(before, script.rows[n].payload) ELSE before

\* A lap row by row, as StateAt defines it.
StatesAre(script, lap, row, r) ==
  r = [n \in 0 .. row - 1 |->
         IF n = 0 THEN ApplySegments(script, OldestFirst(script, lap))
         ELSE IF RowRuns(script, n, lap) THEN Apply(r[n - 1], script.rows[n].payload)
         ELSE r[n - 1]]

\* The states of a lap, row by row.
StatesOf(script, lap, w) ==
  /\ w \in [0..Len(script.rows) -> States(script.rows)]
  /\ w[0] = ApplySegments(script, OldestFirst(script, lap))
  /\ \A n \in 1..Len(script.rows) : w[n] = NextAt(script, lap, n, w[n - 1])
  /\ \A row \in 1..(Len(script.rows) + 1) : StateAt(script, lap, row) = w[row - 1]

LEMMA StatesExist ==
  ASSUME NEW script, Good(script), NEW lap \in 1..MaxLap
  PROVE  \E w : StatesOf(script, lap, w)
<1>1. PICK R \in Nat : R = Len(script.rows) /\ DOMAIN script.rows = 1..R
  BY GoodScript, Zenon
<1>2. PICK first : first = ApplySegments(script, OldestFirst(script, lap))
  OBVIOUS
<1> DEFINE X == States(script.rows)
           step == [n \in 1..R |-> [before \in X |-> NextAt(script, lap, n, before)]]
<1>3. ASSUME NEW n \in 1..R, NEW before \in X PROVE NextAt(script, lap, n, before) \in X
  <2>1. CASE RowRuns(script, n, lap)
    <3>1. n \in DOMAIN script.rows
      BY <1>1, Zenon
    <3>2. Apply(before, script.rows[n].payload) \in X
      BY <3>1, AppliedState, Zenon
    <3> QED BY <2>1, <3>2, Zenon DEF NextAt
  <2>2. CASE ~RowRuns(script, n, lap)
    BY <2>2, Zenon DEF NextAt
  <2> QED BY <2>1, <2>2
<1>4. first \in X
  BY <1>2, EarlierLapsLeave, Zenon DEF LapsLeave
<1> HIDE DEF X
<1>5. step \in [1..R -> [X -> X]]
  BY <1>3
<1>6. \A n \in 1..R, before \in X : step[n][before] = NextAt(script, lap, n, before)
  OBVIOUS
<1> HIDE DEF step
<1>7. PICK w \in [0..R -> X] : Follows(w, R, first, step)
  BY <1>4, <1>5, StepsExist
<1>8. w[0] = first
  BY <1>7, Zenon DEF Follows
<1>9. ASSUME NEW n \in 1..R PROVE w[n] = NextAt(script, lap, n, w[n - 1])
  <2>1. w[n - 1] \in X
    OBVIOUS
  <2> QED BY <1>6, <1>7, <2>1, Zenon DEF Follows
<1>10. ASSUME NEW row \in 1..(R + 1) PROVE StateAt(script, lap, row) = w[row - 1]
  <2>1. PICK L \in 0..R : L = row - 1
    OBVIOUS
  <2> DEFINE v == [n \in 0..L |-> w[n]]
  <2>2. StatesAre(script, lap, row, v)
    <3>1. ASSUME NEW n \in 0..L
          PROVE  v[n] = IF n = 0 THEN first
                        ELSE IF RowRuns(script, n, lap) THEN Apply(v[n - 1], script.rows[n].payload)
                        ELSE v[n - 1]
      <4>1. v[n] = w[n]
        OBVIOUS
      <4>2. CASE n = 0
        BY <1>8, <4>1, <4>2, Zenon
      <4>3. CASE n # 0
        <5>1. n \in 1..R /\ n - 1 \in 0..L
          BY <4>3
        <5>2. v[n - 1] = w[n - 1]
          BY <5>1, Zenon
        <5> HIDE DEF v
        <5> QED BY <1>9, <4>1, <4>3, <5>1, <5>2, Zenon DEF NextAt
      <4> QED BY <4>2, <4>3
    <3>2. v = [n \in 0..L |-> v[n]]
      OBVIOUS
    <3> HIDE DEF v
    <3>3. [n \in 0..L |-> v[n]] = [n \in 0..L |-> IF n = 0 THEN first
                                   ELSE IF RowRuns(script, n, lap) THEN Apply(v[n - 1], script.rows[n].payload)
                                   ELSE v[n - 1]]
      BY <3>1, Zenon
    <3> QED BY <1>2, <2>1, <3>2, <3>3, Zenon DEF StatesAre
  <2>3. L \in 0..L /\ v[L] = w[L]
    OBVIOUS
  <2> HIDE DEF v
  <2> DEFINE r == CHOOSE u : StatesAre(script, lap, row, u)
  <2>4. StatesAre(script, lap, row, r)
    BY <2>2, Zenon
  <2>5. StateAt(script, lap, row) = r[row - 1]
    BY DEF StateAt, StatesAre
  <2> HIDE DEF r
  <2>6. \A n \in 0..L : r[n] = IF n = 0 THEN first ELSE NextAt(script, lap, n, r[n - 1])
    BY <1>2, <2>1, <2>4, Zenon DEF StatesAre, NextAt
  <2>7. \A n \in 0..L : v[n] = IF n = 0 THEN first ELSE NextAt(script, lap, n, v[n - 1])
    BY <1>2, <2>1, <2>2, Zenon DEF StatesAre, NextAt
  <2>8. StepAlike(r, v, L)
    <3>1. 0 \in 0..L
      OBVIOUS
    <3>2. r[0] = v[0]
      BY <2>6, <2>7, <3>1, Zenon
    <3>3. ASSUME NEW n \in 1..L, r[n - 1] = v[n - 1] PROVE r[n] = v[n]
      <4>1. n \in 0..L
        OBVIOUS
      <4> QED BY <2>6, <2>7, <3>3, <4>1, Zenon
    <3> QED BY <3>2, <3>3, Zenon DEF StepAlike
  <2>9. \A n \in 0..L : r[n] = v[n]
    <3>1. L \in Nat
      OBVIOUS
    <3> QED BY <2>8, <3>1, StepsAgree, Zenon
  <2> QED BY <2>1, <2>3, <2>5, <2>9, Zenon
<1> QED BY <1>1, <1>2, <1>8, <1>9, <1>10, Zenon DEF StatesOf, X

\* A row, or what does not run, of a lap.
StateSteps(script, lap) ==
  /\ StateAt(script, lap, 1) = ApplySegments(script, OldestFirst(script, lap))
  /\ \A n \in 1..Len(script.rows) : StateAt(script, lap, n + 1) = NextAt(script, lap, n, StateAt(script, lap, n))

LEMMA StatesStep == ASSUME NEW script, Good(script), NEW lap \in 1..MaxLap PROVE StateSteps(script, lap)
<1>1. PICK w : StatesOf(script, lap, w)
  BY StatesExist
<1>2. PICK R \in Nat : R = Len(script.rows)
  BY GoodScript
<1>3. ASSUME NEW n \in 0..R PROVE StateAt(script, lap, n + 1) = w[n]
  <2>1. PICK row \in 1..(R + 1) : row = n + 1 /\ n = row - 1
    OBVIOUS
  <2>2. StateAt(script, lap, row) = w[row - 1]
    BY <1>1, <1>2, Zenon DEF StatesOf
  <2> QED BY <2>1, <2>2, Zenon
<1>4. StateAt(script, lap, 1) = w[0]
  <2>1. 0 \in 0..R /\ 0 + 1 = 1
    OBVIOUS
  <2> QED BY <1>3, <2>1, Zenon
<1>5. ASSUME NEW n \in 1..R PROVE StateAt(script, lap, n + 1) = NextAt(script, lap, n, StateAt(script, lap, n))
  <2>1. PICK before \in 0..R : before = n - 1 /\ n = before + 1
    OBVIOUS
  <2>2. StateAt(script, lap, n) = w[n - 1]
    BY <1>3, <2>1, Zenon
  <2>3. n \in 0..R
    OBVIOUS
  <2>4. w[n] = NextAt(script, lap, n, w[n - 1])
    BY <1>1, <1>2, Zenon DEF StatesOf
  <2> QED BY <1>3, <2>2, <2>3, <2>4, Zenon
<1> QED BY <1>1, <1>2, <1>4, <1>5, Zenon DEF StateSteps, StatesOf

\* No row runs from one up to another.
NoneRuns(script, lap, k, m) == \A n \in Nat : k <= n /\ n < m => ~RowRuns(script, n, lap)

LEMMA StatePasses ==
  ASSUME NEW script, Good(script), NEW lap \in 1..MaxLap,
         NEW k \in 1..(Len(script.rows) + 1), NEW m \in 1..(Len(script.rows) + 1), k <= m, NoneRuns(script, lap, k, m)
  PROVE  StateAt(script, lap, m) = StateAt(script, lap, k)
<1>1. PICK R \in Nat : R = Len(script.rows)
  BY GoodScript
<1>2. StateSteps(script, lap)
  BY StatesStep
<1>3. k \in 1..(R + 1) /\ m \in 1..(R + 1)
  BY <1>1
<1> DEFINE T == {n \in 0..m : k <= n => StateAt(script, lap, n) = StateAt(script, lap, k)}
<1>4. 0 \in T
  <2>1. 0 \in 0..m /\ ~(k <= 0)
    BY <1>3
  <2> QED BY <2>1, Zenon
<1>5. ASSUME NEW n \in 1..m, n - 1 \in T PROVE n \in T
  <2>1. n \in 0..m
    BY <1>3
  <2>2. CASE n < k
    <3>1. ~(k <= n)
      BY <1>3, <2>2
    <3> QED BY <2>1, <3>1, Zenon
  <2>3. CASE n = k
    BY <2>1, <2>3, Zenon
  <2>4. CASE k < n
    <3>1. PICK before \in Nat : before = n - 1 /\ n = before + 1 /\ k <= before /\ before < m /\ before \in 1..R
      BY <1>3, <2>4
    <3>2. StateAt(script, lap, before) = StateAt(script, lap, k)
      BY <1>5, <3>1
    <3>3. ~RowRuns(script, before, lap)
      BY <3>1, Zenon DEF NoneRuns
    <3>4. StateAt(script, lap, n) = NextAt(script, lap, before, StateAt(script, lap, before))
      BY <1>1, <1>2, <3>1, Zenon DEF StateSteps
    <3> QED BY <2>1, <3>2, <3>3, <3>4, Zenon DEF NextAt
  <2> QED BY <1>3, <2>2, <2>3, <2>4
<1>6. m \in T
  <2> HIDE DEF T
  <2>1. m \in Nat
    BY <1>3
  <2>2. 0..m \subseteq T
    BY <1>4, <1>5, <2>1, StepByStep
  <2> QED BY <2>1, <2>2
<1> QED BY <1>6

\* After a row is the state of the next that runs.
LEMMA StateOnward ==
  ASSUME NEW script, Good(script), NEW lap \in 1..MaxLap, NEW w, NEW v,
         Place(script, lap, w), w.done # TRUE, Next1(script, lap, w, v)
  PROVE  StateAt(script, lap, v.row) = Apply(StateAt(script, lap, w.row), script.rows[w.row].payload)
<1>1. PICK R \in Nat : R = Len(script.rows)
  BY GoodScript
<1>2. PICK k \in 1..R : k = w.row
  BY <1>1, Zenon DEF Next1
<1>3. PICK m \in 1..(R + 1) : m = v.row /\ k < m
  BY <1>1, <1>2, Zenon DEF Next1
<1>4. k \in Nat /\ k + 1 \in 1..(R + 1) /\ k + 1 <= m
  BY <1>3
<1>5. RowRuns(script, k, lap)
  <2>1. AtRow(script, lap, w)
    BY PlaceRow, Zenon
  <2>2. PICK i \in 1..Len(script.segments) :
          InSegment(script.segments, i, k) /\ RunsOn(script.segments[i].when, lap)
    BY <1>2, <2>1, Zenon DEF AtRow
  <2> QED BY <1>4, <2>2, RunsInSegment, Zenon
<1>6. PICK after : after = k + 1
  OBVIOUS
<1>7. NoneRuns(script, lap, after, m)
  <2>1. ASSUME NEW n \in Nat, after <= n, n < m, RowRuns(script, n, lap) PROVE FALSE
    <3>1. n <= k \/ m <= n
      BY <1>2, <1>3, <2>1, Zenon DEF Next1, NoneBetween
    <3> QED BY <1>3, <1>6, <2>1, <3>1
  <2> QED BY <2>1, Zenon DEF NoneRuns
<1>8. StateAt(script, lap, m) = StateAt(script, lap, after)
  BY <1>1, <1>4, <1>6, <1>7, StatePasses, Zenon
<1>9. StateAt(script, lap, k + 1) = NextAt(script, lap, k, StateAt(script, lap, k))
  BY <1>1, StatesStep, Zenon DEF StateSteps
<1> QED BY <1>2, <1>3, <1>5, <1>6, <1>8, <1>9, Zenon DEF NextAt

\* Where a lap starts is what the earlier ones left.
LEMMA StateAtStart ==
  ASSUME NEW script, Good(script), NEW lap \in 1..MaxLap, NEW v, Place(script, lap, v), NoneBefore(script, lap, 1, v)
  PROVE  StateAt(script, lap, v.row) = ApplySegments(script, OldestFirst(script, lap))
<1>1. PICK R \in Nat : R = Len(script.rows)
  BY GoodScript
<1>2. PICK m \in 1..(R + 1) : m = v.row
  BY <1>1, PlaceRow, Zenon
<1>3. 1 \in 1..(R + 1) /\ 1 <= m
  BY <1>1
<1>4. NoneRuns(script, lap, 1, m)
  <2>1. ASSUME NEW n \in Nat, n < m, RowRuns(script, n, lap) PROVE FALSE
    <3>1. PICK i \in 1..Len(script.segments) :
            InSegment(script.segments, i, n) /\ RunsOn(script.segments[i].when, lap)
      BY <2>1, RunsInSegment, Zenon
    <3>2. m <= n
      BY <1>2, <3>1, Zenon DEF NoneBefore
    <3> QED BY <2>1, <3>2
  <2> QED BY <2>1, Zenon DEF NoneRuns
<1>5. StateAt(script, lap, m) = StateAt(script, lap, 1)
  BY <1>1, <1>3, <1>4, StatePasses, Zenon
<1> QED BY <1>2, <1>5, StatesStep, Zenon DEF StateSteps

-----------------------------------------------------------------------------
(* A whole lap                                                             *)

\* The rows of a lap that write a control.
WritesOn(script, lap, n, c) ==
  n \in 1..Len(script.rows) /\ RowRuns(script, n, lap) /\ script.rows[n].payload.control = c

\* No row of a lap is about a control.
NoneWrites(script, lap, c) == \A n \in 1..Len(script.rows) : ~WritesOn(script, lap, n, c)

\* The last row of a lap that is about a control.
LastWrites(script, lap, c, k) ==
  WritesOn(script, lap, k, c) /\ \A n \in 1..Len(script.rows) : WritesOn(script, lap, n, c) => n <= k

\* What a lap leaves on a control.
LapLeft(script, lap, before, left) ==
  /\ \A c : NoneWrites(script, lap, c) => On(left, c) = On(before, c)
  /\ \A c, k : LastWrites(script, lap, c, k) => On(left, c) = Effect(script.rows[k].payload)

LEMMA NextAtOn ==
  ASSUME NEW script, NEW lap, NEW n \in 1..Len(script.rows), NEW before, NEW after,
         after = NextAt(script, lap, n, before), NEW c
  PROVE  /\ ~WritesOn(script, lap, n, c) => On(after, c) = On(before, c)
         /\ WritesOn(script, lap, n, c) => On(after, c) = Effect(script.rows[n].payload)
<1>1. PICK payload : payload = script.rows[n].payload
  OBVIOUS
<1>2. CASE RowRuns(script, n, lap)
  <2>1. after = Apply(before, payload)
    BY <1>1, <1>2, Zenon DEF NextAt
  <2>2. /\ payload.control = c => On(Apply(before, payload), c) = Effect(payload)
        /\ payload.control # c => On(Apply(before, payload), c) = On(before, c)
    BY AppliedOn
  <2> QED BY <1>1, <1>2, <2>1, <2>2, Zenon DEF WritesOn
<1>3. CASE ~RowRuns(script, n, lap)
  BY <1>3, Zenon DEF NextAt, WritesOn
<1> QED BY <1>2, <1>3

LEMMA LapLeaves ==
  ASSUME NEW script, Good(script), NEW lap \in 1..MaxLap, NEW before, NEW left,
         before = StateAt(script, lap, 1), left = StateAt(script, lap, Len(script.rows) + 1)
  PROVE  LapLeft(script, lap, before, left)
<1>1. PICK R \in Nat : R = Len(script.rows)
  BY GoodScript
<1>2. ASSUME NEW n \in 1..R, NEW c
      PROVE  /\ ~WritesOn(script, lap, n, c) =>
                  On(StateAt(script, lap, n + 1), c) = On(StateAt(script, lap, n), c)
             /\ WritesOn(script, lap, n, c) =>
                  On(StateAt(script, lap, n + 1), c) = Effect(script.rows[n].payload)
  <2>1. StateAt(script, lap, n + 1) = NextAt(script, lap, n, StateAt(script, lap, n))
    BY <1>1, StatesStep, Zenon DEF StateSteps
  <2>2. PICK s : s = StateAt(script, lap, n)
    OBVIOUS
  <2>3. PICK t : t = StateAt(script, lap, n + 1)
    OBVIOUS
  <2>4. t = NextAt(script, lap, n, s)
    BY <2>1, <2>2, <2>3, Zenon
  <2>5. /\ ~WritesOn(script, lap, n, c) => On(t, c) = On(s, c)
        /\ WritesOn(script, lap, n, c) => On(t, c) = Effect(script.rows[n].payload)
    BY <1>1, <2>4, NextAtOn
  <2> QED BY <2>2, <2>3, <2>5, Zenon
<1>3. ASSUME NEW c, NoneWrites(script, lap, c) PROVE On(left, c) = On(before, c)
  <2> DEFINE T == {n \in 0..R : On(StateAt(script, lap, n + 1), c) = On(before, c)}
  <2>1. 0 \in T
    <3>1. 0 \in 0..R /\ 0 + 1 = 1
      OBVIOUS
    <3> QED BY <3>1, Zenon
  <2>2. ASSUME NEW n \in 1..R, n - 1 \in T PROVE n \in T
    <3>1. n \in 0..R
      OBVIOUS
    <3>2. PICK m \in 0..R : m = n - 1 /\ n = m + 1
      OBVIOUS
    <3>3. On(StateAt(script, lap, n), c) = On(before, c)
      BY <2>2, <3>2, Zenon
    <3>4. ~WritesOn(script, lap, n, c)
      BY <1>1, <1>3, Zenon DEF NoneWrites
    <3>5. On(StateAt(script, lap, n + 1), c) = On(StateAt(script, lap, n), c)
      BY <1>2, <3>4, Zenon
    <3> QED BY <3>1, <3>3, <3>5, Zenon
  <2>3. R \in T
    <3> HIDE DEF T
    <3>1. 0..R \subseteq T
      BY <2>1, <2>2, StepByStep
    <3> QED BY <3>1
  <2> QED BY <1>1, <2>3, Zenon
<1>4. ASSUME NEW c, NEW k, LastWrites(script, lap, c, k) PROVE On(left, c) = Effect(script.rows[k].payload)
  <2>1. k \in 1..R /\ WritesOn(script, lap, k, c)
    BY <1>1, <1>4, Zenon DEF LastWrites, WritesOn
  <2> DEFINE T == {n \in 0..R : k <= n => On(StateAt(script, lap, n + 1), c) = Effect(script.rows[k].payload)}
  <2>2. 0 \in T
    <3>1. 0 \in 0..R /\ ~(k <= 0)
      BY <2>1
    <3> QED BY <3>1, Zenon
  <2>3. ASSUME NEW n \in 1..R, n - 1 \in T PROVE n \in T
    <3>1. n \in 0..R
      OBVIOUS
    <3>2. CASE n < k
      <4>1. ~(k <= n)
        BY <2>1, <3>2
      <4> QED BY <3>1, <4>1, Zenon
    <3>3. CASE n = k
      <4>1. On(StateAt(script, lap, n + 1), c) = Effect(script.rows[k].payload)
        BY <1>2, <2>1, <3>3, Zenon
      <4> QED BY <3>1, <4>1, Zenon
    <3>4. CASE k < n
      <4>1. PICK m \in 0..R : m = n - 1 /\ n = m + 1 /\ k <= m
        BY <2>1, <3>4
      <4>2. On(StateAt(script, lap, n), c) = Effect(script.rows[k].payload)
        BY <2>3, <4>1, Zenon
      <4>3. ~(n <= k)
        BY <2>1, <3>4
      <4>4. ~WritesOn(script, lap, n, c)
        BY <1>1, <1>4, <4>3, Zenon DEF LastWrites
      <4>5. On(StateAt(script, lap, n + 1), c) = On(StateAt(script, lap, n), c)
        BY <1>2, <4>4, Zenon
      <4> QED BY <3>1, <4>2, <4>5, Zenon
    <3> QED BY <2>1, <3>2, <3>3, <3>4
  <2>4. R \in T
    <3> HIDE DEF T
    <3>1. 0..R \subseteq T
      BY <2>2, <2>3, StepByStep
    <3> QED BY <3>1
  <2>5. k <= R
    BY <2>1
  <2> QED BY <1>1, <2>4, <2>5, Zenon
<1> QED BY <1>3, <1>4, Zenon DEF LapLeft

LEMMA WritesOrNone ==
  ASSUME NEW script, Good(script), NEW lap, NEW c, ~NoneWrites(script, lap, c)
  PROVE  \E k \in 1..Len(script.rows) : LastWrites(script, lap, c, k)
<1>1. PICK R \in Nat : R = Len(script.rows)
  BY GoodScript
<1> DEFINE S == {n \in 0..R : WritesOn(script, lap, n, c)}
<1>2. PICK n \in 1..R : WritesOn(script, lap, n, c)
  BY <1>1, Zenon DEF NoneWrites
<1>3. n \in 0..R
  OBVIOUS
<1>4. n \in S /\ S \subseteq 0..R
  BY <1>2, <1>3
<1> HIDE DEF S
<1>5. PICK k \in S : \A m \in S : m <= k
  BY <1>4, GreatestNumber
<1>6. WritesOn(script, lap, k, c)
  BY <1>5, Zenon DEF S
<1>7. k \in 1..Len(script.rows)
  BY <1>6, Zenon DEF WritesOn
<1>8. ASSUME NEW m \in 1..Len(script.rows), WritesOn(script, lap, m, c) PROVE m <= k
  <2>1. m \in 0..R
    BY <1>1
  <2> QED BY <1>5, <1>8, <2>1, Zenon DEF S
<1> QED BY <1>6, <1>7, <1>8, Zenon DEF LastWrites

-----------------------------------------------------------------------------
(* From a lap to the next                                                  *)

\* No row runs on the laps between two.
LapsBetween(script, ended, next) ==
  /\ ended < next
  /\ \A i \in 1..Len(script.segments) : HasRows(script.segments[i]) =>
       \A l \in (ended + 1)..(next - 1) : ~RunsOn(script.segments[i].when, l)

LEMMA LastIsOne ==
  ASSUME NEW w, NEW lap \in 1..MaxLap, NEW m, NEW n, LastIs(w, lap, m), LastIs(w, lap, n)
  PROVE  m = n
<1>1. m \in Nat /\ n \in Nat
  BY Zenon DEF LastIs
<1>2. CASE m = 0
  BY <1>2, Zenon DEF LastIs
<1>3. CASE n = 0
  BY <1>3, Zenon DEF LastIs
<1>4. CASE m # 0 /\ n # 0
  <2>1. m <= n /\ n <= m
    BY <1>4, Zenon DEF LastIs
  <2> QED BY <1>1, <2>1
<1> QED BY <1>2, <1>3, <1>4

LEMMA LatestMoves ==
  ASSUME NEW script, Good(script), NEW ended \in 1..MaxLap, NEW next \in 1..MaxLap, LapsBetween(script, ended, next),
         NEW i \in 1..Len(script.segments), HasRows(script.segments[i])
  PROVE  /\ RunsOn(script.segments[i].when, ended) => LatestOf(script, next, i) = ended
         /\ ~RunsOn(script.segments[i].when, ended) => LatestOf(script, next, i) = LatestOf(script, ended, i)
<1>1. PICK w : w = script.segments[i].when
  OBVIOUS
<1>2. ended \in Nat \ {0} /\ next \in Nat \ {0} /\ ended < next
  BY LapsAssumption DEF LapsBetween
<1>3. ASSUME NEW l \in 1..(next - 1), RunsOn(w, l) PROVE l <= ended
  <2>1. \/ l \in (ended + 1)..(next - 1)
        \/ l <= ended
    BY <1>2
  <2> QED BY <1>1, <1>3, <2>1, Zenon DEF LapsBetween
<1>4. ASSUME RunsOn(w, ended) PROVE LatestOf(script, next, i) = ended
  <2>1. ended \in 1..(next - 1) /\ ended # 0 /\ ended \in Nat
    BY <1>2
  <2>2. LastIs(w, next, ended)
    BY <1>3, <1>4, <2>1, Zenon DEF LastIs
  <2>3. LastIs(w, next, LatestOf(script, next, i))
    BY <1>1, LatestType, Zenon
  <2> QED BY <2>2, <2>3, LastIsOne, Zenon
<1>5. ASSUME ~RunsOn(w, ended) PROVE LatestOf(script, next, i) = LatestOf(script, ended, i)
  <2>1. PICK n : n = LatestOf(script, ended, i) /\ LastIs(w, ended, n)
    BY <1>1, LatestType, Zenon
  <2>2. ASSUME NEW l \in 1..(next - 1), RunsOn(w, l) PROVE l \in 1..(ended - 1)
    <3>1. l <= ended /\ l # ended
      BY <1>3, <1>5, <2>2, Zenon
    <3> QED BY <1>2, <3>1
  <2>3. n # 0 => n \in 1..(next - 1)
    <3>1. n # 0 => n \in 1..(ended - 1)
      BY <2>1, Zenon DEF LastIs
    <3> QED BY <1>2, <3>1
  <2>4. LastIs(w, next, n)
    BY <2>1, <2>2, <2>3, Zenon DEF LastIs
  <2>5. LastIs(w, next, LatestOf(script, next, i))
    BY <1>1, LatestType, Zenon
  <2> QED BY <2>1, <2>4, <2>5, LastIsOne, Zenon
<1> QED BY <1>1, <1>4, <1>5, Zenon

LEMMA SegWrites ==
  ASSUME NEW script, Good(script), NEW i \in 1..Len(script.segments), NEW c, ~SegNone(script, i, c)
  PROVE  /\ HasRows(script.segments[i])
         /\ \E n \in 1..Len(script.rows) :
              InSegment(script.segments, i, n) /\ script.rows[n].payload.control = c
<1>1. PICK n \in Nat : /\ script.segments[i].begin <= n /\ n < script.segments[i].end
                       /\ script.rows[n].payload.control = c
  BY Zenon DEF SegNone, WroteNone
<1>2. /\ script.segments[i].begin \in Nat \ {0} /\ script.segments[i].end \in Nat
      /\ script.segments[i].end <= Len(script.rows) + 1 /\ Len(script.rows) \in Nat
  BY GoodScript
<1>3. n \in 1..Len(script.rows)
  BY <1>1, <1>2
<1>4. HasRows(script.segments[i])
  BY <1>1, <1>2 DEF HasRows
<1> QED BY <1>1, <1>3, <1>4, Zenon DEF InSegment

\* A segment that runs on a lap and writes a control does it on that lap.
LEMMA RunningWrites ==
  ASSUME NEW script, Good(script), NEW lap, NEW i \in 1..Len(script.segments), NEW c, ~SegNone(script, i, c),
         RunsOn(script.segments[i].when, lap)
  PROVE  \E n \in 1..Len(script.rows) : InSegment(script.segments, i, n) /\ WritesOn(script, lap, n, c)
<1>1. PICK n \in 1..Len(script.rows) :
        InSegment(script.segments, i, n) /\ script.rows[n].payload.control = c
  BY SegWrites
<1>2. n \in Nat
  BY GoodScript
<1>3. RowRuns(script, n, lap)
  BY <1>1, <1>2, RunsInSegment, Zenon
<1> QED BY <1>1, <1>3, Zenon DEF WritesOn

\* The lap's last row of a control: its segment decides what later laps find.
LEMMA LapDecides ==
  ASSUME NEW script, Good(script), NEW ended \in 1..MaxLap, NEW next \in 1..MaxLap, LapsBetween(script, ended, next),
         NEW c, NEW k, LastWrites(script, ended, c, k)
  PROVE  \E i \in 1..Len(script.segments) : Decides(script, next, i, c) /\ SegLast(script, i, c, k)
<1>1. PICK R \in Nat : R = Len(script.rows)
  BY GoodScript
<1>2. k \in 1..R /\ k \in Nat /\ RowRuns(script, k, ended) /\ script.rows[k].payload.control = c
  <2>1. k \in 1..R
    BY <1>1, Zenon DEF LastWrites, WritesOn
  <2>2. k \in Nat
    BY <2>1
  <2> QED BY <2>1, <2>2, Zenon DEF LastWrites, WritesOn
<1>3. PICK i \in 1..Len(script.segments) :
        InSegment(script.segments, i, k) /\ RunsOn(script.segments[i].when, ended)
  BY <1>2, RunsInSegment, Zenon
<1>4. Len(script.segments) \in Nat /\ DOMAIN script.segments = 1..Len(script.segments)
  BY GoodScript, Zenon
<1>5. SegLast(script, i, c, k)
  <2>1. ASSUME NEW n \in Nat, script.segments[i].begin <= n, n < script.segments[i].end,
               script.rows[n].payload.control = c
        PROVE  n <= k
    <3>1. InSegment(script.segments, i, n)
      BY <2>1, Zenon DEF InSegment
    <3>2. RowRuns(script, n, ended)
      BY <1>3, <3>1, RunsInSegment, Zenon
    <3>3. /\ script.segments[i].begin \in Nat \ {0} /\ script.segments[i].end \in Nat
          /\ script.segments[i].end <= R + 1
      BY <1>1, GoodScript
    <3>4. n \in 1..R
      BY <1>1, <2>1, <3>3
    <3> QED BY <1>1, <2>1, <3>2, <3>4, Zenon DEF LastWrites, WritesOn
  <2> QED BY <1>2, <1>3, <2>1, Zenon DEF SegLast, WroteLast, InSegment
<1>6. ~SegNone(script, i, c)
  BY <1>2, <1>3, Zenon DEF SegNone, WroteNone, InSegment
<1>7. HasRows(script.segments[i])
  BY <1>6, SegWrites, Zenon
<1>8. LatestOf(script, next, i) = ended /\ ended # 0 /\ ended \in Nat
  <2>1. ended # 0 /\ ended \in Nat
    BY LapsAssumption
  <2> QED BY <1>3, <1>7, <2>1, LatestMoves, Zenon
<1>9. i \in RanBefore(script, next)
  BY <1>4, <1>8, Zenon DEF RanBefore
<1>10. ASSUME NEW j \in RanBefore(script, next), ~SegNone(script, j, c), j # i PROVE Earlier(script, next, j, i)
  <2>1. j \in 1..Len(script.segments)
    BY <1>4, Zenon DEF RanBefore
  <2>2. HasRows(script.segments[j])
    BY <1>10, <2>1, SegWrites, Zenon
  <2>3. CASE RunsOn(script.segments[j].when, ended)
    <3>1. LatestOf(script, next, j) = ended
      BY <2>1, <2>2, <2>3, LatestMoves, Zenon
    <3>2. PICK n \in 1..R : InSegment(script.segments, j, n) /\ WritesOn(script, ended, n, c)
      BY <1>1, <1>10, <2>1, <2>3, RunningWrites, Zenon
    <3>3. n <= k /\ n \in Nat
      <4>1. n \in Nat
        OBVIOUS
      <4> QED BY <1>1, <3>2, <4>1, Zenon DEF LastWrites
    <3>4. ~(k < n)
      BY <1>2, <3>3
    <3>5. ~(i < j)
      BY <1>2, <1>3, <2>1, <3>2, <3>3, <3>4, OrderedRows, Zenon
    <3>6. j < i
      BY <1>4, <1>10, <2>1, <3>5
    <3> QED BY <1>8, <3>1, <3>6, Zenon DEF Earlier
  <2>4. CASE ~RunsOn(script.segments[j].when, ended)
    <3>1. LatestOf(script, next, j) = LatestOf(script, ended, j)
      BY <2>1, <2>2, <2>4, LatestMoves, Zenon
    <3>2. PICK n : n = LatestOf(script, ended, j) /\ LastIs(script.segments[j].when, ended, n)
      BY <2>1, LatestType, Zenon
    <3>3. n # 0
      BY <1>10, <3>1, <3>2, Zenon DEF RanBefore
    <3>4. n \in 1..(ended - 1)
      BY <3>2, <3>3, Zenon DEF LastIs
    <3>5. n < ended
      BY <1>8, <3>4
    <3> QED BY <1>8, <3>1, <3>2, <3>5, Zenon DEF Earlier
  <2> QED BY <2>3, <2>4
<1> QED BY <1>5, <1>6, <1>9, <1>10, Zenon DEF Decides

\* A control no row of the lap writes: later laps find what this one did.
LEMMA LapPasses ==
  ASSUME NEW script, Good(script), NEW ended \in 1..MaxLap, NEW next \in 1..MaxLap, LapsBetween(script, ended, next),
         NEW c, NoneWrites(script, ended, c)
  PROVE  /\ NoneDecides(script, ended, c) => NoneDecides(script, next, c)
         /\ \A i : Decides(script, ended, i, c) => Decides(script, next, i, c)
<1>1. DOMAIN script.segments = 1..Len(script.segments)
  BY GoodScript, Zenon
<1>2. ASSUME NEW j \in 1..Len(script.segments), ~SegNone(script, j, c)
      PROVE  LatestOf(script, next, j) = LatestOf(script, ended, j)
  <2>1. ~RunsOn(script.segments[j].when, ended)
    BY <1>2, RunningWrites, Zenon DEF NoneWrites
  <2>2. HasRows(script.segments[j])
    BY <1>2, SegWrites, Zenon
  <2> QED BY <2>1, <2>2, LatestMoves, Zenon
<1>3. ASSUME NoneDecides(script, ended, c), NEW j \in RanBefore(script, next), ~SegNone(script, j, c) PROVE FALSE
  <2>1. j \in 1..Len(script.segments)
    BY <1>1, Zenon DEF RanBefore
  <2>2. LatestOf(script, next, j) = LatestOf(script, ended, j)
    BY <1>2, <1>3, <2>1, Zenon
  <2>3. j \in RanBefore(script, ended)
    BY <2>2, Zenon DEF RanBefore
  <2> QED BY <1>3, <2>3, Zenon DEF NoneDecides
<1>4. ASSUME NEW i, Decides(script, ended, i, c) PROVE Decides(script, next, i, c)
  <2>1. i \in 1..Len(script.segments) /\ ~SegNone(script, i, c) /\ i \in RanBefore(script, ended)
    BY <1>1, <1>4, Zenon DEF Decides, RanBefore
  <2>2. LatestOf(script, next, i) = LatestOf(script, ended, i)
    BY <1>2, <2>1, Zenon
  <2>3. i \in RanBefore(script, next)
    BY <2>1, <2>2, Zenon DEF RanBefore
  <2>4. ASSUME NEW j \in RanBefore(script, next), ~SegNone(script, j, c), j # i PROVE Earlier(script, next, j, i)
    <3>1. j \in 1..Len(script.segments)
      BY <1>1, Zenon DEF RanBefore
    <3>2. LatestOf(script, next, j) = LatestOf(script, ended, j)
      BY <1>2, <2>4, <3>1, Zenon
    <3>3. j \in RanBefore(script, ended)
      BY <3>2, Zenon DEF RanBefore
    <3>4. Earlier(script, ended, j, i)
      BY <1>4, <2>4, <3>3, Zenon DEF Decides
    <3> QED BY <2>2, <3>2, <3>4, Zenon DEF Earlier
  <2> QED BY <2>1, <2>3, <2>4, Zenon DEF Decides
<1> QED BY <1>3, <1>4, Zenon DEF NoneDecides

\* The state at the end of a lap is the one at the start of the next.
LEMMA LapHeld ==
  ASSUME NEW script, Good(script), NEW ended \in 1..MaxLap, NEW next \in 1..MaxLap, LapsBetween(script, ended, next)
  PROVE  StateAt(script, ended, Len(script.rows) + 1) = ApplySegments(script, OldestFirst(script, next))
<1>1. PICK before : before = StateAt(script, ended, 1)
  OBVIOUS
<1>2. PICK left : left = StateAt(script, ended, Len(script.rows) + 1)
  OBVIOUS
<1>3. PICK found : found = ApplySegments(script, OldestFirst(script, next))
  OBVIOUS
<1>4. LapLeft(script, ended, before, left)
  BY <1>1, <1>2, LapLeaves, Zenon
<1>5. LapsLeave(script, ended, before)
  BY <1>1, StatesStep, EarlierLapsLeave, Zenon DEF StateSteps
<1>6. LapsLeave(script, next, found)
  BY <1>3, EarlierLapsLeave, Zenon
<1>7. ASSUME NEW c PROVE On(left, c) = On(found, c)
  <2>1. CASE ~NoneWrites(script, ended, c)
    <3>1. PICK k : LastWrites(script, ended, c, k)
      BY <2>1, WritesOrNone, Zenon
    <3>2. PICK i : Decides(script, next, i, c) /\ SegLast(script, i, c, k)
      BY <3>1, LapDecides, Zenon
    <3>3. On(found, c) = Effect(script.rows[k].payload)
      BY <1>6, <3>2, Zenon DEF LapsLeave
    <3>4. On(left, c) = Effect(script.rows[k].payload)
      BY <1>4, <3>1, Zenon DEF LapLeft
    <3> QED BY <3>3, <3>4, Zenon
  <2>2. CASE NoneWrites(script, ended, c)
    <3>1. On(left, c) = On(before, c)
      BY <1>4, <2>2, Zenon DEF LapLeft
    <3>2. CASE NoneDecides(script, ended, c)
      <4>1. NoneDecides(script, next, c)
        BY <2>2, <3>2, LapPasses, Zenon
      <4>2. On(before, c) = On(AllNeutral, c)
        BY <1>5, <3>2, Zenon DEF LapsLeave
      <4>3. On(found, c) = On(AllNeutral, c)
        BY <1>6, <4>1, Zenon DEF LapsLeave
      <4> QED BY <3>1, <4>2, <4>3, Zenon
    <3>3. CASE ~NoneDecides(script, ended, c)
      <4>1. PICK i \in 1..Len(script.segments) : Decides(script, ended, i, c)
        BY <3>3, DecidesOrNone, Zenon
      <4>2. Decides(script, next, i, c)
        BY <2>2, <4>1, LapPasses, Zenon
      <4>3. PICK k : SegLast(script, i, c, k)
        <5>1. ~SegNone(script, i, c)
          BY <4>1, Zenon DEF Decides
        <5> QED BY <5>1, NoneOrLast, Zenon
      <4>4. On(before, c) = Effect(script.rows[k].payload)
        BY <1>5, <4>1, <4>3, Zenon DEF LapsLeave
      <4>5. On(found, c) = Effect(script.rows[k].payload)
        BY <1>6, <4>2, <4>3, Zenon DEF LapsLeave
      <4> QED BY <3>1, <4>4, <4>5, Zenon
    <3> QED BY <3>2, <3>3
  <2> QED BY <2>1, <2>2
<1>8. left = found
  BY <1>7, SameOn
<1> QED BY <1>2, <1>3, <1>8, Zenon

-----------------------------------------------------------------------------
(* The script holds what state_at() gives                                  *)

\* What the script holds is what state_at() gives: inductive next to PlayInv.
HeldInv == HeldMatchesStateAt

\* The script's part of them does not change.
LEMMA HeldStays ==
  ASSUME HeldInv, UNCHANGED readerVars, walk' = walk, live' = live, mode' = "playing" => mode = "playing"
  PROVE  HeldInv'
<1>1. Script' = Script
  BY ScriptStays, Zenon DEF SameScript
<1> QED BY <1>1, Zenon DEF HeldInv, HeldMatchesStateAt

LEMMA JumpHolds ==
  ASSUME TimedInv, PlayTypes, Accepted, UNCHANGED readerVars, NEW position,
         position.lap \in Int, position.time \in Int, Jump(position, anchor.speed)
  PROVE  HeldInv'
<1>1. Good(Script) /\ Script' = Script
  BY ScriptIsGood, ScriptStays, Zenon DEF SameScript
<1>2. PICK target : target = Clamp(position)
  OBVIOUS
<1>3. PICK lap \in 1..(MaxLap \div 2) : lap = target.lap
  BY <1>1, <1>2, Clamped
<1>4. PICK time \in Nat : time = target.time
  BY <1>1, <1>2, Clamped
<1>5. walk' = SeekTo(Script, lap, time)
  BY <1>2, <1>3, <1>4, Zenon DEF Jump
<1>6. live' = StateAt(Script, lap, walk'.row)
  BY <1>2, <1>3, <1>4, Zenon DEF Jump
<1>7. lap \in Nat /\ time \in Int
  BY HalfOfLaps
<1>8. Place(Script, lap, walk')
  BY <1>1, <1>5, <1>7, SeekPlaces, Zenon
<1>9. walk'.lap = lap
  BY <1>8, Zenon DEF Place
<1> QED BY <1>1, <1>6, <1>9, Zenon DEF HeldInv, HeldMatchesStateAt

LEMMA RowHolds == ASSUME PlayInv, HeldInv, Row, UNCHANGED readerVars PROVE HeldInv'
<1>1. Playing /\ mode = "playing"
  BY DEF Row, Due, Playing
<1>2. WalkInv /\ TimedInv
  BY <1>1, Zenon DEF PlayInv, PlaceInv
<1>3. Good(Script) /\ Script' = Script
  BY <1>2, ScriptIsGood, ScriptStays, Zenon DEF WalkInv, SameScript
<1>4. PICK lap \in 1..(MaxLap \div 2) : lap = walk.lap /\ Place(Script, lap, walk)
  BY <1>2, Zenon DEF WalkInv
<1>5. walk' = Walk(Script, walk) /\ walk.done # TRUE
  BY <1>4, DoneOrNot, Zenon DEF Row
<1>6. Next1(Script, lap, walk, walk')
  BY <1>3, <1>4, <1>5, WalkPlaces, Zenon
<1>7. walk'.lap = lap
  BY <1>6, Zenon DEF Next1, Place
<1>8. lap \in 1..MaxLap
  BY HalfOfLaps
<1>9. live' = Apply(live, Script.rows[walk.row].payload)
  BY Zenon DEF Row
<1>10. live = StateAt(Script, lap, walk.row)
  BY <1>1, <1>4, Zenon DEF HeldInv, HeldMatchesStateAt
<1>11. PICK v : v = walk'
  OBVIOUS
<1>12. StateAt(Script, lap, v.row) = Apply(StateAt(Script, lap, walk.row), Script.rows[walk.row].payload)
  BY <1>3, <1>4, <1>5, <1>6, <1>8, <1>11, StateOnward, Zenon
<1> QED BY <1>3, <1>7, <1>9, <1>10, <1>11, <1>12, Zenon DEF HeldInv, HeldMatchesStateAt

LEMMA LapHolds == ASSUME PlayInv, HeldInv, FinishLap, UNCHANGED readerVars PROVE HeldInv'
<1>1. Playing /\ mode = "playing"
  BY DEF FinishLap, Due, Playing
<1>2. WalkInv /\ TimedInv /\ Accepted
  BY <1>1, Zenon DEF PlayInv, PlaceInv, WalkInv
<1>3. Good(Script) /\ Script' = Script
  BY <1>2, ScriptIsGood, ScriptStays, Zenon DEF SameScript
<1>4. PICK ended \in 1..(MaxLap \div 2) : ended = walk.lap /\ Place(Script, ended, walk)
  BY <1>2, Zenon DEF WalkInv
<1>5. PICK next : next = NextLap(Script, ended + 1, FALSE)
  OBVIOUS
<1>6. /\ NextLap(Script, ended + 1, TRUE) # 0 /\ next <= LoopLimit /\ walk.done
      /\ walk' = Start(Script, next) /\ live' = live
  BY <1>4, <1>5, Zenon DEF FinishLap
<1>7. next \in 1..(MaxLap \div 2) /\ next \in (ended + 1)..MaxLap /\ FoundLap(Script, ended + 1, FALSE, next)
  BY <1>2, <1>5, <1>6, NextIsLap, Zenon
<1>8. next \in Nat /\ next \in 1..MaxLap /\ ended \in 1..MaxLap /\ next # 0 /\ ended < next
  BY <1>7, HalfOfLaps
<1>9. LapsBetween(Script, ended, next)
  <2>1. ASSUME NEW i \in 1..Len(Script.segments), HasRows(Script.segments[i]), NEW l \in (ended + 1)..(next - 1),
               RunsOn(Script.segments[i].when, l)
        PROVE  FALSE
    <3>1. i \in DOMAIN Script.segments
      BY <1>3, GoodScript, Zenon
    <3>2. Script.segments[i].when \in Whens(Script.segments[i], FALSE)
      BY <2>1, Zenon DEF Whens
    <3>3. l \in (ended + 1)..MaxLap /\ ~(next <= l)
      BY <1>8, LapsAssumption
    <3> QED BY <1>7, <1>8, <2>1, <3>1, <3>2, <3>3, Zenon DEF FoundLap
  <2> QED BY <1>8, <2>1, Zenon DEF LapsBetween
<1>10. PICK v : v = walk'
  OBVIOUS
<1>11. Place(Script, next, v) /\ NoneBefore(Script, next, 1, v)
  BY <1>3, <1>6, <1>8, <1>10, StartPlaces, Zenon
<1>12. v.lap = next
  BY <1>11, Zenon DEF Place
<1>13. StateAt(Script, next, v.row) = ApplySegments(Script, OldestFirst(Script, next))
  BY <1>3, <1>8, <1>11, StateAtStart, Zenon
<1>14. walk.row = Len(Script.rows) + 1
  <2>1. walk.done = TRUE
    BY <1>4, <1>6, DoneOrNot, Zenon
  <2> QED BY <1>3, <1>4, <2>1, PlaceRow, Zenon
<1>15. StateAt(Script, ended, Len(Script.rows) + 1) = ApplySegments(Script, OldestFirst(Script, next))
  BY <1>3, <1>8, <1>9, LapHeld, Zenon
<1>16. live = StateAt(Script, ended, walk.row)
  BY <1>1, <1>4, Zenon DEF HeldInv, HeldMatchesStateAt
<1>17. live' = StateAt(Script, walk'.lap, walk'.row)
  BY <1>6, <1>10, <1>12, <1>13, <1>14, <1>15, <1>16, Zenon
<1> QED BY <1>3, <1>17, Zenon DEF HeldInv, HeldMatchesStateAt

LEMMA SeekHolds ==
  ASSUME PlayInv, HeldInv, NEW position, position.lap \in Int, position.time \in Int,
         Seek(position), UNCHANGED readerVars
  PROVE  HeldInv'
<1>1. Playing
  BY DEF Seek, Playing
<1>2. TimedInv /\ PlayTypes /\ Accepted
  BY <1>1, Zenon DEF PlayInv, PlaceInv, WalkInv
<1>3. CASE Jump(position, anchor.speed)
  BY <1>2, <1>3, JumpHolds, Zenon
<1>4. CASE mode = "paused" /\ mode' = mode
  BY <1>4 DEF HeldInv, HeldMatchesStateAt
<1> QED BY <1>3, <1>4, Zenon DEF Seek

LEMMA HeldStep == PlayInv /\ HeldInv /\ [Next]_vars => HeldInv'
<1> SUFFICES ASSUME PlayInv, HeldInv, [Next]_vars PROVE HeldInv'
  OBVIOUS
<1>1. CASE ReaderNext /\ UNCHANGED playVars
  <2>1. ~reader.done
    BY <1>1 DEF ReaderNext, Read, EndOfFile
  <2>2. ~Playing
    BY <2>1, Zenon DEF PlayInv, PlaceInv, WalkInv, Accepted
  <2>3. mode' # "playing"
    BY <1>1, <2>2 DEF playVars, Playing
  <2> QED BY <2>3, Zenon DEF HeldInv, HeldMatchesStateAt
<1>2. CASE Playback /\ UNCHANGED readerVars
  <2>1. ASSUME Play(Position(1, 0)) PROVE HeldInv'
    <3>1. PICK start : start = Position(1, 0)
      OBVIOUS
    <3>2. start.lap \in Int /\ start.time \in Int
      BY <3>1 DEF Position
    <3>3. Accepted /\ Jump(start, anchor.speed) /\ TimedInv /\ PlayTypes
      BY <2>1, <3>1, Zenon DEF Play, PlayInv, PlaceInv
    <3> QED BY <1>2, <3>2, <3>3, JumpHolds, Zenon
  <2>2. ASSUME Tick PROVE HeldInv'
    <3>1. walk' = walk /\ live' = live /\ mode' = mode
      BY <2>2 DEF Tick
    <3> QED BY <1>2, <3>1, HeldStays, Zenon
  <2>3. ASSUME Row PROVE HeldInv'
    BY <1>2, <2>3, RowHolds, Zenon
  <2>4. ASSUME FinishLap PROVE HeldInv'
    BY <1>2, <2>4, LapHolds, Zenon
  <2>5. ASSUME FinishScript PROVE HeldInv'
    <3>1. mode' # "playing"
      BY <2>5 DEF FinishScript
    <3> QED BY <3>1, Zenon DEF HeldInv, HeldMatchesStateAt
  <2>6. ASSUME Pause PROVE HeldInv'
    <3>1. mode' # "playing"
      BY <2>6 DEF Pause
    <3> QED BY <3>1, Zenon DEF HeldInv, HeldMatchesStateAt
  <2>7. ASSUME Resume PROVE HeldInv'
    <3>1. Playing
      BY <2>7 DEF Resume, Playing
    <3>2. TimedInv /\ PlayTypes /\ Accepted
      BY <3>1, Zenon DEF PlayInv, PlaceInv, WalkInv
    <3>3. pause_position.lap \in Int /\ pause_position.time \in Int
      BY <3>2 DEF PlayTypes
    <3>4. Jump(pause_position, anchor.speed)
      BY <2>7, Zenon DEF Resume
    <3> QED BY <1>2, <3>2, <3>3, <3>4, JumpHolds, Zenon
  <2>8. ASSUME NEW speed \in Speeds, SetSpeed(speed) PROVE HeldInv'
    <3>1. walk' = walk /\ live' = live /\ mode' = mode
      BY <2>8 DEF SetSpeed
    <3> QED BY <1>2, <3>1, HeldStays, Zenon
  <2>9. ASSUME NEW value \in Offsets, SetOffset(value) PROVE HeldInv'
    <3>1. walk' = walk /\ live' = live /\ mode' = mode
      BY <2>9 DEF SetOffset
    <3> QED BY <1>2, <3>1, HeldStays, Zenon
  <2>10. ASSUME NEW position \in Positions, Seek(position) PROVE HeldInv'
    <3>1. position.lap \in Int /\ position.time \in Int
      BY LapsAssumption DEF Positions, Position
    <3> QED BY <1>2, <2>10, <3>1, SeekHolds, Zenon
  <2> QED BY <1>2, <2>1, <2>2, <2>3, <2>4, <2>5, <2>6, <2>7, <2>8, <2>9, <2>10, Zenon DEF Playback
<1>3. CASE UNCHANGED vars
  <2>1. UNCHANGED readerVars /\ walk' = walk /\ live' = live /\ mode' = mode
    BY <1>3 DEF vars, playVars
  <2> QED BY <2>1, HeldStays, Zenon
<1> QED BY <1>1, <1>2, <1>3, Zenon DEF Next

\* state_at(), jump() and finish_lap(): while a script plays it holds, on every row of every lap and
\* after any seeks, pauses and resumes, what the rows that ran before on all laps leave, taken
\* as state_at() takes them: a seek restores what playing on would have left.
THEOREM SeeksRestoreWhatIsHeld == Spec => []HeldMatchesStateAt
<1>1. Init => HeldInv
  BY DEF Init, TimelineInit, HeldInv, HeldMatchesStateAt
<1>2. PlayInv /\ [Next]_vars => PlayInv'
  BY PlayStep
<1>3. PlayInv /\ HeldInv /\ [Next]_vars => HeldInv'
  BY HeldStep
<1>4. HeldInv => HeldMatchesStateAt
  BY DEF HeldInv
<1> QED BY <1>1, <1>2, <1>3, <1>4, PlayInit, PTL DEF Spec
===============================================================================
