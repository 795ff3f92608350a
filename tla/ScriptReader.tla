----------------------------- MODULE ScriptReader -----------------------------
(***************************************************************************)
(* EventScript::load(): a CSV file read line by line into rows and         *)
(* segments.  A line is given by what its text says: its kind, and for a   *)
(* row the payload, the wait and the coordinates its numbers can be.       *)
(*                                                                         *)
(*   [kind |-> "blank"], "screen_comment", "unknown": no fields            *)
(*   "row": shape (prefix, columns and numbers are right), payload, wait,  *)
(*       coords, one of "any", "fraction" and "integer"                    *)
(*   "wait": wait          "format", "screen": shape                       *)
(*   "lap": from, to (0 is A.., from = to is A), keep_time                 *)
(*   "every": every, from, to (0 is not given), keep_time                  *)
(*   "else", "end"         "coords": coords                                *)
(*                                                                         *)
(* A wait, a lap number or a step that is no number is Malformed.          *)
(***************************************************************************)
EXTENDS Laps

CONSTANTS
  Alphabets,   \* sets of lines: a file is written in one of them
  MaxLines,    \* bound: the lines of a file, for each alphabet
  MaxErrors    \* load()'s max_errors

Malformed == -1

\* A number of a block's head: read, not given (0), or none.
IsLapNumber(n) == n \in 0..MaxLap \union {Malformed}

LineKinds == {"blank", "screen_comment", "unknown", "row", "wait", "format", "screen",
              "lap", "every", "else", "end", "coords"}

ASSUME ReaderAssumption ==
  /\ MaxErrors \in Nat \ {0}
  /\ \A a \in DOMAIN Alphabets : \A line \in Alphabets[a] :
       /\ line.kind \in LineKinds
       /\ line.kind \in {"row", "wait"} => line.wait \in Nat \union {Malformed}
       /\ line.kind \in {"lap", "every"} =>
            /\ IsLapNumber(line.from) /\ IsLapNumber(line.to) /\ line.keep_time \in BOOLEAN
            /\ line.kind = "every" => IsLapNumber(line.every)

VARIABLES
  alphabet,    \* the alphabet the file is written in
  lines,       \* the lines read so far
  reader       \* the EventScript, and the local variables of load()

None == <<>>

\* parse_lap_block(), parse_every_block(): None, or the selector.
LapBlock(line) ==
  LET last == IF line.to = 0 THEN MaxLap ELSE line.to
  IN IF line.from <= 0 \/ line.to = Malformed \/ last < line.from THEN None
     ELSE <<Laps(line.from, last, 1, line.keep_time)>>

EveryBlock(line) ==
  LET first == IF line.from = 0 THEN line.every ELSE line.from
      last  == IF line.to = 0 THEN MaxLap ELSE line.to
  IN IF line.every <= 0 \/ Malformed \in {line.from, line.to} \/ last < first THEN None
     ELSE <<Laps(first, last, line.every, line.keep_time)>>

Block(line) == IF line.kind = "lap" THEN LapBlock(line) ELSE EveryBlock(line)

Fresh(when, at) == [begin |-> at, end |-> at, when |-> when, lead |-> 0, duration |-> 0]

Blank ==
  [rows |-> <<>>, segments |-> <<Fresh(Always, 1)>>, errors |-> <<>>, stopped |-> FALSE,
   seen_row |-> FALSE, screen |-> FALSE, coords |-> "none", in_block |-> FALSE,
   seen_else |-> FALSE, block |-> Always, block_line |-> 0, done |-> FALSE]

-----------------------------------------------------------------------------
(* One line                                                                *)

\* fail(): after max_errors problems one more line says so, and reading ends.
Fail(r, number) ==
  IF Len(r.errors) < MaxErrors THEN [r EXCEPT !.errors = Append(@, number)]
  ELSE [r EXCEPT !.stopped = TRUE]

OpenSegment(r, when) == [r EXCEPT !.segments = Append(@, Fresh(when, Len(r.rows) + 1))]

\* A wait counts for the row before it, or comes before the segment's first row.
AddWait(r, wait) ==
  LET last == Len(r.segments)
      lead == ~HasRows(r.segments[last])
      timed == [r EXCEPT !.segments[last].duration = @ + wait]
  IN IF lead THEN [timed EXCEPT !.segments[last].lead = @ + wait]
     ELSE [timed EXCEPT !.rows[Len(r.rows)].wait = @ + wait]

AddRow(r, line) ==
  LET last == Len(r.segments)
  IN [r EXCEPT !.rows = Append(@, [payload |-> line.payload, wait |-> line.wait]),
               !.segments[last].end = Len(r.rows) + 2,
               !.segments[last].duration = @ + line.wait]

\* parse_row() and parse_fraction(): the numbers must be what @coords says.
RowFits(r, line) ==
  /\ line.shape /\ line.wait # Malformed
  /\ line.coords \in {"any", IF r.coords = "normalized" THEN "fraction" ELSE "integer"}

ReadRow(r, line, number) ==
  LET seen == [r EXCEPT !.seen_row = TRUE]
  IN IF line.kind = "wait"
     THEN IF line.wait = Malformed THEN Fail(seen, number) ELSE AddWait(seen, line.wait)
     ELSE IF RowFits(r, line) THEN AddRow(seen, line) ELSE Fail(seen, number)

\* @lap and @every: an argument that does not fit still opens the block.
ReadBlock(r, line, number) ==
  LET when   == Block(line)
      opened == [r EXCEPT !.in_block = TRUE, !.seen_else = FALSE, !.block_line = number,
                          !.block = IF when = None THEN Always ELSE when[1]]
  IN IF r.in_block THEN Fail(r, number)
     ELSE OpenSegment(IF when = None THEN Fail(opened, number) ELSE opened, opened.block)

ReadElse(r, number) ==
  IF ~r.in_block \/ r.seen_else \/ r.block.keep_time THEN Fail(r, number)
  ELSE OpenSegment([r EXCEPT !.seen_else = TRUE], [r.block EXCEPT !.negate = TRUE])

\* Variant: the rows after @end still belong to the block.
ReadEndStays(r, number) ==
  IF r.in_block THEN [r EXCEPT !.in_block = FALSE] ELSE Fail(r, number)

ReadEnd(r, number) ==
  IF r.in_block THEN OpenSegment([r EXCEPT !.in_block = FALSE], Always) ELSE Fail(r, number)

ReadScreen(r, line, number) ==
  IF r.seen_row \/ r.screen \/ r.coords = "normalized" \/ ~line.shape THEN Fail(r, number)
  ELSE [r EXCEPT !.screen = TRUE]

\* Variant: @coords does not look for @screen.
ReadCoordsAnyway(r, line, number) ==
  IF r.seen_row \/ r.coords # "none" \/ line.coords \notin {"normalized", "integer"}
  THEN Fail(r, number)
  ELSE [r EXCEPT !.coords = line.coords]

ReadCoords(r, line, number) ==
  IF \/ r.seen_row \/ r.coords # "none" \/ line.coords \notin {"normalized", "integer"}
     \/ line.coords = "normalized" /\ r.screen
  THEN Fail(r, number)
  ELSE [r EXCEPT !.coords = line.coords]

ReadFormat(r, line, number) ==
  IF r.seen_row \/ ~line.shape THEN Fail(r, number) ELSE r

ReadLine(r, line, number) ==
  CASE line.kind = "blank"             -> r
    [] line.kind \in {"row", "wait"}   -> ReadRow(r, line, number)
    [] line.kind \in {"lap", "every"}  -> ReadBlock(r, line, number)
    [] line.kind = "else"              -> ReadElse(r, number)
    [] line.kind = "end"               -> ReadEnd(r, number)
    [] line.kind = "screen"            -> ReadScreen(r, line, number)
    [] line.kind = "coords"            -> ReadCoords(r, line, number)
    [] line.kind = "format"            -> ReadFormat(r, line, number)
    [] OTHER                           -> Fail(r, number)

\* The segments without those that turned out empty.
NotEmpty(segments) ==
  LET kept[n \in 0..Len(segments)] ==
        IF n = 0 THEN <<>>
        ELSE IF HasRows(segments[n]) \/ segments[n].duration # 0
             THEN Append(kept[n - 1], segments[n])
             ELSE kept[n - 1]
  IN kept[Len(segments)]

\* The end of the file: an open block, empty segments, and a file without a row.
Finish(r, number) ==
  LET closed == IF r.in_block /\ ~r.stopped THEN Fail(r, r.block_line) ELSE r
      whole  == [closed EXCEPT !.segments = NotEmpty(@), !.done = TRUE]
  IN IF whole.errors = <<>> /\ whole.rows = <<>> THEN Fail(whole, number) ELSE whole

-----------------------------------------------------------------------------

readerVars == <<alphabet, lines, reader>>

ReaderInit == alphabet \in DOMAIN Alphabets /\ lines = <<>> /\ reader = Blank

Read(line) ==
  /\ ~reader.done /\ ~reader.stopped /\ Len(lines) < MaxLines[alphabet]
  /\ lines' = Append(lines, line)
  /\ reader' = ReadLine(reader, line, Len(lines'))
  /\ UNCHANGED alphabet

EndOfFile ==
  /\ ~reader.done
  /\ reader' = Finish(reader, Len(lines))
  /\ UNCHANGED <<alphabet, lines>>

ReaderNext == EndOfFile \/ \E line \in Alphabets[alphabet] : Read(line)

Accepted == reader.done /\ reader.errors = <<>>

Script == [rows |-> reader.rows, segments |-> reader.segments]

-----------------------------------------------------------------------------
(* The format, as docs and tests describe it, over the whole file          *)

Kinds(kinds) == {i \in DOMAIN lines : lines[i].kind \in kinds}

\* The line that opens the block line i is in; 0 outside any block.
OpenerOf(i) ==
  LET Since(j) == {k \in Kinds({"end"}) : j < k /\ k < i}
  IN Least({j \in Kinds({"lap", "every"}) : j < i /\ Since(j) = {}})

BlocksNest ==
  /\ \A i \in Kinds({"lap", "every"}) :
       /\ OpenerOf(i) = 0 /\ Block(lines[i]) # None
       /\ \E k \in Kinds({"end"}) : k > i
  /\ \A i \in Kinds({"end", "else"}) : OpenerOf(i) # 0
  /\ \A i \in Kinds({"else"}) :
       /\ ~lines[OpenerOf(i)].keep_time
       /\ \A k \in Kinds({"else"}) \ {i} : OpenerOf(k) # OpenerOf(i)

DirectivesComeOnce ==
  LET Data == Kinds({"row", "wait"})
      Coords(c) == {i \in Kinds({"coords"}) : lines[i].coords = c}
  IN /\ \A i \in Kinds({"format", "screen", "coords"}) : \A j \in Data : i < j
     /\ \A i \in Kinds({"format", "screen"}) : lines[i].shape
     /\ Kinds({"coords"}) = Coords("normalized") \union Coords("integer")
     /\ \A i, j \in Kinds({"screen"}) : i = j
     /\ \A i, j \in Kinds({"coords"}) : i = j
     /\ Kinds({"screen"}) = {} \/ Coords("normalized") = {}
     /\ \A i \in Kinds({"row"}) : lines[i].coords \in
          {"any", IF Coords("normalized") # {} THEN "fraction" ELSE "integer"}

WellFormed ==
  /\ Kinds({"row"}) # {} /\ Kinds({"unknown", "screen_comment"}) = {}
  /\ \A i \in Kinds({"row"}) : lines[i].shape
  /\ \A i \in Kinds({"row", "wait"}) : lines[i].wait # Malformed
  /\ BlocksNest /\ DirectivesComeOnce

\* The laps a row or a wait is written for, in an accepted file.
WhenOf(i) ==
  LET opener == OpenerOf(i)
      Elses  == {k \in Kinds({"else"}) : opener < k /\ k < i}
  IN IF opener = 0 THEN Always
     ELSE [Block(lines[opener])[1] EXCEPT !.negate = Elses # {}]

\* The lines of the rows, in the order of the file.
RowLines ==
  LET upto[n \in 0..Len(lines)] ==
        IF n = 0 THEN <<>>
        ELSE IF lines[n].kind = "row" THEN Append(upto[n - 1], n) ELSE upto[n - 1]
  IN upto[Len(lines)]

LineOf(row) == RowLines[row]

-----------------------------------------------------------------------------
(* Properties                                                              *)

\* load() takes a file exactly when the whole of it follows the format, although
\* it judges each line by what came before and goes on after an error.
AcceptsTheFormat == reader.done => (Accepted <=> WellFormed)

\* Every row of a file that was accepted runs on the laps of the block it is
\* written in, and none is lost or doubled on the way into the segments.
RowsRunWhereWritten ==
  Accepted =>
    /\ Len(reader.rows) = Len(RowLines)
    /\ \A row \in DOMAIN reader.rows :
         /\ reader.rows[row].payload = lines[LineOf(row)].payload
         /\ \E s \in Range(reader.segments) :
              /\ row \in s.begin..(s.end - 1) /\ s.when = WhenOf(LineOf(row))
              /\ \A t \in Range(reader.segments) \ {s} : row \notin t.begin..(t.end - 1)
=============================================================================
