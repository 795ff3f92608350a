-------------------------------- MODULE Recorder --------------------------------
(***************************************************************************)
(* aoap::Recorder::run() on its thread, with the ChildProcess it reads adb *)
(* through: the rows go into a partial file that takes the place of an     *)
(* earlier recording of that name only when the new one is complete; adb   *)
(* may end by itself, be stopped, or leave its server behind with the pipe *)
(* open; the disk may fill, and the program may die at any point.          *)
(*                                                                         *)
(* A line of adb is two halves, "h" and then "n" with the newline: a read  *)
(* may end between them.  A line is a frame with a row or one without; the *)
(* parser holds the row of the last frame back (module Getevent).          *)
(***************************************************************************)
EXTENDS Naturals, Sequences, SequencesExt

CONSTANTS
  MaxHalves,      \* bound: what adb prints in one recording
  MaxRecordings   \* bound: recordings in a behaviour, all of one name

ASSUME RecorderAssumption == MaxHalves \in Nat /\ MaxRecordings \in Nat

VARIABLES
  at,         \* where run() is, or "idle"
  stopping,   \* stopping_
  saved,      \* what run() returns
  stream,     \* the output: [good, written], and whether the parser holds a row
  buffer,     \* ChildProcess::buffer_
  out_open,   \* out_open_
  adb,        \* the child: "none", "runs" or "gone"
  server,     \* adb's server was started by the child and has its pipe
  pipe,
  target,     \* the file of that name: whose recording it is (0: an earlier one), its rows
  partial,    \* the partial file: whose it is (0: there is none), the rows on the disk
  recordings,
  printed, fed, told  \* history: halves adb printed, halves fed to the parser, rows they gave

child       == <<buffer, out_open, adb, server, pipe, printed>>
files       == <<target, partial>>
recorderVars == <<at, stopping, saved, stream, child, files, recordings, fed, told>>

NoPartial == [of |-> 0, rows |-> 0]

RecorderInit ==
  /\ at = "idle" /\ stopping = FALSE /\ saved = FALSE
  /\ stream = [good |-> TRUE, written |-> 0, held |-> FALSE]
  /\ buffer = <<>> /\ out_open = FALSE /\ adb = "none" /\ server = FALSE /\ pipe = <<>>
  /\ target = [of |-> 0, rows |-> 1] /\ partial = NoPartial
  /\ recordings = 0 /\ printed = 0 /\ fed = 0 /\ told = 0

-----------------------------------------------------------------------------
(* The App                                                                 *)

\* start_recording(); recording() is true until finish_recording() has joined.
StartRecording ==
  /\ at = "idle" /\ recordings < MaxRecordings /\ recordings' = recordings + 1
  /\ at' = "start" /\ stopping' = FALSE /\ saved' = FALSE
  /\ UNCHANGED <<stream, child, files, fed, told>>

StopRecording ==
  /\ at # "idle" /\ stopping' = TRUE
  /\ UNCHANGED <<at, saved, stream, child, files, recordings, fed, told>>

FinishRecording ==
  /\ at = "done" /\ at' = "idle" /\ adb' = "none"
  /\ UNCHANGED <<stopping, saved, stream, buffer, out_open, server, pipe, printed, files, recordings,
                 fed, told>>

-----------------------------------------------------------------------------
(* Recorder::run()                                                         *)

Go(from, to) ==
  /\ at = from /\ at' = to
  /\ UNCHANGED <<stopping, recordings>>

\* A stop() that came before counts; the partial file may not be possible.
Prepare ==
  /\ \/ Go("start", "done") /\ UNCHANGED <<stream, partial>>
     \/ /\ ~stopping /\ Go("start", "spawn")
        /\ stream' = [good |-> TRUE, written |-> 0, held |-> FALSE]
        /\ partial' = [of |-> recordings, rows |-> 0]
  /\ fed' = 0 /\ told' = 0
  /\ UNCHANGED <<saved, child, target>>

SpawnAdb ==
  \/ /\ Go("spawn", "done") /\ partial' = NoPartial
     /\ UNCHANGED <<saved, stream, child, target, fed, told>>
  \/ /\ Go("spawn", "loop")
     /\ buffer' = <<>> /\ out_open' = TRUE /\ adb' = "runs" /\ server' = FALSE /\ pipe' = <<>>
     /\ printed' = 0
     /\ UNCHANGED <<saved, stream, files, fed, told>>

LoopAgain ==
  /\ Go("loop", IF stopping THEN "finish" ELSE "find")
  /\ UNCHANGED <<saved, stream, child, files, fed, told>>

\* parser.feed() and write(), for the first `halves` of the buffer.
FeedHalves(halves, row) ==
  /\ buffer' = SubSeq(buffer, halves + 1, Len(buffer))
  /\ fed' = fed + halves /\ told' = IF row THEN told + 1 ELSE told
  /\ stream' = [stream EXCEPT !.written = IF row /\ stream.held THEN @ + 1 ELSE @,
                              !.held = @ \/ row]
  /\ UNCHANGED <<out_open, adb, server, pipe, printed>>

\* read_line(): a line; or, once the pipe is closed, what is left, and then the end.
FindLine ==
  /\ UNCHANGED <<saved, files>>
  /\ \/ /\ Contains(buffer, "n") /\ Go("find", "flush")
        /\ \E row \in BOOLEAN : FeedHalves(2, row)
     \/ /\ ~Contains(buffer, "n") /\ ~out_open /\ buffer # <<>> /\ Go("find", "flush")
        /\ FeedHalves(1, FALSE)
     \/ /\ ~Contains(buffer, "n") /\ ~out_open /\ buffer = <<>> /\ Go("find", "finish")
        /\ UNCHANGED <<stream, child, fed, told>>
     \/ /\ ~Contains(buffer, "n") /\ out_open /\ Go("find", IF adb = "gone" THEN "drain" ELSE "pump")
        /\ UNCHANGED <<stream, child, fed, told>>

\* pump(): everything that is in the pipe, and its end, when nobody has it open.
Pumped ==
  /\ buffer' = buffer \o pipe /\ pipe' = <<>>

\* The child still ran when it was asked: something comes, or the time is over.
Pump ==
  /\ LET open == adb = "runs" \/ server
     IN \/ /\ pipe # <<>> \/ ~open
           /\ Go("pump", "find") /\ Pumped /\ out_open' = open
        \/ Go("pump", "flush") /\ UNCHANGED <<buffer, pipe, out_open>>
  /\ UNCHANGED <<saved, stream, adb, server, printed, files, fed, told>>

\* Variant: the pipe of a child that is gone is closed at once.
CloseExited ==
  /\ Go("drain", "find")
  /\ out_open' = FALSE
  /\ UNCHANGED <<buffer, pipe, saved, stream, adb, server, printed, files, fed, told>>

\* Variant: the end of the pipe is waited for, as it is of a child that runs.
AwaitEnd ==
  /\ Go("drain", "find")
  /\ Pumped /\ out_open' = server
  /\ UNCHANGED <<saved, stream, adb, server, printed, files, fed, told>>

\* The child is gone: what is in the pipe is all there is of it, its server may hold
\* the pipe open for ever.
DrainExited ==
  /\ Go("drain", "find")
  /\ Pumped /\ out_open' = Contains(buffer', "n")
  /\ UNCHANGED <<saved, stream, adb, server, printed, files, fed, told>>

\* Every 250 ms what was written goes to the disk, which may be full.
FlushRows ==
  /\ Go("flush", "loop")
  /\ \/ stream.good /\ partial' = [partial EXCEPT !.rows = stream.written] /\ UNCHANGED stream
     \/ stream' = [stream EXCEPT !.good = FALSE] /\ UNCHANGED partial
     \/ UNCHANGED <<stream, partial>>
  /\ UNCHANGED <<saved, child, target, fed, told>>

\* finish(true): the child is stopped and its pipe closed; nothing more is read.
FinishAdb ==
  /\ Go("finish", "last")
  /\ adb' = "gone" /\ out_open' = FALSE /\ Pumped
  /\ UNCHANGED <<saved, stream, server, printed, files, fed, told>>

\* parser.finish(), write() and flush().
LastRows ==
  /\ Go("last", "save")
  /\ LET rows == stream.written + (IF stream.held THEN 1 ELSE 0)
     IN \/ /\ stream' = [stream EXCEPT !.written = rows, !.held = FALSE]
           /\ partial' = IF stream.good THEN [partial EXCEPT !.rows = rows] ELSE partial
        \/ /\ stream' = [good |-> FALSE, written |-> rows, held |-> FALSE]
           /\ UNCHANGED partial
  /\ UNCHANGED <<saved, child, target, fed, told>>

\* commit_recording(): the partial file is renamed, which may fail, or removed; it
\* stays where the writing has failed.
Save ==
  /\ Go("save", "done")
  /\ \/ /\ stream.good /\ stream.written # 0
        /\ target' = partial /\ partial' = NoPartial /\ saved' = TRUE
     \/ /\ ~stream.good \/ stream.written # 0
        /\ UNCHANGED <<files, saved>>
     \/ /\ stream.good /\ stream.written = 0
        /\ partial' = NoPartial /\ UNCHANGED <<target, saved>>
  /\ UNCHANGED <<stream, child, fed, told>>

-----------------------------------------------------------------------------
(* adb, and the end of the program                                         *)

AdbPrints ==
  /\ adb = "runs" /\ printed < MaxHalves
  /\ pipe' = Append(pipe, IF printed % 2 = 0 THEN "h" ELSE "n") /\ printed' = printed + 1
  /\ UNCHANGED <<at, stopping, saved, stream, buffer, out_open, adb, server, files, recordings, fed, told>>

AdbStartsServer ==
  /\ adb = "runs" /\ server' = TRUE
  /\ UNCHANGED <<at, stopping, saved, stream, buffer, out_open, adb, pipe, printed, files, recordings,
                 fed, told>>

AdbExits ==
  /\ adb = "runs" /\ adb' = "gone"
  /\ UNCHANGED <<at, stopping, saved, stream, buffer, out_open, server, pipe, printed, files, recordings,
                 fed, told>>

\* The process dies: its files are what they are.
Die ==
  /\ at # "idle" /\ at' = "idle"
  /\ adb' = "none" /\ out_open' = FALSE
  /\ UNCHANGED <<stopping, saved, stream, buffer, server, pipe, printed, files, recordings, fed, told>>

Recording ==
  \/ Prepare \/ SpawnAdb \/ LoopAgain \/ FindLine \/ Pump \/ DrainExited \/ FlushRows
  \/ FinishAdb \/ LastRows \/ Save \/ FinishRecording

RecorderNext ==
  \/ StartRecording \/ StopRecording \/ Recording
  \/ AdbPrints \/ AdbStartsServer \/ AdbExits \/ Die

RecorderSpec == RecorderInit /\ [][RecorderNext]_recorderVars

-----------------------------------------------------------------------------

\* A recording takes the place of an earlier one only when it is whole, with every
\* row its lines gave, the one the parser held back too; one that cannot be saved has
\* left its rows in the partial file; and an adb that ends by itself has been read to
\* its last byte, whoever still has its pipe.
RecordingIsKept ==
  /\ target.of = recordings /\ recordings # 0 => target.rows = told /\ told > 0
  /\ at = "done" /\ told > 0 /\ stream.good /\ ~saved => partial = [of |-> recordings, rows |-> told]
  /\ at = "done" => (saved <=> target.of = recordings)
  /\ at = "finish" /\ ~stopping => fed = printed

\* "Blocks until stop() or until adb exits": after either the run ends, also when a
\* server that adb has started never lets go of the pipe.
RecorderEnds == at # "idle" /\ (stopping \/ adb = "gone") ~> at = "idle"
=============================================================================
