-------------------------------- MODULE MCWindow --------------------------------
(***************************************************************************)
(* The window's thread with its callers, and the recorder, side by side for *)
(* TLC: a behaviour is one of one part, whose own threads are fair, and the *)
(* other rests.                                                             *)
(***************************************************************************)
EXTENDS Desk, Recorder

VARIABLE part

windowVars == <<part, deskVars, recorderVars>>

WindowInit ==
  /\ part \in {"desk", "recorder"}
  /\ DeskInit /\ RecorderInit
  /\ part # "desk" => api = "on"

WindowNext ==
  /\ UNCHANGED part
  /\ \/ part = "desk" /\ DeskNext /\ UNCHANGED recorderVars
     \/ part = "recorder" /\ RecorderNext /\ UNCHANGED deskVars

WindowFairness ==
  /\ WF_deskVars(part = "desk" /\ Looping)
  /\ \A c \in Threads : WF_deskVars(part = "desk" /\ CallerGoesOn(c))
  /\ WF_recorderVars(part = "recorder" /\ Recording)

WindowSpec == WindowInit /\ [][WindowNext]_windowVars /\ WindowFairness
=============================================================================
