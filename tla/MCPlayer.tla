------------------------------ MODULE MCPlayer ------------------------------
(* Two control threads and a script whose one row presses k and leaves it   *)
(* pressed, so that every seek, pause, resume and stop has something to do. *)
EXTENDS Player

MCHeldAt == [p \in Positions |-> IF p = 1 THEN {} ELSE {"k"}]
=============================================================================
