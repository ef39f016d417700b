------------------------ MODULE MCScheduleExecutor ------------------------
(* Small catalogs and schedules for ScheduleExecutor. *)
EXTENDS ScheduleExecutor

P(w, s, e) == [wf |-> w, start |-> s, end |-> e, feasible |-> TRUE]
Unplaced(w) == [wf |-> w, start |-> NoTime, end |-> NoTime, feasible |-> FALSE]

(* 1: a command without a timeout and with a deadline; 2: an HTTP job that *)
(* declares one; 3: a framework no adapter is registered for.              *)
MCJob == [w \in Workflow |->
  [deadline |-> IF w = 1 THEN 5 ELSE NoTime,
   timeout |-> IF w = 2 THEN 2 ELSE 0,
   framework |-> CASE w = 1 -> "command" [] w = 2 -> "http" [] OTHER -> "unknown"]]

(* A night of two back-to-back jobs in which the third finds no room, and  *)
(* a replan that keeps one of them in a longer window, moves the other to  *)
(* one without an end, finds room for the third, and expires before most   *)
(* of it.                                                                  *)
Night  == [validUntil |-> NoTime, placements |-> {P(2, 0, 1), P(1, 1, 2), Unplaced(3)}]
Replan == [validUntil |-> 1, placements |-> {P(1, 1, 4), P(2, 2, NoTime), P(3, 0, 2)}]
MCSchedules == {Night, Replan}
=============================================================================
