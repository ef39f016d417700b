-------------------------- MODULE MCReportingLoop --------------------------
(* A night of two jobs for ReportingLoop. *)
EXTENDS ReportingLoop

P(w, s, e) == [wf |-> w, start |-> s, end |-> e, feasible |-> TRUE]
MCJob == [w \in Workflow |-> [deadline |-> NoTime, timeout |-> 1, framework |-> "command"]]
Night == [validUntil |-> NoTime, placements |-> {P(1, 0, 1), P(2, 1, 2)}]
MCSchedules == {Night}
=============================================================================
