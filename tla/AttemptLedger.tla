--------------------------- MODULE AttemptLedger ---------------------------
(***************************************************************************)
(* What ScheduleExecutor promises about placements, with clocks, schedules *)
(* and acks left out: one GPU, so at most one placement is taken up at a   *)
(* time; a placement taken up is closed before the next one is looked at;  *)
(* and a placement is taken up or passed over once in the life of the      *)
(* process, whose end forgets everything.                                  *)
(***************************************************************************)
CONSTANT Keys      \* the identities of placements: (workflow_id, start)
VARIABLE status    \* of each of them, in this life of the process

TypeOK == status \in [Keys -> {"open", "taken", "closed"}]

Init == status = [k \in Keys |-> "open"]

Idle == \A k \in Keys : status[k] # "taken"

TakeUp(k) ==
  /\ Idle /\ status[k] = "open"
  /\ status' = [status EXCEPT ![k] = "taken"]

PassOver(k) ==
  /\ Idle /\ status[k] = "open"
  /\ status' = [status EXCEPT ![k] = "closed"]

Close(k) ==
  /\ status[k] = "taken"
  /\ status' = [status EXCEPT ![k] = "closed"]

Forget == status' = [k \in Keys |-> "open"]

Next == (\E k \in Keys : TakeUp(k) \/ PassOver(k) \/ Close(k)) \/ Forget

Spec == Init /\ [][Next]_status
=============================================================================
