--------------------------- MODULE ReportingLoop ---------------------------
(***************************************************************************)
(* The loop of the controller together with the reporter it works with     *)
(* (executor.py over reporter.py): drain_spool is called in every tick     *)
(* that reached the API, report_run for every run before its last ack, and *)
(* the loop waits for both.  Whatever ends the process ends the call it is *)
(* in; the spool file and the API stay.                                    *)
(*                                                                         *)
(* One process over one spool file: several of them are RunReporter's      *)
(* subject.                                                                *)
(***************************************************************************)
EXTENDS ScheduleExecutor

CONSTANTS
  MaxRuns,   \* bound on the runs started, in all lives
  Rejected,  \* the runs whose report the API answers with an HTTP error
  Batches,   \* as in RunReporter
  MaxFails

VARIABLES
  ids,    \* runs that were started, in all lives: the last one's run_id
  acked,  \* of these, those whose last ack was sent
  todo, spool, op, rows, trace, redirected, fails, kills, lost, abandoned

reporterVars == <<todo, spool, op, rows, trace, redirected, fails, kills, lost, abandoned>>
loopVars == <<vars, ids, acked, reporterVars>>

RunIds == 1 .. MaxRuns
Self == "controller"

(* What the theorems take for granted of the constants declared here       *)
LoopConstants ==
  MaxRuns \in Nat /\ Rejected \subseteq RunIds /\ Batches \in Nat /\ MaxFails \in Nat

R == INSTANCE RunReporter
  WITH Report <- RunIds, Proc <- {Self}, crashes <- kills

LoopInit == Init /\ ids = 0 /\ acked = {} /\ R!Init

(* The loop calls the reporter and waits for it *)
Idle == op[Self].kind = "idle"

LoopGoesOn ==
  /\ Idle
  /\ \/ Wake \/ SyncUnreachable \/ PlanIdle \/ Plan \/ (\E d \in due : Take(d))
     \/ EndRun \/ EndTick \/ Restart
  /\ UNCHANGED <<ids, acked, reporterVars>>

Contact == Idle /\ (SyncAdopts \/ SyncKeeps) /\ UNCHANGED <<ids, acked, reporterVars>>

(* drain_spool: the loop goes on when it is through with its list *)
DrainSpool ==
  /\ Idle /\ Drain
  /\ IF spool = <<>> THEN UNCHANGED reporterVars ELSE R!BeginDrain(Self)
  /\ UNCHANGED <<ids, acked>>

(* The profiler and the record have the run_id of this run *)
StartNumbered ==
  /\ Idle /\ StartRun
  /\ ids < MaxRuns /\ ids' = ids + 1
  /\ UNCHANGED <<acked, reporterVars>>

(* report_run: the last ack is sent when it returns *)
ReportRun ==
  /\ Idle /\ Report
  /\ R!ReportRun(Self) /\ todo' = todo \ {ids}
  /\ UNCHANGED <<ids, acked>>

CallAnswered == R!Advance(Self) /\ UNCHANGED <<vars, ids, acked>>

(* The terminal ack, whichever it is *)
LastAck ==
  /\ Idle /\ FinalAck /\ acked' = acked \cup {ids}
  /\ UNCHANGED <<ids, reporterVars>>

(* Killed, or raised by SQLite in the middle of a call to the reporter *)
LoopCrashes ==
  /\ Crash
  /\ IF Idle THEN UNCHANGED reporterVars ELSE R!Crash(Self)
  /\ UNCHANGED <<ids, acked>>
LoopRaises == Idle /\ StepRaises /\ UNCHANGED <<ids, acked, reporterVars>>

World == (Elapse \/ Publish \/ Register) /\ UNCHANGED <<ids, acked, reporterVars>>

LoopAdvances ==
  LoopGoesOn \/ Contact \/ DrainSpool \/ StartNumbered \/ ReportRun \/ CallAnswered \/ LastAck
LoopNext == LoopAdvances \/ LoopCrashes \/ LoopRaises \/ World

LoopSpec == LoopInit /\ [][LoopNext]_loopVars

(* As in ScheduleExecutor; and the API is reached again and again, of the  *)
(* ticks that ask it.                                                      *)
FairLoopSpec ==
  LoopSpec /\ WF_loopVars(LoopAdvances) /\ WF_loopVars(Elapse /\ World) /\ SF_loopVars(Contact)

-----------------------------------------------------------------------------
Underway == pc \in {"running", "report", "ack"}
Kept(r) == R!Complete(r) \/ r \in R!SpoolSet

(* What the API was told is over is complete upstream, as far as the       *)
(* answers to its batches said, or in the spool: no kill between a report  *)
(* and its ack, and none in a drain of a later life, leaves an ack without *)
(* its report.                                                             *)
AckedIsReported == \A r \in acked : Kept(r)

(* Each end of the process costs at most one report: of all runs that were *)
(* started, in whatever life, no more are neither upstream nor queued than *)
(* the process has ended, but for the one under way.                       *)
OneReportPerEnd ==
  Cardinality({r \in 1 .. ids : ~Kept(r)}) <= crashes + (IF Underway THEN 1 ELSE 0)

(* The drain of each tick that reaches the API is enough: with jobs, kills *)
(* and restarts in between, what is queued behind nothing that is rejected *)
(* gets through.                                                           *)
LoopDrains == R!QueuedGetsThrough
=============================================================================
