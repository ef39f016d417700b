----------------------- MODULE ScheduleExecutorProofs -----------------------
(***************************************************************************)
(* Proofs about ScheduleExecutor for every catalog, every set of schedules *)
(* and every bound.  The invariants are layered: Core says what is in hand *)
(* at each point of the loop and carries the types; Attempts, Acknowledged *)
(* and Timed each rest on it.  The last part is about ReportingLoop: it    *)
(* takes over what is proved of each of its two parts, and Linked says how *)
(* the state of the one goes with that of the other.                       *)
(***************************************************************************)
EXTENDS ReportingLoop, FiniteSetTheorems, TLAPS

(* The points of the loop at which a placement is being executed           *)
Busy == {"profile", "running", "report", "ack"}
Started == {"running", "report", "ack"}

RunWhenBusy == run # NoRun <=> pc \in Busy
DueWithinTick == due # {} => pc \in Busy \cup {"next"}
InForce(p) == current # NoSchedule /\ p \in current.placements /\ p.feasible
DuePlanned == \A d \in due : InForce(d.p) /\ d.target <= tickNow
RunPlanned ==
  run # NoRun => InForce(run.p) /\ run.target <= tickNow /\ tickNow <= run.start
ScheduleInForce ==
  current # NoSchedule =>
    version \in 1 .. Len(published) /\ current = published[version]
Core ==
  /\ TypeOK /\ ScheduleInForce /\ RunWhenBusy /\ DueWithinTick /\ tickNow <= now
  /\ DuePlanned /\ RunPlanned

(* What a schedule holds is a placement, and its identity a key.           *)
LEMMA PlacementTyped ==
  ASSUME NEW s \in Schedules, NEW p \in s.placements
  PROVE  p \in Placement /\ Key(p) \in Keys
<1>1. p \in Placement
  BY SchedulesAssumption
<1>2. Key(p) \in Keys
  BY DEF Keys
<1> QED BY <1>1, <1>2

(* What is due was placed, by the schedule in force, and is not remembered *)
(* as attempted.                                                           *)
LEMMA DueTyped ==
  ASSUME current \in Schedules, NEW t \in Time, NEW m, NEW d \in Due(t, m)
  PROVE  /\ d \in [target : Int, p : Placement]
         /\ d.p \in current.placements /\ d.p.feasible
         /\ Key(d.p) \notin executed
         /\ d.target = TargetStart(d.p, m) /\ d.target <= t
<1>1. PICK p \in current.placements :
        /\ p.feasible /\ p.start # NoTime /\ Key(p) \notin executed
        /\ d = [target |-> TargetStart(p, m), p |-> p]
  BY DEF Due, Pending
<1>2. p \in Placement
  BY PlacementTyped
<1>3. Job[p.wf].deadline \in Time \cup {NoTime}
  BY <1>2, JobAssumption DEF Placement
<1>4. FallbackDeadline(p) \in Time \cup {NoTime}
  BY <1>2, <1>3 DEF FallbackDeadline, Placement
<1>5. TargetStart(p, m) \in Int
  BY <1>2, <1>4 DEF TargetStart, Placement, Time, NoTime
<1>6. d.target <= t
  BY <1>1, <1>5 DEF Due, Time
<1> QED BY <1>1, <1>2, <1>5, <1>6

(* The timeout an adapter works with is a number of units, or none.        *)
LEMMA BudgetTyped ==
  ASSUME NEW p \in Placement, NEW t \in Time
  PROVE  Budget(p, t) \in Nat \cup {NoTime}
<1>1. Job[p.wf] \in [deadline : Time \cup {NoTime}, timeout : Nat,
                     framework : {"command", "http", "unknown"}]
  BY JobAssumption DEF Placement
<1>2. Floor \in Nat \ {0} /\ HttpTimeout \in Nat
  BY BoundsAssumption
<1>3. WindowBudget(p, t) \in Nat \cup {NoTime}
  BY <1>1, <1>2 DEF WindowBudget, Placement, Time, NoTime
<1> QED BY <1>1, <1>2, <1>3 DEF Budget

-----------------------------------------------------------------------------
(* The layer everything rests on: the types, and what is in hand when.     *)
LEMMA CoreInitially == Init => Core
<1> SUFFICES ASSUME Init PROVE Core
  OBVIOUS
<1>1. published \in Seq(Schedules) /\ ackLog \in Seq(Ack)
  BY DEF Init
<1>2. starts \in [Keys -> Nat]
  BY DEF Init
<1>3. TypeOK
  BY <1>1, <1>2 DEF Init, TypeOK, Steps, Time
<1>4. ScheduleInForce /\ RunWhenBusy /\ DueWithinTick /\ DuePlanned /\ RunPlanned
  BY DEF Init, ScheduleInForce, RunWhenBusy, DueWithinTick, DuePlanned, RunPlanned, Busy
<1> QED BY <1>3, <1>4 DEF Init, Core

(* Steps that leave the plan, the run and the observations alone.          *)
LEMMA CoreKeptIdle ==
  ASSUME Core,
         UNCHANGED <<published, catalog, planVars, run, obsVars, tickNow>>,
         pc' \in Steps, pc' \in Busy <=> pc \in Busy,
         pc \in Busy \cup {"next"} => due = {} \/ pc' \in Busy \cup {"next"},
         now' \in Time, now <= now', wakeAt' \in Time,
         mode' \in {"normal", "fallback"}, crashes' \in Nat
  PROVE  Core'
<1> USE DEF Core, planVars, obsVars
<1>1. TypeOK'
  BY DEF TypeOK
<1>2. ScheduleInForce' /\ RunWhenBusy' /\ DueWithinTick'
  BY DEF ScheduleInForce, RunWhenBusy, DueWithinTick
<1>3. DuePlanned' /\ RunPlanned'
  BY DEF DuePlanned, RunPlanned, InForce
<1>4. tickNow' <= now'
  BY DEF TypeOK, Time
<1> QED BY <1>1, <1>2, <1>3, <1>4

(* The end of a process leaves nothing in hand.                            *)
LEMMA CoreKeptByDie ==
  ASSUME Core, Die, crashes' \in Nat
  PROVE  Core'
<1> USE DEF Core, Die, envVars, tickVars
<1>1. TypeOK'
  <2>1. ackLog' \in Seq(Ack)
    OBVIOUS
  <2>2. starts' \in [Keys -> Nat]
    BY DEF TypeOK
  <2> QED BY <2>1, <2>2 DEF TypeOK, Steps
<1>2. ScheduleInForce' /\ RunWhenBusy' /\ DueWithinTick' /\ DuePlanned' /\ RunPlanned'
  BY DEF ScheduleInForce, RunWhenBusy, DueWithinTick, DuePlanned, RunPlanned, Busy
<1> QED BY <1>1, <1>2

(* An ack is well typed, and for a key. *)
LEMMA AckTyped ==
  ASSUME TypeOK, current \in Schedules, version \in Nat,
         NEW p \in current.placements,
         NEW e \in {"started", "finished", "failed"}, SendAck(e, p)
  PROVE  ackLog' \in Seq(Ack) /\ answered' \subseteq Keys
<1>1. p \in Placement /\ Key(p) \in Keys
  BY PlacementTyped
<1>2. [event |-> e, version |-> version, wf |-> p.wf] \in Ack
  BY <1>1 DEF Ack, Placement
<1> QED BY <1>1, <1>2 DEF SendAck, TypeOK

LEMMA CoreStep == Core /\ [Next]_vars => Core'
<1> SUFFICES ASSUME Core, [Next]_vars PROVE Core'
  OBVIOUS
<1> USE DEF envVars, tickVars
<1>t. TypeOK /\ ScheduleInForce /\ RunWhenBusy /\ DueWithinTick /\ tickNow <= now
      /\ DuePlanned /\ RunPlanned
  BY DEF Core
<1>n. now \in Time /\ wakeAt \in Time /\ tickNow \in Time /\ now + 1 \in Time
      /\ now + Poll \in Time
  BY <1>t, BoundsAssumption DEF TypeOK, Time
<1>f. /\ crashes \in Nat /\ crashes + 1 \in Nat
      /\ mode \in {"normal", "fallback"} /\ pc \in Steps
  BY <1>t DEF TypeOK
<1>v. current # NoSchedule => current \in Schedules /\ version \in Nat
  BY <1>t DEF TypeOK, ScheduleInForce
<1>1. CASE Wake
  <2>1. due = {} /\ run = NoRun
    BY <1>1, <1>t DEF Wake, DueWithinTick, RunWhenBusy, Busy
  <2>2. TypeOK'
    BY <1>1, <1>t, <1>n DEF Wake, TypeOK, Steps, planVars, obsVars
  <2> QED BY <1>1, <1>t, <1>n, <2>1, <2>2 DEF Wake, Core, ScheduleInForce, RunWhenBusy,
           DueWithinTick, DuePlanned, RunPlanned, Busy, Time, planVars
<1>2. CASE SyncAdopts
  <2>1. due = {} /\ run = NoRun
    BY <1>2, <1>t DEF SyncAdopts, DueWithinTick, RunWhenBusy, Busy
  <2>2. /\ Len(published) \in 1 .. Len(published)
        /\ published[Len(published)] \in Schedules
    BY <1>2, <1>t DEF SyncAdopts, TypeOK
  <2>3. TypeOK'
    BY <1>2, <1>t, <2>2 DEF SyncAdopts, TypeOK, Steps, obsVars
  <2> QED BY <1>2, <1>t, <2>1, <2>2, <2>3 DEF SyncAdopts, Core, ScheduleInForce,
           RunWhenBusy, DueWithinTick, DuePlanned, RunPlanned, Busy
<1>3. CASE SyncKeeps \/ SyncUnreachable \/ Drain
  <2>1. due = {}
    BY <1>3, <1>t DEF SyncKeeps, SyncUnreachable, Drain, DueWithinTick, Busy
  <2>2. pc' \in Steps /\ pc \notin Busy /\ pc' \notin Busy
    BY <1>3 DEF SyncKeeps, SyncUnreachable, Drain, Busy, Steps
  <2> QED BY <1>3, <1>n, <1>f, <2>1, <2>2, CoreKeptIdle
        DEF SyncKeeps, SyncUnreachable, Drain, Time
<1>4. CASE PlanIdle \/ EndTick
  <2>1. due = {}
    BY <1>4, <1>t DEF PlanIdle, EndTick, DueWithinTick, Busy
  <2>2. pc' \in Steps /\ pc \notin Busy /\ pc' \notin Busy
    BY <1>4 DEF PlanIdle, EndTick, Busy, Steps
  <2> QED BY <1>4, <1>n, <1>f, <2>1, <2>2, CoreKeptIdle DEF PlanIdle, EndTick, Time
<1>5. CASE Plan
  <2>1. run = NoRun /\ current \in Schedules
    BY <1>5, <1>t, <1>v DEF Plan, RunWhenBusy, Busy
  <2>2. \A d \in due' :
          /\ d \in [target : Int, p : Placement]
          /\ d.p \in current.placements /\ d.p.feasible /\ d.target <= tickNow
    BY <1>5, <1>n, <2>1, DueTyped DEF Plan
  <2>3. TypeOK'
    BY <1>5, <1>t, <2>2 DEF Plan, TypeOK, Steps, Mode, obsVars
  <2> QED BY <1>5, <1>t, <2>1, <2>2, <2>3 DEF Plan, Core, ScheduleInForce, RunWhenBusy,
           DueWithinTick, DuePlanned, RunPlanned, InForce, Busy
<1>6. ASSUME NEW d \in due, Take(d) PROVE Core'
  <2>1. /\ d.p \in current.placements /\ d.p.feasible /\ d.target <= tickNow
        /\ current \in Schedules /\ version \in Nat /\ current # NoSchedule
        /\ d \in [target : Int, p : Placement]
    BY <1>t, <1>v DEF DuePlanned, InForce, TypeOK
  <2>2. Key(d.p) \in Keys
    BY <2>1, PlacementTyped
  <2>3. run = NoRun
    BY <1>6, <1>t DEF Take, Skip, PreflightFails, PreflightPasses, RunWhenBusy, Busy
  <2>4. CASE Skip(d)
    <3>1. TypeOK'
      BY <1>t, <2>2, <2>4 DEF Skip, MarkExecuted, TypeOK, Steps, obsVars
    <3> QED BY <1>t, <2>3, <2>4, <3>1 DEF Skip, Core, ScheduleInForce, RunWhenBusy,
             DueWithinTick, DuePlanned, RunPlanned, InForce, Busy
  <2>5. CASE PreflightFails(d)
    <3>0. ackLog' \in Seq(Ack) /\ answered' \subseteq Keys
      BY <1>t, <2>1, <2>5, AckTyped DEF PreflightFails
    <3>1. TypeOK'
      BY <1>t, <2>2, <2>5, <3>0 DEF PreflightFails, MarkExecuted, TypeOK, Steps
    <3> QED BY <1>t, <2>3, <2>5, <3>1 DEF PreflightFails, Core, ScheduleInForce,
             RunWhenBusy, DueWithinTick, DuePlanned, RunPlanned, InForce, Busy
  <2>6. CASE PreflightPasses(d)
    <3>0. ackLog' \in Seq(Ack) /\ answered' \subseteq Keys
      BY <1>t, <2>1, <2>6, AckTyped DEF PreflightPasses
    <3>1. run' \in Run /\ run'.p = d.p /\ run'.target = d.target /\ run'.start = now
      BY <1>n, <2>1, <2>6 DEF PreflightPasses, Run, NoTime
    <3>2. run' # NoRun
      BY <3>1, SentinelAssumption
    <3>3. TypeOK'
      BY <1>t, <2>2, <2>6, <3>0, <3>1 DEF PreflightPasses, TypeOK, Steps
    <3> QED BY <1>t, <2>1, <2>6, <3>1, <3>2, <3>3 DEF PreflightPasses, Core,
             ScheduleInForce, RunWhenBusy, DueWithinTick, DuePlanned, RunPlanned,
             InForce, Busy
  <2> QED BY <1>6, <2>4, <2>5, <2>6 DEF Take
<1>7. CASE StartRun
  <2>1. run \in Run /\ InForce(run.p) /\ run.target <= tickNow /\ run # NoRun
    BY <1>7, <1>t DEF StartRun, RunPlanned, RunWhenBusy, Busy, TypeOK
  <2>2. Key(run.p) \in Keys /\ run.p \in Placement
    BY <1>v, <2>1, PlacementTyped DEF InForce
  <2>3. Budget(run.p, tickNow) \in Nat \cup {NoTime}
    BY <1>n, <2>2, BudgetTyped
  <2>4. PICK n \in Needs :
          run' = [run EXCEPT !.start = now, !.need = n, !.budget = Budget(run.p, tickNow)]
    BY <1>7 DEF StartRun
  <2>5. run' \in Run /\ run'.p = run.p /\ run'.target = run.target /\ run'.start = now
    BY <1>n, <2>1, <2>3, <2>4, BoundsAssumption DEF Run
  <2>6. run' # NoRun
    BY <2>5, SentinelAssumption
  <2>7. starts' \in [Keys -> Nat]
    BY <1>7, <1>t, <2>2 DEF StartRun, TypeOK
  <2>8. TypeOK'
    BY <1>7, <1>t, <2>5, <2>7 DEF StartRun, TypeOK, Steps, planVars
  <2> QED BY <1>7, <1>t, <2>1, <2>5, <2>6, <2>8 DEF StartRun, Core, ScheduleInForce,
           RunWhenBusy, DueWithinTick, DuePlanned, RunPlanned, InForce, Busy, planVars
<1>8. CASE EndRun
  <2>1. run \in Run /\ run # NoRun
    BY <1>8, <1>t DEF EndRun, RunWhenBusy, Busy, TypeOK
  <2>2. PICK e \in {"success", "error"} :
          run' = [run EXCEPT !.end = now, !.exit = e, !.killed = Killed]
    BY <1>8 DEF EndRun
  <2>3. run' \in Run /\ run'.p = run.p /\ run'.target = run.target
        /\ run'.start = run.start
    BY <1>n, <2>1, <2>2 DEF Run, Killed
  <2>4. run' # NoRun
    BY <2>3, SentinelAssumption
  <2>5. TypeOK'
    BY <1>8, <1>t, <2>3 DEF EndRun, TypeOK, Steps, planVars, obsVars
  <2> QED BY <1>8, <1>t, <2>1, <2>3, <2>4, <2>5 DEF EndRun, Core, ScheduleInForce,
           RunWhenBusy, DueWithinTick, DuePlanned, RunPlanned, InForce, Busy, planVars
<1>9. CASE Report
  <2>1. pc' \in Steps /\ pc \in Busy /\ pc' \in Busy
    BY <1>9 DEF Report, Busy, Steps
  <2> QED BY <1>9, <1>n, <1>f, <2>1, CoreKeptIdle DEF Report, Time
<1>10. CASE FinalAck
  <2>1. run \in Run /\ InForce(run.p) /\ run # NoRun
    BY <1>10, <1>t DEF FinalAck, RunPlanned, RunWhenBusy, Busy, TypeOK
  <2>2. Key(run.p) \in Keys /\ run.p \in current.placements
    BY <1>v, <2>1, PlacementTyped DEF InForce
  <2>3. ackLog' \in Seq(Ack) /\ answered' \subseteq Keys
    BY <1>10, <1>t, <1>v, <2>1, <2>2, AckTyped DEF FinalAck, InForce
  <2>4. TypeOK'
    BY <1>10, <1>t, <2>2, <2>3 DEF FinalAck, MarkExecuted, TypeOK, Steps
  <2> QED BY <1>10, <1>t, <2>4 DEF FinalAck, Core, ScheduleInForce, RunWhenBusy,
           DueWithinTick, DuePlanned, RunPlanned, InForce, Busy
<1>11. CASE Crash \/ StepRaises
  BY <1>11, <1>f, CoreKeptByDie DEF Crash, StepRaises
<1>12. CASE Restart
  <2>1. due = {}
    BY <1>12, <1>t DEF Restart, DueWithinTick, Busy
  <2>2. pc' \in Steps /\ pc \notin Busy /\ pc' \notin Busy
    BY <1>12 DEF Restart, Busy, Steps
  <2> QED BY <1>12, <1>n, <1>f, <2>1, <2>2, CoreKeptIdle DEF Restart, Time
<1>13. CASE Elapse
  BY <1>13, <1>n, <1>f, CoreKeptIdle DEF Elapse, Time
<1>14. CASE Publish
  <2>1. PICK s \in Schedules : published' = Append(published, s)
    BY <1>14 DEF Publish
  <2>2. /\ published' \in Seq(Schedules) /\ Len(published') = Len(published) + 1
        /\ \A i \in 1 .. Len(published) : published'[i] = published[i]
    BY <1>t, <2>1 DEF TypeOK
  <2>3. TypeOK'
    BY <1>14, <1>t, <2>2 DEF Publish, TypeOK, planVars, obsVars
  <2>4. ScheduleInForce'
    BY <1>14, <1>t, <2>2 DEF Publish, ScheduleInForce, TypeOK, planVars
  <2> QED BY <1>14, <1>t, <2>3, <2>4 DEF Publish, Core, RunWhenBusy, DueWithinTick,
           DuePlanned, RunPlanned, InForce, planVars
<1>15. CASE Register
  <2>1. TypeOK'
    BY <1>15, <1>t DEF Register, TypeOK, planVars, obsVars
  <2> QED BY <1>15, <1>t, <2>1 DEF Register, Core, ScheduleInForce, RunWhenBusy,
           DueWithinTick, DuePlanned, RunPlanned, InForce, planVars
<1>16. CASE UNCHANGED vars
  BY <1>16, <1>n, <1>f, CoreKeptIdle DEF vars, Time
<1> QED BY <1>1, <1>2, <1>3, <1>4, <1>5, <1>6, <1>7, <1>8, <1>9, <1>10, <1>11, <1>12,
         <1>13, <1>14, <1>15, <1>16 DEF Next, Loop

(* Every variable stays within its type, for every catalog, every set of   *)
(* schedules and any number of versions, ends of the process.   *)
THEOREM TypeCorrect == Spec => []TypeOK
<1>1. Core => TypeOK
  BY DEF Core
<1> QED BY <1>1, CoreInitially, CoreStep, PTL DEF Spec

LEMMA CoreAlways == Spec => []Core
BY CoreInitially, CoreStep, PTL DEF Spec

-----------------------------------------------------------------------------
(* Attempts: what is due or being executed is not remembered as attempted, *)
(* the due list holds no identity twice, and a run that was started is     *)
(* remembered or still being executed.  The last part alone would not be   *)
(* inductive: _executed is only written when the run is over.              *)
DueOpen ==
  \A d \in due : Key(d.p) \notin executed /\ (run # NoRun => Key(d.p) # Key(run.p))
DueDistinct == \A d, e \in due : Key(d.p) = Key(e.p) => d = e
RunOpen == run # NoRun => Key(run.p) \notin executed
StartsRemembered ==
  \A k \in Keys :
    /\ starts[k] <= 1
    /\ starts[k] # 0 => k \in executed \/ (pc \in Started /\ Key(run.p) = k)
Attempts == DueOpen /\ DueDistinct /\ RunOpen /\ StartsRemembered

LEMMA AttemptsInitially == Init => Attempts
BY DEF Init, Attempts, DueOpen, DueDistinct, RunOpen, StartsRemembered

LEMMA AttemptsStep == Core /\ Attempts /\ [Next]_vars => Attempts'
<1> SUFFICES ASSUME Core, Attempts, [Next]_vars PROVE Attempts'
  OBVIOUS
<1>t. TypeOK /\ RunWhenBusy /\ DueWithinTick /\ DuePlanned /\ RunPlanned
      /\ DueOpen /\ DueDistinct /\ RunOpen /\ StartsRemembered
  BY DEF Core, Attempts
<1>1. CASE /\ UNCHANGED <<due, run, executed, starts>>
           /\ pc' = pc \/ (pc \notin Started)
              \/ (pc \in Started /\ pc' \in Started)
  <2>1. DueOpen' /\ DueDistinct' /\ RunOpen'
    BY <1>1, <1>t DEF DueOpen, DueDistinct, RunOpen
  <2>2. StartsRemembered'
    BY <1>1, <1>t DEF StartsRemembered, Started
  <2> QED BY <2>1, <2>2 DEF Attempts
<1>2. CASE Plan
  <2>1. run = NoRun /\ run' = NoRun /\ current \in Schedules /\ tickNow \in Time
    BY <1>2, <1>t DEF Plan, RunWhenBusy, Busy, TypeOK
  <2>2. \A d \in due' :
          /\ d \in [target : Int, p : Placement]
          /\ d.p \in current.placements /\ Key(d.p) \notin executed
          /\ d.target = TargetStart(d.p, Mode(tickNow))
    BY <1>2, <2>1, DueTyped DEF Plan
  <2>3. ASSUME NEW d \in due', NEW e \in due', Key(d.p) = Key(e.p) PROVE d = e
    <3>1. d.p = e.p
      BY <2>1, <2>2, <2>3, SchedulesAssumption
    <3>2. d.target = e.target
      BY <2>2, <3>1
    <3> QED BY <2>2, <3>1, <3>2
  <2>4. DueOpen' /\ RunOpen'
    BY <1>2, <2>1, <2>2 DEF Plan, DueOpen, RunOpen
  <2>5. DueDistinct'
    BY <2>3 DEF DueDistinct, Key
  <2>6. StartsRemembered'
    BY <1>2, <1>t DEF Plan, StartsRemembered, Started, obsVars
  <2> QED BY <2>4, <2>5, <2>6 DEF Attempts
<1>3. ASSUME NEW d \in due, Skip(d) \/ PreflightFails(d) PROVE Attempts'
  <2>1. /\ run = NoRun /\ run' = run /\ due' = due \ {d} /\ starts' = starts
        /\ executed' = executed \cup {Key(d.p)} /\ pc' = pc /\ pc = "next"
    BY <1>3, <1>t DEF Skip, PreflightFails, MarkExecuted, RunWhenBusy, Busy, obsVars
  <2>2. DueOpen' /\ DueDistinct' /\ RunOpen'
    BY <2>1, <1>t DEF DueOpen, DueDistinct, RunOpen
  <2>3. StartsRemembered'
    BY <2>1, <1>t DEF StartsRemembered, Started
  <2> QED BY <2>2, <2>3 DEF Attempts
<1>4. ASSUME NEW d \in due, PreflightPasses(d) PROVE Attempts'
  <2>1. /\ due' = due \ {d} /\ starts' = starts /\ executed' = executed
        /\ pc = "next" /\ pc' = "profile" /\ run'.p = d.p
    BY <1>4 DEF PreflightPasses
  <2>2. DueOpen' /\ DueDistinct' /\ RunOpen'
    BY <2>1, <1>t DEF DueOpen, DueDistinct, RunOpen, Key
  <2>3. StartsRemembered'
    BY <2>1, <1>t DEF StartsRemembered, Started
  <2> QED BY <2>2, <2>3 DEF Attempts
<1>5. CASE StartRun
  <2>1. run \in Run /\ run # NoRun /\ InForce(run.p)
    BY <1>5, <1>t DEF StartRun, RunPlanned, RunWhenBusy, Busy, TypeOK
  <2>2. Key(run.p) \in Keys /\ starts \in [Keys -> Nat]
    BY <1>t, <2>1, PlacementTyped DEF InForce, TypeOK
  <2>3. /\ run'.p = run.p /\ due' = due /\ executed' = executed
        /\ starts' = [starts EXCEPT ![Key(run.p)] = @ + 1]
        /\ pc = "profile" /\ pc' = "running"
    BY <1>5, <2>1 DEF StartRun, planVars, Run
  <2>4. starts[Key(run.p)] = 0
    BY <1>t, <2>1, <2>2, <2>3 DEF RunOpen, StartsRemembered, Started
  <2>5. StartsRemembered'
    BY <1>t, <2>2, <2>3, <2>4 DEF StartsRemembered, Started, Key
  <2>6. DueOpen' /\ DueDistinct' /\ RunOpen'
    BY <2>1, <2>3, <1>t DEF DueOpen, DueDistinct, RunOpen, Key
  <2> QED BY <2>5, <2>6 DEF Attempts
<1>6. CASE EndRun
  <2>1. run \in Run /\ run # NoRun
    BY <1>6, <1>t DEF EndRun, RunWhenBusy, Busy, TypeOK
  <2>2. /\ run'.p = run.p /\ due' = due /\ executed' = executed
        /\ starts' = starts /\ pc = "running" /\ pc' = "report"
    BY <1>6, <2>1 DEF EndRun, planVars, obsVars, Run
  <2>3. DueOpen' /\ DueDistinct' /\ RunOpen' /\ StartsRemembered'
    BY <2>1, <2>2, <1>t DEF DueOpen, DueDistinct, RunOpen, StartsRemembered, Key, Started
  <2> QED BY <2>3 DEF Attempts
<1>7. CASE FinalAck
  <2>1. run # NoRun
    BY <1>7, <1>t DEF FinalAck, RunWhenBusy, Busy
  <2>2. /\ run' = NoRun /\ due' = due /\ starts' = starts /\ pc' = "next"
        /\ executed' = executed \cup {Key(run.p)}
    BY <1>7 DEF FinalAck, MarkExecuted
  <2>3. DueOpen' /\ DueDistinct' /\ RunOpen' /\ StartsRemembered'
    BY <2>1, <2>2, <1>t DEF DueOpen, DueDistinct, RunOpen, StartsRemembered, Started
  <2> QED BY <2>3 DEF Attempts
<1>8. CASE Crash \/ StepRaises
  <2>1. due' = {} /\ run' = NoRun /\ starts' = [k \in Keys |-> 0]
    BY <1>8 DEF Crash, StepRaises, Die
  <2> QED BY <2>1 DEF Attempts, DueOpen, DueDistinct, RunOpen, StartsRemembered
<1>9. CASE \/ Wake \/ SyncAdopts \/ SyncKeeps \/ SyncUnreachable \/ Drain
           \/ PlanIdle \/ EndTick \/ Restart
  <2>1. pc \notin Started /\ UNCHANGED <<due, run, executed, starts>>
    BY <1>9 DEF Wake, SyncAdopts, SyncKeeps, SyncUnreachable, Drain, PlanIdle, EndTick,
         Restart, Started, planVars, obsVars
  <2> QED BY <1>1, <2>1
<1>10. CASE Report
  BY <1>1, <1>10 DEF Report, Started, planVars, obsVars
<1>11. CASE Elapse \/ Publish \/ Register \/ UNCHANGED vars
  BY <1>1, <1>11 DEF Elapse, Publish, Register, vars, planVars, obsVars
<1> QED BY <1>2, <1>3, <1>4, <1>5, <1>6, <1>7, <1>8, <1>9, <1>10, <1>11
      DEF Next, Loop, Take

LEMMA AttemptsAlways == Spec => [](Core /\ Attempts)
<1>1. Core /\ Attempts /\ [Next]_vars => (Core /\ Attempts)'
  BY CoreStep, AttemptsStep
<1> QED BY <1>1, CoreInitially, AttemptsInitially, PTL DEF Spec

(* Within one life of the process no placement is started twice, whatever  *)
(* schedules are adopted while it waits, is executed, or lies behind.      *)
THEOREM OncePerLife == Spec => []AttemptedOncePerLife
<1>1. Attempts => AttemptedOncePerLife
  BY DEF Attempts, StartsRemembered, AttemptedOncePerLife
<1> QED BY <1>1, AttemptsAlways, PTL

-----------------------------------------------------------------------------
(* The loop implements the ledger of attempts.                             *)
LEMMA LedgerInitially == Init => Ledger!Init
BY DEF Init, Ledger!Init, status

LEMMA LedgerStep == Core /\ Attempts /\ [Next]_vars => [Ledger!Next]_status
<1> SUFFICES ASSUME Core, Attempts, [Next]_vars PROVE [Ledger!Next]_status
  OBVIOUS
<1>t. TypeOK /\ RunWhenBusy /\ DuePlanned /\ RunPlanned /\ DueOpen /\ RunOpen
  BY DEF Core, Attempts
<1>1. ASSUME executed' = executed, run' = run PROVE status' = status
  BY <1>1 DEF status
<1>2. ASSUME run # NoRun, run' # NoRun, run'.p = run.p, executed' = executed
      PROVE  status' = status
  BY <1>2 DEF status
<1>3. ASSUME NEW d \in due, Take(d) PROVE Ledger!Next
  <2>1. run = NoRun /\ current \in Schedules /\ d.p \in current.placements
    BY <1>3, <1>t DEF Take, Skip, PreflightFails, PreflightPasses, RunWhenBusy, Busy,
         DuePlanned, InForce, TypeOK
  <2>2. Key(d.p) \in Keys /\ Key(d.p) \notin executed
    BY <1>t, <2>1, PlacementTyped DEF DueOpen
  <2>3. Ledger!Idle /\ status[Key(d.p)] = "open"
    BY <2>1, <2>2 DEF Ledger!Idle, status
  <2>4. CASE Skip(d) \/ PreflightFails(d)
    <3>1. run' = NoRun /\ executed' = executed \cup {Key(d.p)}
      BY <2>1, <2>4 DEF Skip, PreflightFails, MarkExecuted
    <3>2. status' = [status EXCEPT ![Key(d.p)] = "closed"]
      BY <2>1, <3>1 DEF status
    <3> QED BY <2>2, <2>3, <3>2 DEF Ledger!Next, Ledger!PassOver
  <2>5. CASE PreflightPasses(d)
    <3>1. run'.p = d.p /\ executed' = executed /\ run' # NoRun
      <4>1. run' \in Run
        BY <1>t, <2>5 DEF PreflightPasses, TypeOK, Run, NoTime
      <4> QED BY <2>5, <4>1, SentinelAssumption DEF PreflightPasses
    <3>2. status' = [status EXCEPT ![Key(d.p)] = "taken"]
      BY <2>1, <3>1 DEF status, Key
    <3> QED BY <2>2, <2>3, <3>2 DEF Ledger!Next, Ledger!TakeUp
  <2> QED BY <1>3, <2>4, <2>5 DEF Take
<1>4. CASE FinalAck
  <2>1. run # NoRun /\ Key(run.p) \in Keys /\ Key(run.p) \notin executed
    BY <1>4, <1>t, PlacementTyped
      DEF FinalAck, RunWhenBusy, Busy, RunPlanned, InForce, RunOpen, TypeOK
  <2>2. run' = NoRun /\ executed' = executed \cup {Key(run.p)}
    BY <1>4 DEF FinalAck, MarkExecuted
  <2>3. status[Key(run.p)] = "taken"
    BY <2>1 DEF status
  <2>4. status' = [status EXCEPT ![Key(run.p)] = "closed"]
    BY <2>1, <2>2 DEF status
  <2> QED BY <2>1, <2>3, <2>4 DEF Ledger!Next, Ledger!Close
<1>5. CASE StartRun
  <2>1. run \in Run /\ run # NoRun
    BY <1>5, <1>t DEF StartRun, RunWhenBusy, Busy, TypeOK
  <2>2. PICK n \in Needs :
          run' = [run EXCEPT !.start = now, !.need = n, !.budget = Budget(run.p, tickNow)]
    BY <1>5 DEF StartRun
  <2>3. run' # NoRun /\ run'.p = run.p /\ executed' = executed
    BY <1>5, <2>1, <2>2, CoreStep DEF Core, RunWhenBusy, StartRun, Busy, planVars, Run
  <2> QED BY <1>2, <2>1, <2>3
<1>6. CASE EndRun
  <2>1. run \in Run /\ run # NoRun
    BY <1>6, <1>t DEF EndRun, RunWhenBusy, Busy, TypeOK
  <2>2. PICK e \in {"success", "error"} :
          run' = [run EXCEPT !.end = now, !.exit = e, !.killed = Killed]
    BY <1>6 DEF EndRun
  <2>3. run' # NoRun /\ run'.p = run.p /\ executed' = executed
    BY <1>6, <2>1, <2>2, CoreStep DEF Core, RunWhenBusy, EndRun, Busy, planVars, Run
  <2> QED BY <1>2, <2>1, <2>3
<1>7. CASE Crash \/ StepRaises
  <2>1. run' = NoRun /\ executed' = {}
    BY <1>7 DEF Crash, StepRaises, Die
  <2> QED BY <2>1 DEF Ledger!Next, Ledger!Forget, status
<1>8. CASE \/ Wake \/ SyncAdopts \/ SyncKeeps \/ SyncUnreachable \/ Drain \/ PlanIdle
           \/ Plan \/ Report \/ EndTick \/ Restart \/ Elapse \/ Publish \/ Register
           \/ UNCHANGED vars
  <2>1. executed' = executed /\ run' = run
    BY <1>8 DEF Wake, SyncAdopts, SyncKeeps, SyncUnreachable, Drain, PlanIdle, Plan,
         Report, EndTick, Restart, Elapse, Publish, Register, vars, planVars
  <2> QED BY <1>1, <2>1
<1> QED BY <1>3, <1>4, <1>5, <1>6, <1>7, <1>8 DEF Next, Loop

(* Every behaviour of the loop is one of the ledger: one placement at a    *)
(* time, each taken up or passed over at most once before all is forgotten.*)
THEOREM LoopImplementsLedger == Spec => ImplementsLedger
BY LedgerInitially, LedgerStep, AttemptsAlways, PTL
   DEF ImplementsLedger, Ledger!Spec, Spec

-----------------------------------------------------------------------------
(* Acks: each one quotes a published version, and the last one opens the   *)
(* run in progress.                                                        *)
AcksQuoted ==
  \A i \in 1 .. Len(ackLog) :
    /\ ackLog[i].version \in 1 .. Len(published)
    /\ \E p \in published[ackLog[i].version].placements :
         p.feasible /\ p.wf = ackLog[i].wf
RunAcked ==
  run # NoRun =>
    LET last == ackLog[Len(ackLog)]
    IN  /\ Len(ackLog) > 0 /\ last.event = "started"
        /\ last.wf = run.p.wf /\ last.version = version
Acknowledged == AcksQuoted /\ RunAcked /\ AcksPaired

(* Sending an ack of the schedule in force keeps every ack quoted.         *)
LEMMA QuotedBySendAck ==
  ASSUME TypeOK, ScheduleInForce, AcksQuoted, published' = published,
         NEW p, InForce(p), NEW e \in {"started", "finished", "failed"}, SendAck(e, p)
  PROVE  /\ Len(ackLog') = Len(ackLog) + 1
         /\ \A i \in 1 .. Len(ackLog) : ackLog'[i] = ackLog[i]
         /\ ackLog'[Len(ackLog')] = [event |-> e, version |-> version, wf |-> p.wf]
         /\ AcksQuoted'
<1>1. /\ Len(ackLog') = Len(ackLog) + 1
      /\ \A i \in 1 .. Len(ackLog) : ackLog'[i] = ackLog[i]
      /\ ackLog'[Len(ackLog')] = [event |-> e, version |-> version, wf |-> p.wf]
      /\ Len(ackLog) \in Nat
  BY DEF TypeOK, SendAck
<1>2. version \in 1 .. Len(published) /\ p \in published[version].placements /\ p.feasible
  BY DEF ScheduleInForce, InForce
<1>3. ASSUME NEW i \in 1 .. Len(ackLog')
      PROVE  /\ ackLog'[i].version \in 1 .. Len(published)
             /\ \E q \in published[ackLog'[i].version].placements :
                  q.feasible /\ q.wf = ackLog'[i].wf
  <2>1. CASE i \in 1 .. Len(ackLog)
    BY <1>1, <2>1 DEF AcksQuoted
  <2>2. CASE i = Len(ackLog')
    BY <1>1, <1>2, <2>2
  <2> QED BY <1>1, <1>3, <2>1, <2>2
<1>4. AcksQuoted'
  BY <1>3 DEF AcksQuoted
<1> QED BY <1>1, <1>4

(* With nothing being executed, an ack that is not "finished" extends the  *)
(* pairing.                                                                *)
LEMMA PairedBySendAck ==
  ASSUME AcksPaired, Len(ackLog) \in Nat, run = NoRun,
         Len(ackLog') = Len(ackLog) + 1,
         \A i \in 1 .. Len(ackLog) : ackLog'[i] = ackLog[i],
         ackLog'[Len(ackLog')].event # "finished",
         ackLog'[Len(ackLog')].event = "started" =>
           /\ run' # NoRun
           /\ ackLog'[Len(ackLog')].wf = run'.p.wf
           /\ ackLog'[Len(ackLog')].version = version'
  PROVE  AcksPaired'
<1>1. \A i \in 1 .. Len(ackLog) :
        /\ ackLog[i].event = "started" =>
             /\ i # Len(ackLog)
             /\ ackLog[i + 1].event \in {"finished", "failed"}
             /\ ackLog[i + 1].wf = ackLog[i].wf
             /\ ackLog[i + 1].version = ackLog[i].version
        /\ ackLog[i].event = "finished" => i > 1 /\ ackLog[i - 1].event = "started"
  BY DEF AcksPaired
<1>2. \A i \in 1 .. Len(ackLog) :
        /\ ackLog'[i].event = "started" =>
             /\ i # Len(ackLog')
             /\ ackLog'[i + 1].event \in {"finished", "failed"}
             /\ ackLog'[i + 1].wf = ackLog'[i].wf
             /\ ackLog'[i + 1].version = ackLog'[i].version
        /\ ackLog'[i].event = "finished" =>
             i > 1 /\ ackLog'[i - 1].event = "started"
  <2> TAKE i \in 1 .. Len(ackLog)
  <2>1. i # Len(ackLog) => ackLog'[i + 1] = ackLog[i + 1]
    OBVIOUS
  <2>2. i > 1 => ackLog'[i - 1] = ackLog[i - 1]
    OBVIOUS
  <2> QED BY <1>1, <2>1, <2>2
<1>3. \A i \in 1 .. Len(ackLog') : i \in 1 .. Len(ackLog) \/ i = Len(ackLog')
  OBVIOUS
<1> QED BY <1>2, <1>3 DEF AcksPaired

LEMMA AcknowledgedInitially == Init => Acknowledged
BY DEF Init, Acknowledged, AcksQuoted, RunAcked, AcksPaired

LEMMA AcknowledgedStep == Core /\ Acknowledged /\ [Next]_vars => Acknowledged'
<1> SUFFICES ASSUME Core, Acknowledged, [Next]_vars PROVE Acknowledged'
  OBVIOUS
<1>t. /\ TypeOK /\ ScheduleInForce /\ RunWhenBusy /\ DuePlanned /\ RunPlanned
      /\ AcksQuoted /\ RunAcked /\ AcksPaired /\ Len(ackLog) \in Nat
  BY DEF Core, Acknowledged, TypeOK
<1>1. ASSUME UNCHANGED <<published, ackLog, run, version>> PROVE Acknowledged'
  BY <1>1, <1>t DEF Acknowledged, AcksQuoted, RunAcked, AcksPaired
<1>2. ASSUME UNCHANGED <<published, ackLog, version>>,
             run # NoRun, run' # NoRun, run'.p = run.p
      PROVE  Acknowledged'
  BY <1>2, <1>t DEF Acknowledged, AcksQuoted, RunAcked, AcksPaired
<1>3. ASSUME NEW d \in due, PreflightFails(d) PROVE Acknowledged'
  <2>1. InForce(d.p) /\ run = NoRun /\ run' = NoRun /\ published' = published
    BY <1>3, <1>t DEF PreflightFails, DuePlanned, RunWhenBusy, Busy, envVars
  <2>2. /\ Len(ackLog') = Len(ackLog) + 1
        /\ \A i \in 1 .. Len(ackLog) : ackLog'[i] = ackLog[i]
        /\ ackLog'[Len(ackLog')] =
             [event |-> "failed", version |-> version, wf |-> d.p.wf]
        /\ AcksQuoted'
    BY <1>3, <1>t, <2>1, QuotedBySendAck DEF PreflightFails
  <2>3. AcksPaired'
    BY <1>t, <2>1, <2>2, PairedBySendAck
  <2> QED BY <2>1, <2>2, <2>3 DEF Acknowledged, RunAcked
<1>4. ASSUME NEW d \in due, PreflightPasses(d) PROVE Acknowledged'
  <2>1. /\ InForce(d.p) /\ run = NoRun /\ published' = published
        /\ version' = version /\ run'.p = d.p
    BY <1>4, <1>t DEF PreflightPasses, DuePlanned, RunWhenBusy, Busy, envVars
  <2>2. run' # NoRun
    BY <1>4, CoreStep DEF Core, RunWhenBusy, Busy, PreflightPasses
  <2>3. /\ Len(ackLog') = Len(ackLog) + 1
        /\ \A i \in 1 .. Len(ackLog) : ackLog'[i] = ackLog[i]
        /\ ackLog'[Len(ackLog')] =
             [event |-> "started", version |-> version, wf |-> d.p.wf]
        /\ AcksQuoted'
    BY <1>4, <1>t, <2>1, QuotedBySendAck DEF PreflightPasses
  <2>4. AcksPaired'
    BY <1>t, <2>1, <2>2, <2>3, PairedBySendAck
  <2>5. RunAcked'
    BY <1>t, <2>1, <2>3 DEF RunAcked
  <2> QED BY <2>3, <2>4, <2>5 DEF Acknowledged
<1>5. CASE FinalAck
  <2> DEFINE event == IF run.exit = "success" THEN "finished" ELSE "failed"
  <2>1. run # NoRun /\ InForce(run.p) /\ run' = NoRun /\ published' = published
    BY <1>5, <1>t DEF FinalAck, RunPlanned, RunWhenBusy, Busy, envVars
  <2>2. event \in {"finished", "failed"} /\ SendAck(event, run.p)
    BY <1>5 DEF FinalAck
  <2>3. /\ Len(ackLog') = Len(ackLog) + 1
        /\ \A i \in 1 .. Len(ackLog) : ackLog'[i] = ackLog[i]
        /\ ackLog'[Len(ackLog')] =
             [event |-> event, version |-> version, wf |-> run.p.wf]
        /\ AcksQuoted'
    BY <1>t, <2>1, <2>2, QuotedBySendAck
  <2>4. AcksPaired'
    BY <1>t, <2>1, <2>2, <2>3 DEF AcksPaired, RunAcked
  <2> QED BY <2>1, <2>3, <2>4 DEF Acknowledged, RunAcked
<1>6. CASE StartRun \/ EndRun
  <2>1. run \in Run /\ run # NoRun /\ pc' \in Busy
    BY <1>6, <1>t DEF StartRun, EndRun, RunWhenBusy, Busy, TypeOK
  <2>2. run'.p = run.p /\ UNCHANGED <<published, ackLog, version>>
    <3>1. CASE StartRun
      <4>1. PICK n \in Needs :
              run' = [run EXCEPT !.start = now, !.need = n,
                                 !.budget = Budget(run.p, tickNow)]
        BY <3>1 DEF StartRun
      <4> QED BY <2>1, <3>1, <4>1 DEF StartRun, Run, envVars, planVars
    <3>2. CASE EndRun
      <4>1. PICK e \in {"success", "error"} :
              run' = [run EXCEPT !.end = now, !.exit = e, !.killed = Killed]
        BY <3>2 DEF EndRun
      <4> QED BY <2>1, <3>2, <4>1 DEF EndRun, Run, envVars, planVars, obsVars
    <3> QED BY <1>6, <3>1, <3>2
  <2>3. run' # NoRun
    BY <2>1, CoreStep DEF Core, RunWhenBusy
  <2> QED BY <1>2, <2>1, <2>2, <2>3
<1>7. CASE SyncAdopts
  <2>1. run = NoRun /\ run' = NoRun /\ UNCHANGED <<published, ackLog>>
    BY <1>7, <1>t DEF SyncAdopts, RunWhenBusy, Busy, envVars, obsVars
  <2> QED BY <1>t, <2>1 DEF Acknowledged, AcksQuoted, RunAcked, AcksPaired
<1>8. CASE Crash \/ StepRaises
  <2>1. run' = NoRun /\ ackLog' = <<>>
    BY <1>8 DEF Crash, StepRaises, Die
  <2> QED BY <2>1 DEF Acknowledged, AcksQuoted, RunAcked, AcksPaired
<1>9. CASE Publish
  <2>1. /\ UNCHANGED <<ackLog, run, version>> /\ published \in Seq(Schedules)
        /\ \E s \in Schedules : published' = Append(published, s)
    BY <1>9, <1>t DEF Publish, planVars, obsVars, TypeOK
  <2>2. Len(published') = Len(published) + 1 /\ Len(published) \in Nat
        /\ \A i \in 1 .. Len(published) : published'[i] = published[i]
    BY <2>1
  <2>3. AcksQuoted'
    BY <1>t, <2>1, <2>2 DEF AcksQuoted
  <2> QED BY <1>t, <2>1, <2>3 DEF Acknowledged, RunAcked, AcksPaired
<1>10. CASE \/ Wake \/ SyncKeeps \/ SyncUnreachable \/ Drain \/ PlanIdle \/ Plan
            \/ (\E d \in due : Skip(d)) \/ Report \/ EndTick \/ Restart
            \/ Elapse \/ Register \/ UNCHANGED vars
  <2>1. UNCHANGED <<published, ackLog, run, version>>
    BY <1>10 DEF Wake, SyncKeeps, SyncUnreachable, Drain, PlanIdle, Plan, Skip, Report,
         EndTick, Restart, Elapse, Register, vars, envVars, planVars, obsVars
  <2> QED BY <1>1, <2>1
<1> QED BY <1>3, <1>4, <1>5, <1>6, <1>7, <1>8, <1>9, <1>10 DEF Next, Loop, Take

LEMMA AcknowledgedAlways == Spec => [](Core /\ Acknowledged)
<1>1. Core /\ Acknowledged /\ [Next]_vars => (Core /\ Acknowledged)'
  BY CoreStep, AcknowledgedStep
<1> QED BY <1>1, CoreInitially, AcknowledgedInitially, PTL DEF Spec

(* "started" and its terminal ack pair up, under one version.              *)
THEOREM AcksArePaired == Spec => []AcksPaired
<1>1. Acknowledged => AcksPaired
  BY DEF Acknowledged
<1> QED BY <1>1, AcknowledgedAlways, PTL

(* Every ack can be matched by the API, and what runs is in the schedule   *)
(* in force and not early, whatever was adopted and however late it is.    *)
THEOREM AcksMatch == Spec => []AcksMatchSchedule
<1>1. Core /\ Acknowledged => AcksMatchSchedule
  BY DEF Core, Acknowledged, AcksQuoted, RunPlanned, InForce, ScheduleInForce,
     AcksMatchSchedule
<1> QED BY <1>1, AcknowledgedAlways, PTL

-----------------------------------------------------------------------------
(* Time: the budget of a run is the one computed from the clock of its     *)
(* tick, and a run that is over took its need or its budget.               *)
BudgetKept ==
  pc \in Started => run.budget = Budget(run.p, tickNow) /\ run.need \in Nat
EndKept == Ended => run.end = RunEnds /\ run.killed = Killed
Timed == BudgetKept /\ EndKept

LEMMA TimedInitially == Init => Timed
BY DEF Init, Timed, BudgetKept, EndKept, Started, Ended

LEMMA TimedStep == Core /\ Timed /\ [Next]_vars => Timed'
<1> SUFFICES ASSUME Core, Timed, [Next]_vars PROVE Timed'
  OBVIOUS
<1>t. TypeOK /\ RunWhenBusy /\ BudgetKept /\ EndKept
  BY DEF Core, Timed
<1>1. ASSUME UNCHANGED <<run, tickNow>>,
             pc' = pc \/ pc' \notin Started \/ (pc = "report" /\ pc' = "ack")
      PROVE  Timed'
  BY <1>1, <1>t DEF Timed, BudgetKept, EndKept, Ended, RunEnds, Killed, Started
<1>2. ASSUME pc' \notin Started PROVE Timed'
  BY <1>2 DEF Timed, BudgetKept, EndKept, Ended, Started
<1>3. CASE StartRun
  <2>1. run \in Run
    BY <1>3, <1>t DEF StartRun, RunWhenBusy, Busy, TypeOK
  <2>2. PICK n \in Needs :
          run' = [run EXCEPT !.start = now, !.need = n, !.budget = Budget(run.p, tickNow)]
    BY <1>3 DEF StartRun
  <2>3. run'.budget = Budget(run'.p, tickNow') /\ run'.need \in Nat
    BY <1>3, <2>1, <2>2, BoundsAssumption DEF StartRun, Run, tickVars
  <2> QED BY <1>3, <2>3 DEF StartRun, Timed, BudgetKept, EndKept, Ended
<1>4. CASE EndRun
  <2>1. run \in Run
    BY <1>4, <1>t DEF EndRun, RunWhenBusy, Busy, TypeOK
  <2>2. PICK e \in {"success", "error"} :
          run' = [run EXCEPT !.end = now, !.exit = e, !.killed = Killed]
    BY <1>4 DEF EndRun
  <2>3. /\ run'.p = run.p /\ run'.budget = run.budget /\ run'.need = run.need
        /\ run'.start = run.start /\ run'.end = RunEnds /\ run'.killed = Killed
        /\ tickNow' = tickNow /\ pc = "running"
    BY <1>4, <2>1, <2>2 DEF EndRun, Run, tickVars
  <2> QED BY <1>t, <2>3 DEF Timed, BudgetKept, EndKept, RunEnds, Killed, Started
<1>5. CASE \/ Wake \/ SyncAdopts \/ SyncKeeps \/ SyncUnreachable \/ Drain \/ PlanIdle
           \/ Plan \/ FinalAck \/ EndTick \/ Restart \/ Crash \/ StepRaises
           \/ (\E d \in due : Take(d))
  <2>1. pc' \notin Started
    BY <1>5 DEF Wake, SyncAdopts, SyncKeeps, SyncUnreachable, Drain, PlanIdle, Plan,
         FinalAck, EndTick, Restart, Crash, StepRaises, Die, Take, Skip,
         PreflightFails, PreflightPasses, Started
  <2> QED BY <1>2, <2>1
<1>6. CASE Report \/ Elapse \/ Publish \/ Register \/ UNCHANGED vars
  BY <1>1, <1>6 DEF Report, Elapse, Publish, Register, vars, tickVars
<1> QED BY <1>3, <1>4, <1>5, <1>6 DEF Next, Loop

LEMMA TimedAlways == Spec => [](Core /\ Timed)
<1>1. Core /\ Timed /\ [Next]_vars => (Core /\ Timed)'
  BY CoreStep, TimedStep
<1> QED BY <1>1, CoreInitially, TimedInitially, PTL DEF Spec

(* What the timed layer says of a run whose timeout is the window's.       *)
LEMMA UndeclaredRun ==
  ASSUME Core, Timed, Ended, Undeclared, run.p.end # NoTime
  PROVE  /\ run \in Run /\ run.p \in Placement /\ run.need \in Nat
         /\ Floor \in Nat /\ tickNow \in Nat /\ run.start \in Nat /\ run.p.end \in Nat
         /\ tickNow <= run.start
         /\ run.budget \in Nat
         /\ run.budget = IF run.p.end - tickNow > Floor THEN run.p.end - tickNow ELSE Floor
         /\ run.need <= run.budget => ~run.killed
         /\ run.end = run.start + (IF run.need > run.budget THEN run.budget ELSE run.need)
<1>1. pc \in Started /\ pc \in Busy
  BY DEF Ended, Started, Busy
<1>2. run \in Run /\ run # NoRun /\ InForce(run.p) /\ tickNow <= run.start /\ tickNow \in Nat
  BY <1>1 DEF Core, RunWhenBusy, RunPlanned, TypeOK, Time
<1>3. run.p \in Placement /\ run.start \in Nat /\ Floor \in Nat
  BY <1>2, BoundsAssumption DEF Run, Time
<1>4. run.p.end \in Nat
  BY <1>3 DEF Placement, Time, NoTime
<1>5. run.need \in Nat /\ run.budget = Budget(run.p, tickNow)
  BY <1>1 DEF Timed, BudgetKept
<1>6. WindowBudget(run.p, tickNow) =
        IF run.p.end - tickNow > Floor THEN run.p.end - tickNow ELSE Floor
  BY <1>4 DEF WindowBudget, NoTime
<1>7. WindowBudget(run.p, tickNow) \in Nat
  BY <1>2, <1>3, <1>4, <1>6
<1>8. run.budget = WindowBudget(run.p, tickNow)
  BY <1>5, <1>7 DEF Budget, Undeclared, NoTime
<1>9. run.killed = Killed /\ run.end = RunEnds
  BY DEF Timed, EndKept
<1>10. Killed <=> run.need > run.budget
  BY <1>7, <1>8 DEF Killed, NoTime
<1>11. run.need <= run.budget => ~run.killed
  <2>1. run.need <= run.budget => ~Killed
    BY <1>5, <1>7, <1>8, <1>10
  <2> QED BY <2>1, <1>9
<1>12. run.end = run.start + (IF run.need > run.budget THEN run.budget ELSE run.need)
  BY <1>9, <1>10 DEF RunEnds
<1> QED BY <1>2, <1>3, <1>4, <1>5, <1>6, <1>7, <1>8, <1>11, <1>12

(* Overrun containment, for every mix of windows, needs and delays.        *)
THEOREM OverrunIsBounded == Spec => []OverrunBounded
<1>1. Core /\ Timed => OverrunBounded
  <2> SUFFICES ASSUME Core, Timed, Ended, Undeclared, run.p.end # NoTime
               PROVE  run.end <= LaterOf(run.p.end, tickNow + Floor) + (run.start - tickNow)
    BY DEF OverrunBounded
  <2>1. LaterOf(run.p.end, tickNow + Floor) >= tickNow + run.budget
    BY UndeclaredRun DEF LaterOf
  <2>2. run.end <= run.start + run.budget
    BY UndeclaredRun
  <2>3. /\ {run.start, tickNow, run.budget, run.p.end, run.need, Floor} \subseteq Nat
        /\ run.end \in Int /\ LaterOf(run.p.end, tickNow + Floor) \in Int
    BY UndeclaredRun DEF LaterOf
  <2> QED BY <2>1, <2>2, <2>3
<1> QED BY <1>1, TimedAlways, PTL

(* A punctual job that needs no more than its window is never killed.      *)
THEOREM PunctualSurvives == Spec => []PunctualNeverKilled
<1>1. Core /\ Timed => PunctualNeverKilled
  <2> SUFFICES ASSUME Core, Timed, Ended, Undeclared, run.p.end # NoTime,
                      run.start = run.p.start, run.need <= PlannedLength
               PROVE  ~run.killed
    BY DEF PunctualNeverKilled
  <2>1. run.need <= run.p.end - tickNow
    BY UndeclaredRun DEF PlannedLength
  <2>2. run.need <= run.budget
    BY <2>1, UndeclaredRun
  <2> QED BY <2>2, UndeclaredRun
<1> QED BY <1>1, TimedAlways, PTL

-----------------------------------------------------------------------------
(* The loop together with the reporter it works with (ReportingLoop).  The *)
(* two proofs are put together: what holds of each part alone holds of the *)
(* part as the loop uses it, so what remains is what links the two.        *)
RP == INSTANCE RunReporterProofs
  WITH Report <- RunIds, Proc <- {Self}, crashes <- kills

LEMMA ReporterAssumptions ==
  LoopConstants =>
  /\ RP!IsFiniteSet({Self}) /\ Rejected \subseteq RunIds
  /\ Batches \in Nat /\ (MaxFails \in Nat /\ MaxCrashes \in Nat)
<1>1. RP!IsFiniteSet({Self})
  BY RP!FS_Singleton
<1> QED BY <1>1, BoundsAssumption DEF LoopConstants

LEMMA SameOperations ==
  /\ R!ReportRun(Self) = RP!ReportRun(Self) /\ R!BeginDrain(Self) = RP!BeginDrain(Self)
  /\ R!Advance(Self) = RP!Advance(Self) /\ R!Crash(Self) = RP!Crash(Self)
<1> USE DEF R!Idle, RP!Idle, R!Current, RP!Current
<1>1. /\ R!ReportRun(Self) = RP!ReportRun(Self) /\ R!BeginDrain(Self) = RP!BeginDrain(Self)
      /\ R!FinishLive(Self) = RP!FinishLive(Self) /\ R!Enqueue(Self) = RP!Enqueue(Self)
      /\ R!Crash(Self) = RP!Crash(Self)
  BY DEF R!ReportRun, RP!ReportRun, R!BeginDrain, RP!BeginDrain, R!FinishLive,
     RP!FinishLive, R!Enqueue, RP!Enqueue, R!Crash, RP!Crash
<1>2. /\ R!PushRunOk(Self) = RP!PushRunOk(Self)
      /\ R!PushRunFails(Self) = RP!PushRunFails(Self)
      /\ R!PushRunRejected(Self) = RP!PushRunRejected(Self)
      /\ R!PushSamplesOk(Self) = RP!PushSamplesOk(Self)
      /\ R!PushSamplesFails(Self) = RP!PushSamplesFails(Self)
  BY DEF R!PushRunOk, RP!PushRunOk, R!PushRunFails, RP!PushRunFails, R!PushRunRejected,
     RP!PushRunRejected, R!PushSamplesOk, RP!PushSamplesOk, R!PushSamplesFails,
     RP!PushSamplesFails, R!GiveUp, RP!GiveUp, R!Fails, RP!Fails, R!Pushing, RP!Pushing,
     R!AppendBatch, RP!AppendBatch, R!Redirect, RP!Redirect
<1>3. R!RemovePushed(Self) = RP!RemovePushed(Self)
  <2>1. \A S : R!Min(S) = RP!Min(S)
    BY DEF R!Min, RP!Min
  <2>2. \A s, i : R!RemoveAt(s, i) = RP!RemoveAt(s, i)
    BY DEF R!RemoveAt, RP!RemoveAt
  <2>3. \A s, e : R!RemoveFirst(s, e) = RP!RemoveFirst(s, e)
    BY <2>1, <2>2 DEF R!RemoveFirst, RP!RemoveFirst, R!SelectInSeq, RP!SelectInSeq
  <2> QED BY <2>3 DEF R!RemovePushed, RP!RemovePushed
<1> QED BY <1>1, <1>2, <1>3 DEF R!Advance, RP!Advance

(* The loop does with the reporter's help what it does alone: every        *)
(* property of ScheduleExecutor above holds of it.                         *)
LEMMA LoopStep == [LoopNext]_loopVars => [Next]_vars
BY DEF LoopNext, LoopAdvances, LoopGoesOn, Contact, DrainSpool, StartNumbered, ReportRun,
   CallAnswered, LastAck, LoopCrashes, LoopRaises, World, Next, Loop, loopVars

THEOREM LoopIsTheLoop == LoopSpec => Spec
<1>1. LoopInit => Init
  BY DEF LoopInit
<1> QED BY <1>1, LoopStep, PTL DEF LoopSpec, Spec

(* The loop calls the reporter in an order the reporter allows: whatever   *)
(* RunReporter shows of one process over its spool holds of this one.      *)
LEMMA ReporterStep == [LoopNext]_loopVars => [R!Next]_(R!vars)
<1> SUFFICES ASSUME [LoopNext]_loopVars PROVE [R!Next]_(R!vars)
  OBVIOUS
<1>1. UNCHANGED reporterVars => UNCHANGED R!vars
  BY DEF reporterVars, R!vars
<1>2. R!ReportRun(Self) \/ R!BeginDrain(Self) \/ R!Advance(Self) \/ R!Crash(Self) => R!Next
  BY DEF R!Next
<1>3. UNCHANGED loopVars => UNCHANGED reporterVars
  BY DEF loopVars
<1>4. CASE LoopNext
  <2>1. \/ UNCHANGED reporterVars \/ R!ReportRun(Self) \/ R!BeginDrain(Self)
        \/ R!Advance(Self) \/ R!Crash(Self)
    BY <1>4 DEF LoopNext, LoopAdvances, LoopGoesOn, Contact, DrainSpool, StartNumbered,
       ReportRun, CallAnswered, LastAck, LoopCrashes, LoopRaises, World
  <2> QED BY <1>1, <1>2, <2>1
<1> QED BY <1>1, <1>3, <1>4

THEOREM LoopUsesTheReporter == LoopSpec => R!Spec
<1>1. LoopInit => R!Init
  BY DEF LoopInit
<1> QED BY <1>1, ReporterStep, PTL DEF LoopSpec, R!Spec

LEMMA ReporterAlways ==
  ASSUME LoopConstants
  PROVE  LoopSpec => []RP!Safe
<1>1. R!Init => RP!Init
  BY DEF R!Init, RP!Init, R!Idle, RP!Idle, R!Batch, RP!Batch
<1>2. [R!Next]_(R!vars) => [RP!Next]_(RP!vars)
  BY SameOperations DEF R!Next, RP!Next, R!vars, RP!vars
<1>3. RP!IsFiniteSet({Self}) /\ Rejected \subseteq RunIds
  BY ReporterAssumptions
<1>4. Batches \in Nat
  BY ReporterAssumptions
<1>5. MaxFails \in Nat /\ MaxCrashes \in Nat
  BY ReporterAssumptions
<1>6. RP!Spec => []RP!Safe
  BY <1>3, <1>4, <1>5, RP!SafeAlways, PTL
<1> QED BY <1>1, <1>2, <1>6, LoopUsesTheReporter, PTL DEF R!Spec, RP!Spec

(* What links the two: a report is in the reporter's hands only between    *)
(* the end of its run and the last ack, so the ack finds it upstream, in   *)
(* the spool, or nowhere to be lost from; and what has been lost, or never *)
(* came to be reported, is counted against the ends of the process.        *)
Unreported == (lost \cup (todo \cap 1 .. ids)) \ (IF Underway THEN {ids} ELSE {})
InReport == op[Self].kind \in {"live", "enqueue"}
Linked ==
  /\ ids \in 0 .. MaxRuns /\ acked \subseteq 1 .. ids
  /\ acked \cap (todo \cup lost) = {}
  /\ InReport => pc = "ack" /\ op[Self].items[1] = ids
  /\ Underway => ids \in RunIds /\ ids \notin acked
  /\ pc = "ack" => ids \notin todo \cup lost
  /\ Cardinality(Unreported) <= crashes

ReporterTyped ==
  /\ todo \subseteq RunIds /\ lost \subseteq RunIds
  /\ op \in [{Self} -> [kind : R!Kinds, items : Seq(RunIds), sent : -1 .. Batches,
                        landed : BOOLEAN]]

LEMMA UnreportedFinite ==
  ASSUME LoopConstants, todo \subseteq RunIds, lost \subseteq RunIds
  PROVE  IsFiniteSet(Unreported) /\ Cardinality(Unreported) \in Nat
<1>1. IsFiniteSet(RunIds)
  BY FS_Interval DEF RunIds, LoopConstants
<1>2. Unreported \subseteq RunIds
  BY DEF Unreported
<1> QED BY <1>1, <1>2, FS_Subset, FS_CardinalityType

(* The count of what is missing grows by one at most when a process ends,  *)
(* and otherwise not at all.                                               *)
LEMMA UnreportedBy ==
  ASSUME LoopConstants, (todo \subseteq RunIds)', (lost \subseteq RunIds)',
         todo \subseteq RunIds, lost \subseteq RunIds,
         crashes \in Nat, Cardinality(Unreported) <= crashes,
         \/ Unreported' \subseteq Unreported /\ crashes' = crashes
         \/ Unreported' \subseteq Unreported \cup {ids} /\ crashes' = crashes + 1
  PROVE  (Cardinality(Unreported) <= crashes)'
<1> DEFINE U == Unreported
           V == Unreported'
<1>1. IsFiniteSet(U) /\ Cardinality(U) \in Nat
  BY UnreportedFinite
<1>2. IsFiniteSet(V) /\ Cardinality(V) \in Nat
  <2>1. IsFiniteSet(RunIds)
    BY FS_Interval DEF RunIds, LoopConstants
  <2>2. V \subseteq RunIds
    BY DEF Unreported, RunIds
  <2> QED BY <2>1, <2>2, FS_Subset, FS_CardinalityType
<1>3. CASE V \subseteq U /\ crashes' = crashes
  <2>1. Cardinality(V) <= Cardinality(U)
    BY <1>1, <1>3, FS_Subset
  <2> QED BY <1>1, <1>2, <1>3, <2>1
<1>4. CASE V \subseteq U \cup {ids} /\ crashes' = crashes + 1
  <2>1. IsFiniteSet(U \cup {ids}) /\ Cardinality(U \cup {ids}) <= Cardinality(U) + 1
    BY <1>1, FS_AddElement
  <2>2. Cardinality(V) <= Cardinality(U \cup {ids})
    BY <1>4, <2>1, FS_Subset
  <2>3. Cardinality(U \cup {ids}) \in Nat
    BY <2>1, FS_CardinalityType
  <2> QED BY <1>1, <1>2, <1>4, <2>1, <2>2, <2>3
<1> QED BY <1>3, <1>4

LEMMA LinkedInitially ==
  ASSUME LoopConstants, LoopInit
  PROVE  Linked
<1>1. /\ ids = 0 /\ acked = {} /\ pc = "sleep" /\ crashes = 0 /\ lost = {}
      /\ op[Self].kind = "idle"
  BY DEF LoopInit, Init, R!Init, R!Idle
<1>2. Unreported = {}
  BY <1>1 DEF Unreported
<1>3. Cardinality(Unreported) <= crashes
  BY <1>1, <1>2, FS_EmptySet
<1> QED BY <1>1, <1>3 DEF Linked, InReport, Underway, LoopConstants

(* A step that starts no run, ends no report and sends no ack leaves the   *)
(* links as they are.                                                      *)
LEMMA LinkedByQuiet ==
  ASSUME Linked, UNCHANGED <<ids, acked, todo, lost, crashes>>,
         Underway' <=> Underway, pc' = "ack" => pc = "ack",
         InReport' => InReport /\ op'[Self].items = op[Self].items /\ pc' = pc
  PROVE  Linked'
<1>1. Unreported' = Unreported
  BY DEF Unreported
<1> QED BY <1>1 DEF Linked

(* A run is given the next run_id.                                         *)
LEMMA LinkedByStart ==
  ASSUME LoopConstants, Linked, ReporterTyped, ReporterTyped', crashes \in Nat, StartNumbered
  PROVE  Linked'
<1>1. /\ pc = "profile" /\ pc' = "running" /\ ids' = ids + 1 /\ ids \in Nat
      /\ ids' \in RunIds /\ acked \subseteq 1 .. ids /\ UNCHANGED <<acked, todo, lost, op>>
      /\ op[Self].kind = "idle" /\ crashes' = crashes
  BY DEF StartNumbered, StartRun, reporterVars, Idle, Linked, RunIds, LoopConstants
<1>2. acked' \subseteq 1 .. ids' /\ ids' \notin acked'
  BY <1>1
<1>3. Unreported' \subseteq Unreported
  <2>1. ~ Underway /\ Underway'
    BY <1>1 DEF Underway
  <2>2. \A r \in 1 .. ids + 1 : r # ids + 1 => r \in 1 .. ids
    BY <1>1
  <2> QED BY <1>1, <2>1, <2>2 DEF Unreported
<1>4. (Cardinality(Unreported) <= crashes)'
  BY <1>1, <1>3, UnreportedBy DEF Linked, ReporterTyped
<1>5. ~ InReport' /\ pc' # "ack"
  BY <1>1 DEF InReport
<1>6. (acked \cap (todo \cup lost) = {})' /\ ids' \in 0 .. MaxRuns
  BY <1>1 DEF Linked, RunIds, LoopConstants
<1> QED BY <1>1, <1>2, <1>4, <1>5, <1>6 DEF Linked

(* The report of the run that has just ended, and of no other, is taken    *)
(* into the reporter's hands.                                              *)
LEMMA LinkedByReport ==
  ASSUME LoopConstants, Linked, ReporterTyped, ReporterTyped', todo \cap lost = {}, crashes \in Nat,
         ReportRun
  PROVE  Linked'
<1>1. /\ pc = "report" /\ pc' = "ack" /\ crashes' = crashes
      /\ UNCHANGED <<ids, acked, lost>> /\ todo' = todo \ {ids}
  BY DEF ReportRun, Report, R!ReportRun
<1>2. PICK r \in todo :
        /\ op' = [op EXCEPT ![Self] = [R!Idle EXCEPT !.kind = "live", !.items = <<r>>]]
        /\ todo' = todo \ {r}
  BY DEF ReportRun, R!ReportRun
<1>3. r = ids
  BY <1>1, <1>2
<1>4. op'[Self].items[1] = ids
  <2>1. op'[Self] = [R!Idle EXCEPT !.kind = "live", !.items = <<r>>]
    BY <1>2 DEF ReporterTyped
  <2>2. op'[Self].items = <<r>>
    BY <2>1 DEF R!Idle
  <2> QED BY <1>3, <2>2
<1>5. Underway /\ Underway'
  BY <1>1 DEF Underway
<1>6. Unreported' \subseteq Unreported
  BY <1>1, <1>5 DEF Unreported
<1>7. (Cardinality(Unreported) <= crashes)'
  BY <1>1, <1>6, UnreportedBy DEF Linked, ReporterTyped
<1>8. ids \notin todo' /\ ids \notin lost
  BY <1>1, <1>2, <1>3
<1> QED BY <1>1, <1>4, <1>5, <1>7, <1>8 DEF Linked, InReport

(* The last ack is sent when the report is out of the reporter's hands.    *)
LEMMA LinkedByAck ==
  ASSUME LoopConstants, Linked, ReporterTyped, ReporterTyped', crashes \in Nat, LastAck
  PROVE  Linked'
<1>1. /\ pc = "ack" /\ pc' = "next" /\ acked' = acked \cup {ids} /\ crashes' = crashes
      /\ UNCHANGED <<ids, todo, lost, op>> /\ op[Self].kind = "idle"
  BY DEF LastAck, FinalAck, reporterVars, Idle
<1>2. Underway /\ ~ Underway' /\ ~ InReport'
  BY <1>1 DEF Underway, InReport
<1>3. ids \in 1 .. ids /\ ids \notin todo \cup lost
  BY <1>1, <1>2 DEF Linked, RunIds
<1>4. Unreported' \subseteq Unreported
  BY <1>1, <1>2, <1>3 DEF Unreported
<1>5. (Cardinality(Unreported) <= crashes)'
  BY <1>1, <1>4, UnreportedBy DEF Linked, ReporterTyped
<1> QED BY <1>1, <1>2, <1>3, <1>5 DEF Linked

(* The end of the process takes with it the report in the reporter's       *)
(* hands, or the run that is under way, which is the same one.             *)
LEMMA LinkedByEnd ==
  ASSUME LoopConstants, Linked, ReporterTyped, ReporterTyped', crashes \in Nat,
         pc' = "down", crashes' = crashes + 1, UNCHANGED <<ids, acked, todo>>, ~ InReport',
         lost' = lost \/ (InReport /\ lost' = lost \cup {ids})
  PROVE  Linked'
<1>1. ~ Underway' /\ pc' # "ack"
  BY DEF Underway
<1>2. Unreported' \subseteq Unreported \cup {ids}
  BY <1>1 DEF Unreported
<1>3. (Cardinality(Unreported) <= crashes)'
  BY <1>2, UnreportedBy DEF Linked, ReporterTyped
<1>4. acked' \cap (todo' \cup lost') = {}
  <2>1. InReport => ids \notin acked
    BY DEF Linked, Underway
  <2> QED BY <2>1 DEF Linked
<1> QED BY <1>1, <1>3, <1>4 DEF Linked

LEMMA ReporterTypes == RP!Safe => ReporterTyped /\ todo \cap lost = {}
BY DEF RP!Safe, RP!Core, RP!TypeOK, RP!OnePlace, RP!Kinds, R!Kinds, ReporterTyped

LEMMA LinkedStep ==
  ASSUME LoopConstants, TypeOK, RP!Safe, RP!Safe', Linked, [LoopNext]_loopVars
  PROVE  Linked'
<1>t. /\ crashes \in Nat /\ ReporterTyped /\ ReporterTyped' /\ todo \cap lost = {}
      /\ op[Self].kind \in R!Kinds
  <2>1. RP!Safe' => ReporterTyped'
    BY ReporterTypes, PTL
  <2>2. op[Self].kind \in R!Kinds
    BY ReporterTypes DEF ReporterTyped
  <2> QED BY <2>1, <2>2, ReporterTypes DEF TypeOK
<1>1. ASSUME Idle, UNCHANGED <<ids, acked, reporterVars, crashes>>,
             Underway' <=> Underway, pc' = "ack" => pc = "ack"
      PROVE  Linked'
  BY <1>1, LinkedByQuiet DEF reporterVars, InReport, Idle
<1>2. CASE LoopGoesOn \/ Contact
  <2>1. Idle /\ UNCHANGED <<ids, acked, reporterVars, crashes>>
    BY <1>2 DEF LoopGoesOn, Contact, Wake, SyncAdopts, SyncKeeps, SyncUnreachable,
       PlanIdle, Plan, Take, Skip, PreflightFails, PreflightPasses, EndRun, EndTick, Restart
  <2>2. (Underway' <=> Underway) /\ (pc' = "ack" => pc = "ack")
    BY <1>2 DEF LoopGoesOn, Contact, Wake, SyncAdopts, SyncKeeps, SyncUnreachable, Underway,
       PlanIdle, Plan, Take, Skip, PreflightFails, PreflightPasses, EndRun, EndTick, Restart
  <2> QED BY <1>1, <2>1, <2>2
<1>3. CASE DrainSpool
  <2>1. /\ pc = "drain" /\ pc' = "plan" /\ Idle
        /\ UNCHANGED <<ids, acked, todo, lost, crashes>>
    BY <1>3 DEF DrainSpool, Drain, reporterVars, R!BeginDrain
  <2>2. ~ InReport'
    <3>1. CASE UNCHANGED op
      BY <2>1, <3>1 DEF Idle, InReport
    <3>2. CASE R!BeginDrain(Self)
      <4>1. op'[Self] = [R!Idle EXCEPT !.kind = "drain", !.items = spool]
        BY <1>t, <3>2 DEF R!BeginDrain, ReporterTyped
      <4> QED BY <4>1 DEF InReport, R!Idle
    <3> QED BY <1>3, <3>1, <3>2 DEF DrainSpool, reporterVars
  <2>3. ~ Underway /\ ~ Underway'
    BY <2>1 DEF Underway
  <2> QED BY <2>1, <2>2, <2>3, LinkedByQuiet
<1>4. CASE CallAnswered
  <2>1. RP!Advance(Self) /\ RP!TypeOK /\ RP!Shaped /\ UNCHANGED <<vars, ids, acked>>
    BY <1>4, SameOperations DEF CallAnswered, RP!Safe, RP!Core
  <2>2. /\ UNCHANGED <<todo, lost>>
        /\ InReport' => InReport /\ op'[Self].items = op[Self].items
    BY <2>1, ReporterAssumptions, RP!HandKept DEF InReport
  <2>3. UNCHANGED <<pc, crashes>> /\ (Underway' <=> Underway)
    BY <2>1 DEF vars, Underway
  <2> QED BY <2>1, <2>2, <2>3, LinkedByQuiet
<1>5. CASE LoopCrashes
  <2>1. /\ pc' = "down" /\ crashes' = crashes + 1 /\ UNCHANGED <<ids, acked>>
    BY <1>5 DEF LoopCrashes, Crash, Die
  <2>2. CASE Idle /\ UNCHANGED reporterVars
    BY <1>t, <2>1, <2>2, LinkedByEnd DEF reporterVars, Idle, InReport
  <2>3. CASE ~ Idle /\ R!Crash(Self)
    <3>1. UNCHANGED todo /\ lost' = IF op[Self].kind = "drain" THEN lost
                                    ELSE lost \cup {R!Current(Self)}
      BY <2>3 DEF R!Crash
    <3>2. op'[Self] = R!Idle
      BY <1>t, <2>3 DEF R!Crash, ReporterTyped
    <3>3. ~ InReport'
      BY <3>2 DEF InReport, R!Idle
    <3>4. lost' = lost \/ (InReport /\ lost' = lost \cup {ids})
      <4>1. CASE op[Self].kind = "drain"
        BY <3>1, <4>1
      <4>2. CASE op[Self].kind # "drain"
        <5>1. InReport
          BY <1>t, <2>3, <4>2 DEF InReport, Idle, R!Kinds
        <5>2. R!Current(Self) = ids
          BY <5>1 DEF Linked, R!Current
        <5> QED BY <3>1, <4>2, <5>1, <5>2
      <4> QED BY <4>1, <4>2
    <3> QED BY <1>t, <2>1, <3>1, <3>3, <3>4, LinkedByEnd
  <2> QED BY <1>5, <2>2, <2>3 DEF LoopCrashes
<1>6. CASE LoopRaises
  <2>1. /\ pc' = "down" /\ crashes' = crashes + 1 /\ UNCHANGED <<ids, acked, reporterVars>>
        /\ Idle
    BY <1>6 DEF LoopRaises, StepRaises, Die
  <2> QED BY <1>t, <2>1, LinkedByEnd DEF reporterVars, Idle, InReport
<1>7. CASE World
  <2>1. UNCHANGED <<ids, acked, reporterVars, crashes, pc>>
    BY <1>7 DEF World, Elapse, Publish, Register
  <2> QED BY <2>1, LinkedByQuiet DEF reporterVars, InReport, Underway
<1>8. CASE UNCHANGED loopVars
  <2>1. UNCHANGED <<ids, acked, reporterVars, crashes, pc>>
    BY <1>8 DEF loopVars, vars
  <2> QED BY <2>1, LinkedByQuiet DEF reporterVars, InReport, Underway
<1> QED BY <1>t, <1>2, <1>3, <1>4, <1>5, <1>6, <1>7, <1>8, LinkedByStart, LinkedByReport,
           LinkedByAck DEF LoopNext, LoopAdvances

LEMMA LinkedAlways ==
  ASSUME LoopConstants
  PROVE  LoopSpec => [](TypeOK /\ RP!Safe /\ Linked)
<1>1. LoopSpec => []TypeOK
  BY LoopIsTheLoop, TypeCorrect, PTL
<1>2. TypeOK /\ RP!Safe /\ RP!Safe' /\ Linked /\ [LoopNext]_loopVars => Linked'
  BY LinkedStep
<1>3. LoopInit => Linked
  BY LinkedInitially
<1> QED BY <1>1, <1>2, <1>3, ReporterAlways, PTL DEF LoopSpec

(* The one report that can be in the reporter's hands is that of the run   *)
(* whose last ack is next.                                                 *)
LEMMA HandIsThisRun ==
  ASSUME Linked
  PROVE  RP!InHand # {} => pc = "ack" /\ RP!InHand = {ids}
BY DEF RP!InHand, RP!Current, Linked, InReport

LEMMA SameReports ==
  R!SpoolSet = RP!SpoolSet /\ \A r : R!Complete(r) <=> RP!Complete(r)
BY DEF R!SpoolSet, RP!SpoolSet, R!Complete, RP!Complete, R!Appended, RP!Appended, R!Batch,
   RP!Batch

(* What the API was told is over is complete upstream, as far as the       *)
(* answers to its batches said, or in the spool, for every catalog, every  *)
(* schedule, any number of runs and whatever ends the process at whatever  *)
(* point: report_run comes before the last ack and is through when the ack *)
(* is sent.                                                                *)
THEOREM AckMeansReported ==
  ASSUME LoopConstants
  PROVE  LoopSpec => []AckedIsReported
<1>1. TypeOK /\ RP!Safe /\ Linked => AckedIsReported
  <2> SUFFICES ASSUME RP!Safe, Linked, NEW r \in acked PROVE Kept(r)
    BY DEF AckedIsReported
  <2>1. \A q \in RunIds \ (todo \cup RP!SpoolSet \cup RP!InHand) : RP!Complete(q) \/ q \in lost
    BY DEF RP!Safe, RP!Delivered, RP!LeftUpstream
  <2>2. r \in RunIds /\ r \notin todo \cup lost
    BY DEF Linked, RunIds, LoopConstants
  <2>3. r \notin RP!InHand
    BY HandIsThisRun DEF Linked, Underway
  <2> QED BY <2>1, <2>2, <2>3, SameReports DEF Kept
<1> QED BY <1>1, LinkedAlways, PTL

(* Of all runs that were started, in whatever life, no more are neither    *)
(* upstream nor queued than the process has ended, but for the one under   *)
(* way: the kill of a process costs one report at most, and neither a      *)
(* failing API nor a drain of a later life costs any.                      *)
THEOREM EachEndCostsOneReport ==
  ASSUME LoopConstants
  PROVE  LoopSpec => []OneReportPerEnd
<1>1. TypeOK /\ RP!Safe /\ Linked => OneReportPerEnd
  <2> SUFFICES ASSUME TypeOK, RP!Safe, Linked PROVE OneReportPerEnd
    OBVIOUS
  <2> DEFINE Missing == {r \in 1 .. ids : ~Kept(r)}
             U == Unreported
  <2>1. \A q \in RunIds \ (todo \cup RP!SpoolSet \cup RP!InHand) : RP!Complete(q) \/ q \in lost
    BY DEF RP!Safe, RP!Delivered, RP!LeftUpstream
  <2>2. \A r \in 1 .. ids : r \in RunIds
    BY DEF Linked, RunIds, LoopConstants
  <2>3. Missing \subseteq lost \cup (todo \cap 1 .. ids) \cup RP!InHand
    BY <2>1, <2>2, SameReports DEF Kept
  <2>4. Missing \subseteq U \cup (IF Underway THEN {ids} ELSE {})
    BY <2>3, HandIsThisRun DEF Unreported, Underway
  <2>5. crashes \in Nat /\ Cardinality(U) <= crashes /\ todo \subseteq RunIds /\ lost \subseteq RunIds
    BY ReporterTypes DEF TypeOK, Linked, ReporterTyped
  <2>6. IsFiniteSet(U) /\ Cardinality(U) \in Nat
    BY <2>5, UnreportedFinite
  <2> HIDE DEF Missing, U
  <2>7. CASE Underway
    <3>1. Missing \subseteq U \cup {ids}
      BY <2>4, <2>7
    <3>2. IsFiniteSet(U \cup {ids}) /\ Cardinality(U \cup {ids}) <= Cardinality(U) + 1
      BY <2>6, FS_AddElement
    <3>3. IsFiniteSet(Missing) /\ Cardinality(Missing) <= Cardinality(U \cup {ids})
      BY <3>1, <3>2, FS_Subset
    <3>4. Cardinality(Missing) \in Nat /\ Cardinality(U \cup {ids}) \in Nat
      BY <3>2, <3>3, FS_CardinalityType
    <3>5. Cardinality(Missing) <= crashes + 1
      BY <2>5, <2>6, <3>2, <3>3, <3>4
    <3> QED BY <2>7, <3>5 DEF OneReportPerEnd, Missing
  <2>8. CASE ~ Underway
    <3>1. Missing \subseteq U
      BY <2>4, <2>8
    <3>2. IsFiniteSet(Missing) /\ Cardinality(Missing) <= Cardinality(U)
      BY <2>6, <3>1, FS_Subset
    <3>3. Cardinality(Missing) \in Nat
      BY <3>2, FS_CardinalityType
    <3>4. Cardinality(Missing) <= crashes + 0
      BY <2>5, <2>6, <3>2, <3>3
    <3> QED BY <2>8, <3>4 DEF OneReportPerEnd, Missing
  <2> QED BY <2>7, <2>8
<1> QED BY <1>1, LinkedAlways, PTL
=============================================================================
