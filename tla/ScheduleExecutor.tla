------------------------- MODULE ScheduleExecutor -------------------------
(***************************************************************************)
(* The execution loop of the controller (executor.py): one process that    *)
(* polls the API for the newest schedule, works out which placements are   *)
(* due, and runs them one at a time, each one bracketed by a "started" and *)
(* a "finished" or "failed" ack.                                           *)
(*                                                                         *)
(* Time is counted in units of MIN_WINDOW_TIMEOUT_S (Floor units).  The    *)
(* loop reads the clock once per tick: tickNow is that reading, and every  *)
(* decision of the tick uses it while the real clock, now, moves on.       *)
(* Reporting a run and draining the spool are steps of this loop; their    *)
(* effect on the spool is the subject of RunReporter and ReportingLoop.    *)
(***************************************************************************)
EXTENDS Integers, FiniteSets, Sequences

CONSTANTS
  Workflow,     \* workflow ids, as the rank of the id among all ids
  Job,          \* what jobs.json says of a workflow, once it has an entry
  Schedules,    \* the contents the API may publish
  NoSchedule,   \* "no schedule has been pulled yet"
  NoRun,        \* "no placement is being executed"
  Needs,        \* how long a job may need; the largest stands for a hang
  Floor,        \* MIN_WINDOW_TIMEOUT_S
  HttpTimeout,  \* DEFAULT_RUN_TIMEOUT_S of the HTTP adapters
  Poll,         \* poll_interval_s
  MaxTime,      \* bound of the clock, a job that runs over it included
  MaxVersion,   \* bound on the schedules published
  MaxCrashes,   \* bound on the number of times the process dies, of whatever
  WatchCatalog, \* --watch-catalog: entries added to jobs.json are seen
  SlowCalls     \* whether HTTP calls and preflights take noticeable time

NoTime == -1
Time == Nat

Placement == [wf : Workflow, start : Time \cup {NoTime},
              end : Time \cup {NoTime}, feasible : BOOLEAN]

(* The identity under which an attempt is remembered: (workflow_id, start) *)
Key(p) == <<p.wf, p.start>>
Keys == {Key(p) : p \in UNION {s.placements : s \in Schedules}}

(* killed: the adapter's timeout fired before the job was done.            *)
Run == [p : Placement, target : Int, start : Time, budget : Nat \cup {NoTime},
        need : Nat, end : Time \cup {NoTime}, exit : {"none", "success", "error"},
        killed : BOOLEAN]
Ack == [event : {"started", "finished", "failed"}, version : Nat, wf : Workflow]

ASSUME WorkflowAssumption == Workflow \subseteq Nat
ASSUME JobAssumption ==
  Job \in [Workflow -> [deadline : Time \cup {NoTime}, timeout : Nat,
                        framework : {"command", "http", "unknown"}]]
(* The API plans a workflow at most once per start, within one schedule.   *)
ASSUME SchedulesAssumption ==
  \A s \in Schedules :
    /\ s \in [validUntil : Time \cup {NoTime}, placements : SUBSET Placement]
    /\ \A p, q \in s.placements : Key(p) = Key(q) => p = q
    /\ \A p \in s.placements : p.end # NoTime => p.start <= p.end
ASSUME SentinelAssumption == NoSchedule \notin Schedules /\ NoRun \notin Run
ASSUME BoundsAssumption ==
  /\ Needs \subseteq Nat \ {0}
  /\ {Floor, HttpTimeout, Poll} \subseteq Nat \ {0}
  /\ {MaxTime, MaxVersion, MaxCrashes} \subseteq Nat
  /\ {WatchCatalog, SlowCalls} \subseteq BOOLEAN
(***************************************************************************)
(* The process.  pc says which call of tick() and _execute() comes next.   *)
(***************************************************************************)
VARIABLES
  now,        \* the real clock
  published,  \* what the API has published; version v is published[v]
  catalog,    \* the workflows that have an entry in the job source
  pc,
  wakeAt,     \* when the sleep of run_forever ends
  tickNow,    \* the clock as read at the start of the tick
  mode,       \* "normal" or "fallback", decided once per tick
  version,    \* _version
  current,    \* _current
  executed,   \* _executed
  due,        \* what _due returned and has not been taken up yet
  run,        \* the placement being executed
  crashes,    \* how often the process has died
  (* observation only *)
  starts,     \* runs started per key, in this life of the process
  ackLog,     \* the acks sent in this life
  answered    \* keys an ack was sent for, in this life

envVars  == <<now, published, catalog>>
tickVars == <<wakeAt, tickNow, mode>>
planVars == <<version, current, executed, due>>
obsVars  == <<starts, ackLog, answered>>
vars == <<envVars, pc, tickVars, planVars, run, crashes, obsVars>>

Steps == {"sleep", "sync", "drain", "plan", "next", "profile", "running",
          "report", "ack", "down"}

TypeOK ==
  /\ now \in Time
  /\ published \in Seq(Schedules)
  /\ catalog \subseteq Workflow
  /\ pc \in Steps
  /\ wakeAt \in Time /\ tickNow \in Time
  /\ mode \in {"normal", "fallback"}
  /\ version \in Nat \cup {-1}
  /\ current \in Schedules \cup {NoSchedule}
  /\ executed \subseteq Keys
  /\ due \subseteq [target : Int, p : Placement]
  /\ run \in Run \cup {NoRun}
  /\ crashes \in Nat
  /\ starts \in [Keys -> Nat]
  /\ ackLog \in Seq(Ack)
  /\ answered \subseteq Keys

-----------------------------------------------------------------------------
(* What the job source and the window say about a placement.               *)

(* _resolve_job *)
Resolves(p) == p.wf \in catalog

(* _adapter_for: the registry has no class for an unknown framework        *)
HasAdapter(p) == Job[p.wf].framework # "unknown"

(* _mode *)
Mode(t) ==
  IF current.validUntil = NoTime \/ t <= current.validUntil
    THEN "normal" ELSE "fallback"

(* The deadline the fallback aims at: the local one, else the planned end  *)
FallbackDeadline(p) ==
  IF Resolves(p) /\ Job[p.wf].deadline # NoTime
    THEN Job[p.wf].deadline ELSE p.end

(* _target_start *)
TargetStart(p, m) ==
  IF m = "fallback" /\ FallbackDeadline(p) # NoTime /\ p.end # NoTime
    THEN FallbackDeadline(p) - (p.end - p.start)
    ELSE p.start

(* _pending: feasible, placed, and not attempted in this life              *)
Pending(m) ==
  { [target |-> TargetStart(p, m), p |-> p] :
      p \in { q \in current.placements :
                q.feasible /\ q.start # NoTime /\ Key(q) \notin executed } }

(* Mutant: a window that has closed is not opened any more                 *)
DueWithinWindow(t, m) ==
  { d \in Pending(m) : t >= d.target /\ (d.p.end # NoTime => t <= d.p.end) }

(* _due *)
Due(t, m) == { d \in Pending(m) : t >= d.target }

(* The order of the sort in _pending: target, then workflow id             *)
Before(d, e) ==
  \/ d.target < e.target
  \/ d.target = e.target /\ d.p.wf < e.p.wf
IsFirst(d) == d \in due /\ \A e \in due : ~Before(e, d)

(* Mutant: the floor is taken off the window instead of bounding it        *)
WindowBudgetLessFloor(p, t) ==
  LET limit == IF p.end # NoTime THEN p.end ELSE Job[p.wf].deadline
  IN  IF limit = NoTime THEN NoTime
      ELSE IF limit - t > Floor THEN limit - t - Floor ELSE Floor

(* _window_budget_s: the time left in the window, never below the floor    *)
WindowBudget(p, t) ==
  LET limit == IF p.end # NoTime THEN p.end ELSE Job[p.wf].deadline
  IN  IF limit = NoTime THEN NoTime
      ELSE IF limit - t > Floor THEN limit - t ELSE Floor

(* Mutant: a command is left alone *)
BudgetOfHttpOnly(p, t) ==
  IF Job[p.wf].timeout # 0 THEN Job[p.wf].timeout
  ELSE IF Job[p.wf].framework = "http" THEN HttpTimeout ELSE NoTime

(* _bounded_request, and the fallback of the adapter that reads it: a      *)
(* declared timeout wins; without either, an HTTP adapter has its default  *)
(* and a command may run forever.                                          *)
Budget(p, t) ==
  IF Job[p.wf].timeout # 0 THEN Job[p.wf].timeout
  ELSE IF WindowBudget(p, t) # NoTime THEN WindowBudget(p, t)
  ELSE IF Job[p.wf].framework = "http" THEN HttpTimeout
  ELSE NoTime

-----------------------------------------------------------------------------
Init ==
  /\ now = 0 /\ published = <<>>
  /\ catalog \in SUBSET Workflow
  /\ pc = "sleep" /\ wakeAt = 0 /\ tickNow = 0 /\ mode = "normal"
  /\ version = -1 /\ current = NoSchedule /\ executed = {} /\ due = {}
  /\ run = NoRun /\ crashes = 0
  /\ starts = [k \in Keys |-> 0]
  /\ ackLog = <<>> /\ answered = {}

(* tick() begins: the one reading of the clock.  Once the clock has reached *)
(* its bound the sleep is cut short.                                       *)
Wake ==
  /\ pc = "sleep" /\ (now >= wakeAt \/ now >= MaxTime)
  /\ tickNow' = now /\ pc' = "sync"
  /\ UNCHANGED <<envVars, wakeAt, mode, planVars, run, crashes, obsVars>>

(* Mutants: what was attempted is forgotten with the schedule it was in;   *)
(* the version moves on and the placements in force stay.                  *)
SyncAdoptsAfresh ==
  /\ pc = "sync"
  /\ published # <<>> /\ Len(published) > version
  /\ version' = Len(published)
  /\ current' = published[Len(published)]
  /\ executed' = {}
  /\ pc' = "drain"
  /\ UNCHANGED <<envVars, tickVars, due, run, crashes, obsVars>>
SyncAdoptsVersionOnly ==
  /\ pc = "sync"
  /\ published # <<>> /\ Len(published) > version
  /\ version' = Len(published)
  /\ current' = IF current = NoSchedule THEN published[Len(published)] ELSE current
  /\ pc' = "drain"
  /\ UNCHANGED <<envVars, tickVars, executed, due, run, crashes, obsVars>>

(* sync_schedule, a 200: the newest version is adopted, _executed is kept  *)
SyncAdopts ==
  /\ pc = "sync"
  /\ published # <<>> /\ Len(published) > version
  /\ version' = Len(published)
  /\ current' = published[Len(published)]
  /\ pc' = "drain"
  /\ UNCHANGED <<envVars, tickVars, executed, due, run, crashes, obsVars>>

(* sync_schedule, a 204 or an HTTP error: reachable, nothing adopted       *)
SyncKeeps ==
  /\ pc = "sync" /\ pc' = "drain"
  /\ UNCHANGED <<envVars, tickVars, planVars, run, crashes, obsVars>>

(* sync_schedule, no contact: the spool is not drained this tick           *)
SyncUnreachable ==
  /\ pc = "sync" /\ pc' = "plan"
  /\ UNCHANGED <<envVars, tickVars, planVars, run, crashes, obsVars>>

(* drain_spool and _safe_extra_drain *)
Drain ==
  /\ pc = "drain" /\ pc' = "plan"
  /\ UNCHANGED <<envVars, tickVars, planVars, run, crashes, obsVars>>

(* Nothing pulled yet: an idle tick *)
PlanIdle ==
  /\ pc = "plan" /\ current = NoSchedule
  /\ pc' = "sleep" /\ wakeAt' = now + Poll
  /\ UNCHANGED <<envVars, tickNow, mode, planVars, run, crashes, obsVars>>

(* The due list is computed once, before any of it is executed *)
Plan ==
  /\ pc = "plan" /\ current # NoSchedule
  /\ mode' = Mode(tickNow)
  /\ due' = Due(tickNow, Mode(tickNow))
  /\ pc' = "next"
  /\ UNCHANGED <<envVars, wakeAt, tickNow, version, current, executed, run,
                 crashes, obsVars>>

(* _executed.add(self._key(placement)), after every outcome of _execute    *)
MarkExecuted(p) == executed' = executed \cup {Key(p)}

SendAck(event, p) ==
  /\ ackLog' = Append(ackLog, [event |-> event, version |-> version, wf |-> p.wf])
  /\ answered' = answered \cup {Key(p)}

(* unknown_job, unknown_framework: no ack, and not looked at again         *)
Skip(d) ==
  /\ pc = "next" /\ IsFirst(d)
  /\ ~Resolves(d.p) \/ ~HasAdapter(d.p)
  /\ due' = due \ {d} /\ MarkExecuted(d.p)
  /\ UNCHANGED <<envVars, pc, tickVars, version, current, run, crashes, obsVars>>

PreflightFails(d) ==
  /\ pc = "next" /\ IsFirst(d) /\ Resolves(d.p) /\ HasAdapter(d.p)
  /\ SendAck("failed", d.p)
  /\ due' = due \ {d} /\ MarkExecuted(d.p)
  /\ UNCHANGED <<envVars, pc, tickVars, version, current, run, crashes,
                 starts>>

PreflightPasses(d) ==
  /\ pc = "next" /\ IsFirst(d) /\ Resolves(d.p) /\ HasAdapter(d.p)
  /\ SendAck("started", d.p)
  /\ due' = due \ {d}
  /\ run' = [p |-> d.p, target |-> d.target, start |-> now, budget |-> NoTime,
             need |-> 0, end |-> NoTime, exit |-> "none", killed |-> FALSE]
  /\ pc' = "profile"
  /\ UNCHANGED <<envVars, tickVars, version, current, executed, crashes,
                 starts>>

(* profiler.start, power_cap.apply, adapter.run *)
StartRun ==
  /\ pc = "profile"
  /\ \E n \in Needs :
       run' = [run EXCEPT !.start = now, !.need = n,
                          !.budget = Budget(run.p, tickNow)]
  /\ starts' = [starts EXCEPT ![Key(run.p)] = @ + 1]
  /\ pc' = "running"
  /\ UNCHANGED <<envVars, tickVars, planVars, crashes, ackLog, answered>>

(* The adapter stops a job that needs more than its budget *)
Killed == run.budget # NoTime /\ run.need > run.budget
RunEnds == run.start + (IF Killed THEN run.budget ELSE run.need)

EndRun ==
  /\ pc = "running" /\ now = RunEnds
  /\ \E e \in IF Killed THEN {"error"} ELSE {"success", "error"} :
       run' = [run EXCEPT !.end = now, !.exit = e, !.killed = Killed]
  /\ pc' = "report"
  /\ UNCHANGED <<envVars, tickVars, planVars, crashes, obsVars>>

(* power_cap.restore, profiler.stop, report_run *)
Report ==
  /\ pc = "report" /\ pc' = "ack"
  /\ UNCHANGED <<envVars, tickVars, planVars, run, crashes, obsVars>>

(* Mutants: a run that failed sends no terminal ack; is left to be retried *)
FinalAckOfSuccess ==
  /\ pc = "ack"
  /\ IF run.exit = "success" THEN SendAck("finished", run.p)
     ELSE UNCHANGED <<ackLog, answered>>
  /\ MarkExecuted(run.p)
  /\ run' = NoRun /\ pc' = "next"
  /\ UNCHANGED <<envVars, tickVars, version, current, due, crashes, starts>>
FinalAckRetriesFailures ==
  /\ pc = "ack"
  /\ SendAck(IF run.exit = "success" THEN "finished" ELSE "failed", run.p)
  /\ IF run.exit = "success" THEN MarkExecuted(run.p) ELSE UNCHANGED executed
  /\ run' = NoRun /\ pc' = "next"
  /\ UNCHANGED <<envVars, tickVars, version, current, due, crashes, starts>>

FinalAck ==
  /\ pc = "ack"
  /\ SendAck(IF run.exit = "success" THEN "finished" ELSE "failed", run.p)
  /\ MarkExecuted(run.p)
  /\ run' = NoRun /\ pc' = "next"
  /\ UNCHANGED <<envVars, tickVars, version, current, due, crashes, starts>>

(* run_forever sleeps for the poll interval *)
EndTick ==
  /\ pc = "next" /\ due = {}
  /\ pc' = "sleep" /\ wakeAt' = now + Poll
  /\ UNCHANGED <<envVars, tickNow, mode, planVars, run, crashes, obsVars>>

-----------------------------------------------------------------------------
(* All of _current, _version and _executed is memory of the process.       *)
Die ==
  /\ pc' = "down"
  /\ version' = -1 /\ current' = NoSchedule /\ executed' = {} /\ due' = {}
  /\ run' = NoRun
  /\ starts' = [k \in Keys |-> 0]
  /\ ackLog' = <<>> /\ answered' = {}
  /\ UNCHANGED <<envVars, tickVars>>

(* Killed, or the end of a --once invocation under cron *)
Crash ==
  /\ pc # "down" /\ crashes < MaxCrashes
  /\ crashes' = crashes + 1
  /\ Die

(* profiler.start, drain_spool and report_run are called outside any try:  *)
(* nvmlInit or SQLite raising ends the process                             *)
StepRaises ==
  /\ pc \in {"drain", "profile", "report"} /\ crashes < MaxCrashes
  /\ crashes' = crashes + 1
  /\ Die

(* Restart=on-failure, or the next cron slot *)
Restart ==
  /\ pc = "down"
  /\ pc' = "sleep" /\ wakeAt' = now
  /\ UNCHANGED <<envVars, tickNow, mode, planVars, run, crashes, obsVars>>

(* The environment: the clock, the API, the operator                       *)
Elapse ==
  /\ \/ pc \in {"sleep", "down"} /\ now < MaxTime
     \/ pc = "running" /\ now < RunEnds
     \/ SlowCalls /\ pc # "running" /\ now < MaxTime
  /\ now' = now + 1
  /\ UNCHANGED <<published, catalog, pc, tickVars, planVars, run, crashes, obsVars>>

Publish ==
  /\ Len(published) < MaxVersion
  /\ \E s \in Schedules : published' = Append(published, s)
  /\ UNCHANGED <<now, catalog, pc, tickVars, planVars, run, crashes, obsVars>>

Register ==
  /\ WatchCatalog
  /\ \E w \in Workflow \ catalog : catalog' = catalog \cup {w}
  /\ UNCHANGED <<now, published, pc, tickVars, planVars, run, crashes, obsVars>>

Take(d) == Skip(d) \/ PreflightFails(d) \/ PreflightPasses(d)

Loop ==
  \/ Wake \/ SyncAdopts \/ SyncKeeps \/ SyncUnreachable \/ Drain
  \/ PlanIdle \/ Plan \/ (\E d \in due : Take(d))
  \/ StartRun \/ EndRun \/ Report \/ FinalAck \/ EndTick \/ Restart

Next == Loop \/ Crash \/ StepRaises \/ Elapse \/ Publish \/ Register

Spec == Init /\ [][Next]_vars

(* run_forever ticks for as long as the process lives, the supervisor or   *)
(* cron starts it again, and the clock moves.                              *)
FairSpec == Spec /\ WF_vars(Loop) /\ WF_vars(Elapse)

-----------------------------------------------------------------------------
(* Within one life of the process a placement, identified by workflow and  *)
(* start, is started at most once: whatever versions are adopted in        *)
(* between, and although _executed is only updated when a run is over.     *)
AttemptedOncePerLife == \A k \in Keys : starts[k] <= 1

(* The acks of one life alternate: what is "started" is answered by one    *)
(* "finished" or "failed" of the same workflow and version before anything *)
(* else is acked, and nothing is "finished" that was not "started".        *)
AcksPaired ==
  \A i \in 1 .. Len(ackLog) :
    /\ ackLog[i].event = "started" =>
         IF i = Len(ackLog)
           THEN /\ run # NoRun
                /\ ackLog[i].wf = run.p.wf /\ ackLog[i].version = version
           ELSE /\ ackLog[i + 1].event \in {"finished", "failed"}
                /\ ackLog[i + 1].wf = ackLog[i].wf
                /\ ackLog[i + 1].version = ackLog[i].version
    /\ ackLog[i].event = "finished" => i > 1 /\ ackLog[i - 1].event = "started"

(* Every ack quotes a version that was published and that holds a feasible *)
(* placement of the workflow it names, so the API can match it; and what   *)
(* runs is a feasible placement of the adopted version, never before its   *)
(* target.  _execute reads _current anew, long after the due list was made *)
AcksMatchSchedule ==
  /\ \A i \in 1 .. Len(ackLog) :
       /\ ackLog[i].version \in 1 .. Len(published)
       /\ \E p \in published[ackLog[i].version].placements :
            p.feasible /\ p.wf = ackLog[i].wf
  /\ run # NoRun =>
       /\ version \in 1 .. Len(published) /\ current = published[version]
       /\ run.p \in current.placements /\ run.p.feasible
       /\ run.target <= tickNow /\ tickNow <= run.start

Ended == pc \in {"report", "ack"}
Undeclared == Job[run.p.wf].timeout = 0
PlannedLength == run.p.end - run.p.start
LaterOf(a, b) == IF a > b THEN a ELSE b

(* Overrun containment: a job that declares no timeout is over by the end  *)
(* of its window (or the floor, counted from the tick), plus the time the  *)
(* tick had already spent on other placements when the job started.        *)
OverrunBounded ==
  (Ended /\ Undeclared /\ run.p.end # NoTime) =>
    run.end <= LaterOf(run.p.end, tickNow + Floor) + (run.start - tickNow)

(* A job started at its planned start that needs no more than its window   *)
(* is not killed by the derived timeout, however early its tick began.     *)
PunctualNeverKilled ==
  (Ended /\ Undeclared /\ run.p.end # NoTime
     /\ run.start = run.p.start /\ run.need <= PlannedLength) => ~run.killed

Holds(k) == current # NoSchedule /\ \E p \in current.placements : Key(p) = k
Wanted(k) ==
  /\ current # NoSchedule
  /\ \E p \in current.placements :
       /\ Key(p) = k /\ p.feasible /\ p.start # NoTime
       /\ Resolves(p) /\ HasAdapter(p)

(* A feasible placement of the schedule in force whose job is in the       *)
(* catalog before its turn comes is never silently skipped: it is acked    *)
(* (started, or failed by its preflight) unless a newer schedule drops it. *)
CataloguedIsAnswered ==
  \A k \in Keys :
    (Wanted(k) /\ k \notin executed) ~> (k \in answered \/ ~Holds(k))

(* The loop implements the ledger of attempts: a placement is taken while  *)
(* it is being executed and closed once it is in _executed.                *)
status == [k \in Keys |->
  IF run # NoRun /\ Key(run.p) = k THEN "taken"
  ELSE IF k \in executed THEN "closed" ELSE "open"]
Ledger == INSTANCE AttemptLedger WITH Keys <- Keys, status <- status
ImplementsLedger == Ledger!Spec

-----------------------------------------------------------------------------
(* A statement of the repository that the code does not keep.             *)

(* MIN_WINDOW_TIMEOUT_S: "a punctual job is never the casualty of          *)
(* arithmetic", for a job the fallback starts at its latest start.         *)
FallbackNeverKilled ==
  (Ended /\ Undeclared /\ run.p.end # NoTime /\ mode = "fallback"
     /\ run.start = run.target /\ run.need <= PlannedLength) => ~run.killed
=============================================================================
