----------------------------- MODULE SdkSession -----------------------------
(***************************************************************************)
(* A program that uses the SDK (sdk.py): it may ask for a window and wait  *)
(* for it, wraps its work in measure(), and goes on, whatever became of    *)
(* the measurement.  The session is composed with the profiler it measures *)
(* with and the client it reports through.                                 *)
(***************************************************************************)
EXTENDS Integers, Sequences

CONSTANTS
  Credentials, Moved, MaxFaults, MaxExpiries,
  Sampler, Channels, MaxSamples, MaxEnergy, MaxLate

VARIABLES
  cred, moved, access, refresh, call, faults, expiries,
  backend, thread, current, set, samples, counter, atStart, telemetry, late,
  used, reset, strays, strayed,
  phase,     \* where the program is
  exit,      \* handle["exit_status"]
  measured,  \* stop() returned a telemetry
  (* observation only *)
  fate,      \* how the body ended
  outcome,   \* what the program saw of measure()
  row,       \* the exit status the API has recorded for the run, or "none"
  trace      \* the copy of the trace that is reported: how long, all the run's
             \* own, and how often the API has it

apiVars == <<cred, moved, access, refresh, call, faults, expiries>>
profVars == <<backend, thread, current, set, samples, counter, atStart, telemetry, late,
              used, reset, strays, strayed>>
sdkVars == <<phase, exit, measured, fate, outcome, row, trace>>
vars == <<apiVars, profVars, sdkVars>>

Api == INSTANCE ApiAuth
Prof == INSTANCE Profiler

ASSUME ApiAssumption == Api!Assumptions
ASSUME ProfilerAssumption == Prof!Assumptions

Nothing == [times |-> 0, count |-> 0, own |-> TRUE]

TypeOK ==
  /\ Api!TypeOK /\ Prof!TypeOK
  /\ phase \in {"idle", "asking", "waiting", "starting", "body", "stopping", "joining",
                "reporting", "pushing", "tracing"}
  /\ exit \in {"success", "failed"} /\ measured \in BOOLEAN
  /\ fate \in {"none", "ok", "marked", "raised"}
  /\ outcome \in {"none", "returned", "raised", "refused", "interrupted"}
  /\ row \in {"none", "success", "failed"}
  /\ trace \in [times : 0 .. 2, count : 0 .. MaxSamples, own : BOOLEAN]

Init ==
  /\ Api!Init /\ Prof!Init
  /\ phase = "idle" /\ exit = "success" /\ measured = FALSE
  /\ fate = "none" /\ outcome = "none" /\ row = "none" /\ trace = Nothing

Goto(p) == phase' = p
Afresh ==
  /\ exit' = "success" /\ measured' = FALSE
  /\ fate' = "none" /\ outcome' = "none" /\ row' = "none" /\ trace' = Nothing
  /\ Prof!Forget
Keep == UNCHANGED <<exit, measured, fate, outcome, row, trace>>

-----------------------------------------------------------------------------
(* next_window: one advise call; a failure raises, an infeasible window    *)
(* makes wait() raise                                                      *)
Ask ==
  /\ phase = "idle" /\ Goto("asking") /\ Api!Call("advise") /\ Afresh
NextWindow ==
  /\ phase = "asking" /\ Api!Taken
  /\ \/ call.answer = "ok" /\ \E p \in {"waiting", "idle"} : Goto(p)
     \/ call.answer # "ok" /\ Goto("idle")
  /\ UNCHANGED profVars /\ Keep

(* wait() returns when the window opens, or when its cap is reached *)
Wait ==
  /\ phase = "waiting" /\ Goto("idle")
  /\ UNCHANGED <<apiVars, profVars>> /\ Keep

(* measure(), up to profiler.start: nothing has been caught yet *)
Measure ==
  /\ phase = "idle" /\ Goto("starting")
  /\ Afresh /\ UNCHANGED apiVars
StartSignals ==
  /\ phase = "starting" /\ Prof!StartSignals
  /\ UNCHANGED <<apiVars, sdkVars>>
Start ==
  /\ phase = "starting" /\ Prof!Start /\ Goto("body")
  /\ UNCHANGED apiVars /\ Keep
StartRaises ==
  /\ phase = "starting" /\ Prof!StartRaises /\ Goto("idle")
  /\ outcome' = "refused"
  /\ UNCHANGED <<apiVars, exit, measured, fate, row, trace>>

(* The body returns, marks its own failure, or raises anything at all *)
BodyEnds ==
  /\ phase = "body" /\ Goto("stopping")
  /\ \/ exit' = "success" /\ fate' = "ok"
     \/ exit' = "failed" /\ fate' \in {"marked", "raised"}
  /\ UNCHANGED <<apiVars, profVars, measured, outcome, row, trace>>

(* measure() is over: what the body raised is raised again *)
Over ==
  /\ Goto("idle")
  /\ outcome' = IF fate = "raised" THEN "raised" ELSE "returned"

(* finally: profiler.stop; an exception from it leaves the run without     *)
(* telemetry; an interrupt while it joins leaves it unreported, and one    *)
(* before it tells the sampler to stop leaves that to the next start       *)
StopSignals ==
  /\ phase = "stopping" /\ Prof!StopSignals /\ Goto("joining")
  /\ UNCHANGED apiVars /\ Keep
StopReturns ==
  /\ phase = "joining" /\ Prof!StopReturns /\ Goto("reporting")
  /\ measured' = TRUE
  /\ UNCHANGED <<apiVars, exit, fate, outcome, row, trace>>
StopRaises ==
  /\ phase = "joining" /\ Prof!StopRaises /\ Goto("reporting")
  /\ UNCHANGED apiVars /\ Keep
StopInterrupted ==
  /\ phase \in {"stopping", "joining"} /\ Goto("idle") /\ outcome' = "interrupted"
  /\ UNCHANGED <<apiVars, profVars, exit, measured, fate, row, trace>>

(* _report, which copies the list of samples first, or report=False *)
Report ==
  /\ phase = "reporting" /\ Goto("pushing") /\ Api!Call("push_run")
  /\ trace' = IF measured
                THEN [times |-> 0, count |-> Len(samples),
                      own |-> \A i \in DOMAIN samples : samples[i] = current]
                ELSE Nothing
  /\ UNCHANGED <<profVars, exit, measured, fate, outcome, row>>
ReportNothing ==
  /\ phase = "reporting" /\ Over
  /\ UNCHANGED <<apiVars, profVars, exit, measured, fate, row, trace>>

(* The row of the run has the exit status the handle held *)
Recorded == row' = IF call.effects > 0 THEN exit ELSE row

(* Mutant: the trace is pushed whatever became of the run row *)
PushRunIgnored ==
  /\ phase = "pushing" /\ Api!Taken
  /\ Recorded
  /\ IF trace.count > 0 THEN Goto("tracing") /\ UNCHANGED <<outcome, trace>>
                        ELSE Over /\ trace' = Nothing
  /\ UNCHANGED <<profVars, exit, measured, fate>>

(* The run row; its trace follows under the id the answer carries, if the  *)
(* answer is ok and carries one                                            *)
PushRun ==
  /\ phase = "pushing" /\ Api!Taken
  /\ Recorded
  /\ IF call.answer = "ok" /\ ~moved /\ trace.count > 0
       THEN Goto("tracing") /\ UNCHANGED <<outcome, trace>>
       ELSE Over /\ trace' = Nothing
  /\ UNCHANGED <<profVars, exit, measured, fate>>
PushSamples ==
  /\ phase = "tracing" /\ Api!Call("push_samples") /\ UNCHANGED <<profVars, sdkVars>>

(* One request for the whole trace *)
PushedTrace ==
  /\ phase = "tracing" /\ Api!Taken /\ Over
  /\ trace' = IF call.effects = 0 THEN Nothing ELSE [trace EXCEPT !.times = call.effects]
  /\ UNCHANGED <<profVars, exit, measured, fate, row>>

-----------------------------------------------------------------------------
Sampling == \E t \in Sampler : Prof!Sampling(t)
(* Only what the card does between the two readings of a run matters *)
Card == phase \in {"body", "stopping", "joining"} /\ (Prof!Uses \/ Prof!CounterResets)
Background == (Sampling \/ Card) /\ UNCHANGED <<apiVars, sdkVars>>
Wire == (Api!Request \/ Api!Expires) /\ UNCHANGED <<profVars, sdkVars>>
Program ==
  \/ Ask \/ NextWindow \/ Wait \/ Measure \/ StartSignals \/ Start \/ StartRaises
  \/ BodyEnds \/ StopSignals \/ StopReturns \/ StopRaises \/ StopInterrupted
  \/ Report \/ ReportNothing \/ PushRun \/ PushSamples \/ PushedTrace

Next == Program \/ Wire \/ Background

Spec == Init /\ [][Next]_vars

-----------------------------------------------------------------------------
(* No call of the session takes effect upstream twice: the retry after a   *)
(* 401 is of a request that had none (_authed_request).                    *)
CallEffectAtMostOnce == Api!EffectAtMostOnce

(* A session with good credentials is answered 401 only for something that *)
(* went wrong during that very call (_ensure_auth, _refresh, login).       *)
DeniedForCause == Api!DeniedForCause

(* Energy reported as measured by the counter was used by the block        *)
(* (BaseProfiler._compute_energy).                                         *)
CounterHonest == Prof!CounterHonest

(* measure() raises what the body raises and nothing else: no failed call, *)
(* no failed stop turns work that succeeded into a failure.  (An interrupt *)
(* while it stops is the user's; a profiler that cannot start refuses      *)
(* before the body.)                                                       *)
OnlyTheBodyRaises ==
  outcome # "none" =>
    CASE outcome = "refused" -> fate = "none"
      [] outcome = "raised" -> fate = "raised"
      [] outcome = "returned" -> fate \in {"ok", "marked"}
      [] OTHER -> TRUE

(* What is told of a measured block is so.  Its caller is told what its     *)
(* body did; the API hears of no success that raised or was marked as       *)
(* failed, of no failure that succeeded; and its trace arrives once, under  *)
(* a run the API has, and unless a join timed out it was sampled for this   *)
(* block alone and is all that its summary was made of (BaseProfiler.start  *)
(* and stop, measure and _report).                                         *)
ReportIsTheRuns ==
  /\ OnlyTheBodyRaises
  /\ row # "none" => (row = "success" <=> fate = "ok")
  /\ trace.times > 0 =>
       /\ trace.times = 1 /\ row # "none"
       /\ ~strayed => trace.own /\ trace.count = telemetry.count
=============================================================================
