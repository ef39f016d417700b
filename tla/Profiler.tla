------------------------------ MODULE Profiler ------------------------------
(***************************************************************************)
(* Measuring a run (profiler.py): the thread of the run calls start() and  *)
(* stop(), a sampler thread of its own appends a sample per interval.      *)
(*                                                                         *)
(* Both joins have a timeout, and a sampler looks its event and its list   *)
(* up in the object each time, so that one which is stuck in a driver read *)
(* when its run ends comes back to the event and the list of the next run. *)
(* Energy is the difference of two counter readings when that is not       *)
(* negative, else the integral of the power samples, else nothing.         *)
(***************************************************************************)
EXTENDS Integers, Sequences, SequencesExt, FiniteSets

CONSTANTS
  Sampler,      \* sampler threads there may be at one time
  Channels,     \* what the box may have: "nvml", "nvidia-smi" or nothing
  MaxSamples,   \* bound on the samples of a run
  MaxEnergy,    \* bound on the energy a run uses
  MaxLate       \* bound on the joins that time out

None == -1

(* What is assumed of the constants; SdkSession, which instantiates this    *)
(* module, assumes it.                                                      *)
Assumptions ==
  /\ None \notin Sampler
  /\ Channels \subseteq SUBSET {"nvml", "nvidia-smi"}
  /\ {MaxSamples, MaxEnergy, MaxLate} \subseteq Nat

VARIABLES
  backend,     \* the profiler chosen for the box
  thread,      \* what each sampler is doing
  current,     \* _thread, or None
  set,         \* whether the event _stop is set
  samples,     \* _samples, by the thread that took each
  counter,     \* the energy counter of the card
  atStart,     \* _energy_start_mj
  telemetry,   \* what stop() returned; its trace is the list itself
  late,
  (* observation only *)
  used,        \* energy used since start()
  reset,       \* the counter was reset since
  strays,      \* samplers alive after the join of them timed out
  strayed      \* there was one since start()

vars == <<backend, thread, current, set, samples, counter, atStart, telemetry, late,
          used, reset, strays, strayed>>

Sources == {"counter", "integrated", "none"}
(* spent, reset: observation, the energy really used and whether the       *)
(* counter was reset meanwhile                                             *)
NoTelemetry == [source |-> "none", energy |-> 0, count |-> 0, spent |-> 0, reset |-> FALSE]

TypeOK ==
  /\ backend \in {"nvml", "smi", "null"}
  /\ thread \in [Sampler -> {"off", "check", "read"}]
  /\ current \in Sampler \cup {None}
  /\ samples \in Seq(Sampler) /\ Len(samples) <= MaxSamples
  /\ counter \in Nat /\ atStart \in Nat \cup {None}
  /\ telemetry \in [source : Sources, energy : Nat, count : 0 .. MaxSamples, spent : Nat,
                    reset : BOOLEAN]
  /\ late \in Nat /\ used \in Nat /\ strays \subseteq Sampler
  /\ {set, reset, strayed} \subseteq BOOLEAN

(* get_profiler: NVML, else nvidia-smi, else no GPU channels *)
Backend(channels) ==
  IF "nvml" \in channels THEN "nvml"
  ELSE IF "nvidia-smi" \in channels THEN "smi" ELSE "null"

Init ==
  /\ backend \in {Backend(c) : c \in Channels}
  /\ thread = [t \in Sampler |-> "off"] /\ current = None /\ set = TRUE
  /\ samples = <<>> /\ counter = MaxEnergy /\ atStart = None /\ telemetry = NoTelemetry
  /\ late = 0 /\ used = 0 /\ reset = FALSE /\ strays = {} /\ strayed = FALSE

Alive(t) == t # None /\ thread[t] # "off"

(* The energy counter is NVML's alone, and any getter may fail for the     *)
(* moment                                                                  *)
CounterReadings == IF backend = "nvml" THEN {counter, None} ELSE {None}

(* join(timeout): the thread has ended, or the join gives up *)
Joined == ~Alive(current) /\ UNCHANGED <<late, strays>>
JoinTimesOut ==
  /\ Alive(current) /\ late < MaxLate
  /\ late' = late + 1 /\ strays' = strays \cup {current}

-----------------------------------------------------------------------------
(* start(), a sampler still running: it is told to stop *)
StartSignals ==
  /\ Alive(current) /\ ~set
  /\ set' = TRUE
  /\ UNCHANGED <<backend, thread, current, samples, counter, atStart, telemetry, late,
                 used, reset, strays, strayed>>

(* start(): a new list, a new event, the counter, a new thread *)
Start ==
  /\ Joined \/ (set /\ JoinTimesOut)
  /\ \E t \in Sampler :
       /\ ~Alive(t)
       /\ thread' = [thread EXCEPT ![t] = "check"] /\ current' = t
  /\ set' = FALSE /\ samples' = <<>> /\ atStart' \in CounterReadings
  /\ used' = 0 /\ reset' = FALSE /\ strayed' = (strays' # {})
  /\ UNCHANGED <<backend, counter, telemetry>>

(* start() of a profiler that has never measured: NVML cannot be brought up *)
StartRaises ==
  /\ backend = "nvml" /\ current = None
  /\ UNCHANGED vars

(* Mutant: a counter that went backwards is taken by its distance *)
ComputeEnergyDistance(first, last, trace) ==
  IF first # None /\ last # None
    THEN {<<"counter", IF last >= first THEN last - first ELSE first - last>>}
  ELSE {<<"none", 0>>}

(* _integrate_power_wh is not worked out: it takes two samples whose power   *)
(* could be read, and then is some positive number                          *)
Integrated(trace) ==
  IF backend # "null" /\ Len(trace) >= 2 THEN {<<"integrated", 0>>, <<"none", 0>>}
  ELSE {<<"none", 0>>}

(* _compute_energy, a source and an amount *)
ComputeEnergy(first, last, trace) ==
  IF first # None /\ last # None /\ last >= first THEN {<<"counter", last - first>>}
  ELSE Integrated(trace)

Summary(e) == [source |-> e[1], energy |-> e[2], count |-> Len(samples),
               spent |-> used, reset |-> reset]

StopSignals ==
  /\ set' = TRUE
  /\ UNCHANGED <<backend, thread, current, samples, counter, atStart, telemetry, late,
                 used, reset, strays, strayed>>

(* stop(), its join done with: the second reading and the result; the      *)
(* trace it returns is the very list the sampler appends to                *)
StopReturns ==
  /\ current # None /\ set
  /\ Joined \/ JoinTimesOut
  /\ \E last \in CounterReadings : \E e \in ComputeEnergy(atStart, last, samples) :
       telemetry' = Summary(e)
  /\ used' = 0 /\ reset' = FALSE
  /\ strayed' = (strayed \/ strays' # {})
  /\ UNCHANGED <<backend, thread, current, set, samples, counter, atStart>>

(* stop(): the second reading, or what the backend can do, raises *)
StopRaises ==
  /\ current # None /\ set
  /\ Joined \/ JoinTimesOut
  /\ strayed' = (strayed \/ strays' # {})
  /\ UNCHANGED <<backend, thread, current, set, samples, counter, atStart, telemetry, used, reset>>

-----------------------------------------------------------------------------
(* _loop: the event of the moment *)
Check(t) ==
  /\ thread[t] = "check"
  /\ thread' = [thread EXCEPT ![t] = IF set THEN "off" ELSE "read"]
  /\ strays' = IF set THEN strays \ {t} ELSE strays
  /\ UNCHANGED <<backend, current, set, samples, counter, atStart, telemetry, late,
                 used, reset, strayed>>

(* _collect_one: appended to the list of the moment, readable or not; the   *)
(* wait that follows ends with the interval or the event of the moment     *)
Collect(t) ==
  /\ thread[t] = "read"
  /\ samples' = IF Len(samples) < MaxSamples THEN Append(samples, t) ELSE samples
  /\ thread' = [thread EXCEPT ![t] = "check"]
  /\ UNCHANGED <<backend, current, set, counter, atStart, telemetry, late, used, reset, strays, strayed>>

Sampling(t) == Check(t) \/ Collect(t)

(* The caller is done with the result of the last run.  Where the counter  *)
(* stands when a run begins is immaterial: it is taken to be MaxEnergy.    *)
Forget ==
  /\ telemetry' = NoTelemetry /\ counter' = MaxEnergy
  /\ UNCHANGED <<backend, thread, current, set, samples, atStart, late, used, reset,
                 strays, strayed>>

(* The card uses energy; the driver is reloaded and counts from zero       *)
Uses ==
  /\ used < MaxEnergy /\ counter < 2 * MaxEnergy
  /\ used' = used + 1 /\ counter' = counter + 1
  /\ UNCHANGED <<backend, thread, current, set, samples, atStart, telemetry, late,
                 reset, strays, strayed>>
CounterResets ==
  /\ counter # 0 /\ counter' = 0 /\ reset' = TRUE
  /\ UNCHANGED <<backend, thread, current, set, samples, atStart, telemetry, late,
                 used, strays, strayed>>
-----------------------------------------------------------------------------
(* What is reported as measured by the counter was used: never more than   *)
(* that, and exactly that unless the counter was reset meanwhile, however  *)
(* late the samplers are.                                                  *)
CounterHonest ==
  telemetry.source = "counter" =>
    /\ telemetry.energy <= telemetry.spent
    /\ ~telemetry.reset => telemetry.energy = telemetry.spent
=============================================================================
