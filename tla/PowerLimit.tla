----------------------------- MODULE PowerLimit -----------------------------
(***************************************************************************)
(* Everyone who writes the power limit of the one GPU: the scheduler's     *)
(* PowerCapManager around each job (powercap.py), the benchmark suite      *)
(* around its sweep (bench/quick.py), and the operator (nvidia-smi -pl).   *)
(* The manager and the suite are different processes and neither knows of  *)
(* the other; each remembers only in memory what it found.                 *)
(*                                                                         *)
(* Limits are counted in 1/PerWatt watt (NVML counts milliwatts).          *)
(***************************************************************************)
EXTENDS PowerSweep, FiniteSets

CONSTANTS
  Policies,        \* what POWER_CAP_POLICY may be set to
  Default,         \* the card's factory default limit, in watts
  Floor, Ceiling,  \* the range the driver accepts, in watts
  DefaultReadable, \* whether the driver reports the factory default
  PerWatt,         \* resolution of the limit
  OperatorLimits,  \* limits the operator may choose
  Recommended,     \* what the recommended-cap endpoint may answer, in limits
  NoCap,           \* a null recommendation, or a fetch that failed
  Exclusive,       \* the operator never benchmarks while a job runs
  MaxRefusals,     \* bound on the reads and writes the driver refuses
  MaxKills         \* bound on processes killed outright

ASSUME PolicyAssumption == Policies \subseteq {"preserve", "managed"}
ASSUME RangeAssumption ==
  /\ {Default, Floor, Ceiling, PerWatt} \subseteq Nat \ {0}
  /\ Floor <= Default /\ Default <= Ceiling
ASSUME SwitchAssumption == {DefaultReadable, Exclusive} \subseteq BOOLEAN
ASSUME BoundAssumption == {MaxRefusals, MaxKills} \subseteq Nat

Limit == Nat
ASSUME LimitsAssumption ==
  /\ OperatorLimits \subseteq Limit /\ Recommended \subseteq Limit \cup {NoCap}
  /\ NoCap \notin Limit \cup {-1, -2}

Absent == -1
Stale == -2

VARIABLES
  policy,    \* POWER_CAP_POLICY, read when a process starts
  limit,     \* what the card is set to
  cached,    \* _cached_cap_w, or Stale when the next job fetches
  job,       \* the scheduler's side
  bench,     \* the benchmark's side
  refusals, kills,
  (* observation only *)
  wanted,    \* the limit the operator chose last
  disturbed  \* since then: a kill, a refusal, or a job beside a benchmark

vars == <<policy, limit, cached, job, bench, refusals, kills, wanted, disturbed>>

NoJob == [pc |-> "idle", cap |-> Absent, found |-> Absent, prior |-> Absent]
NoBench == [pc |-> "idle", observed |-> 0, stock |-> 0, rung |-> 0]

TypeOK ==
  /\ policy \in Policies
  /\ limit \in Limit /\ wanted \in Limit
  /\ cached \in Recommended \cup {Stale}
  /\ job \in [pc : {"idle", "set", "running"}, cap : Limit \cup {Absent},
              found : Limit \cup {Absent}, prior : Limit \cup {Absent}]
  /\ bench \in [pc : {"idle", "tasks", "sweep", "restore"}, observed : Nat,
                stock : Nat, rung : Nat]
  /\ refusals \in Nat /\ kills \in Nat /\ disturbed \in BOOLEAN

WholeWatts(l) == l \div PerWatt

Init ==
  /\ policy \in Policies
  /\ limit \in OperatorLimits \cup {Default * PerWatt}
  /\ wanted = limit /\ disturbed = FALSE
  /\ cached = Stale /\ job = NoJob /\ bench = NoBench
  /\ refusals = 0 /\ kills = 0

(* A write: the driver accepts it, or refuses it and nothing changes *)
Accepted(l) == limit' = l /\ UNCHANGED refusals
Unreadable == refusals < MaxRefusals /\ refusals' = refusals + 1
Refused == Unreadable /\ UNCHANGED limit

Overlapping == job.pc # "idle" /\ bench.pc # "idle"
Observe ==
  /\ UNCHANGED <<policy, wanted>>
  /\ disturbed' = (disturbed \/ kills' # kills \/ refusals' # refusals \/ Overlapping')

-----------------------------------------------------------------------------
(* apply(): the cached or fetched recommendation, then the limit found; a  *)
(* limit that cannot be read leaves the job uncapped                       *)
ApplyRead ==
  /\ job.pc = "idle" /\ (Exclusive => bench.pc = "idle")
  /\ \E c \in (IF cached = Stale THEN Recommended ELSE {cached}) :
       /\ cached' = c
       /\ \/ /\ c # NoCap
             /\ job' = [job EXCEPT !.pc = "set", !.cap = c, !.found = limit]
             /\ UNCHANGED refusals
          \/ /\ IF c = NoCap THEN UNCHANGED refusals ELSE Unreadable
             /\ job' = [NoJob EXCEPT !.pc = "running"]
  /\ UNCHANGED <<limit, bench, kills>>
  /\ Observe

(* apply(): the cap; the limit found is remembered once it is written      *)
ApplySet ==
  /\ job.pc = "set"
  /\ \/ /\ Accepted(job.cap)
        /\ job' = [job EXCEPT !.pc = "running", !.prior = job.found]
     \/ /\ Refused
        /\ job' = [job EXCEPT !.pc = "running"]
  /\ UNCHANGED <<cached, bench, kills>>
  /\ Observe

(* Mutant: what was found is put back under either policy *)
RestoreFound(prior) == prior

RestoreTarget(prior) ==
  IF policy = "managed" /\ DefaultReadable THEN Default * PerWatt ELSE prior

(* restore(): what was remembered is forgotten, whatever the write does    *)
Restore ==
  /\ job.pc = "running"
  /\ job' = NoJob
  /\ IF job.prior = Absent
       THEN UNCHANGED <<limit, refusals>>
       ELSE Accepted(RestoreTarget(job.prior)) \/ Refused
  /\ UNCHANGED <<cached, bench, kills>>
  /\ Observe

(* The recommendation is refetched once it is a day old                    *)
CacheExpires ==
  /\ cached # Stale /\ job.pc = "idle"
  /\ cached' = Stale
  /\ UNCHANGED <<limit, job, bench, refusals, kills>>
  /\ Observe

-----------------------------------------------------------------------------
(* The suite reads both restore candidates, in whole watts, and measures   *)
(* its tasks at the limit it finds                                         *)
BenchStart ==
  /\ bench.pc = "idle" /\ (Exclusive => job.pc = "idle")
  /\ bench' = [NoBench EXCEPT !.pc = "tasks", !.observed = WholeWatts(limit)]
  /\ UNCHANGED <<limit, cached, job, refusals, kills>>
  /\ Observe

(* Mutant: the ladder is a fraction of the limit found *)
BenchSweepFromCurrent ==
  /\ bench.pc = "tasks"
  /\ bench' = [bench EXCEPT !.pc = "sweep", !.stock = WholeWatts(limit)]
  /\ UNCHANGED <<limit, cached, job, refusals, kills>>
  /\ Observe

(* run_power_sweep reads the stock limit its ladder is a fraction of *)
BenchSweep ==
  /\ bench.pc = "tasks"
  /\ bench' = [bench EXCEPT !.pc = "sweep",
                 !.stock = IF DefaultReadable THEN Default ELSE WholeWatts(limit)]
  /\ UNCHANGED <<limit, cached, job, refusals, kills>>
  /\ Observe

Ladder == DeriveCaps(bench.stock, Floor, Ceiling)

(* run_power_sweep: one rung; the first refusal ends the sweep             *)
BenchRung ==
  /\ bench.pc = "sweep" /\ bench.rung < Len(Ladder)
  /\ \/ /\ Accepted(Ladder[bench.rung + 1] * PerWatt)
        /\ bench' = [bench EXCEPT !.rung = @ + 1]
     \/ /\ Refused
        /\ bench' = [bench EXCEPT !.pc = "restore"]
  /\ UNCHANGED <<cached, job, kills>>
  /\ Observe

(* The last rung, no sweep to do, or an exception anywhere in the suite    *)
BenchDone ==
  /\ bench.pc \in {"tasks", "sweep"}
  /\ bench' = [bench EXCEPT !.pc = "restore"]
  /\ UNCHANGED <<limit, cached, job, refusals, kills>>
  /\ Observe

(* Mutant: the factory default under either policy *)
BenchToFactory == IF DefaultReadable THEN Default ELSE bench.observed

(* The limit restored: the policy's, in whole watts as the suite reads it  *)
BenchTarget ==
  IF policy = "managed" /\ DefaultReadable THEN Default ELSE bench.observed

BenchRestore ==
  /\ bench.pc = "restore"
  /\ bench' = NoBench
  /\ Accepted(BenchTarget * PerWatt) \/ Refused
  /\ UNCHANGED <<cached, job, kills>>
  /\ Observe

-----------------------------------------------------------------------------
(* A reboot, the OOM killer, kill -9: no finally runs *)
KillScheduler ==
  /\ job.pc # "idle" /\ kills < MaxKills
  /\ kills' = kills + 1 /\ job' = NoJob /\ cached' = Stale
  /\ UNCHANGED <<limit, bench, refusals>>
  /\ Observe

KillBench ==
  /\ bench.pc # "idle" /\ kills < MaxKills
  /\ kills' = kills + 1 /\ bench' = NoBench
  /\ UNCHANGED <<limit, cached, job, refusals>>
  /\ Observe

AllIdle == job.pc = "idle" /\ bench.pc = "idle"

(* The operator tunes the card between jobs and benchmarks *)
OperatorSets ==
  /\ AllIdle
  /\ \E l \in OperatorLimits : limit' = l /\ wanted' = l
  /\ disturbed' = FALSE
  /\ UNCHANGED <<policy, cached, job, bench, refusals, kills>>

JobStep == ApplyRead \/ ApplySet \/ Restore
BenchStep == BenchSweep \/ BenchRung \/ BenchDone \/ BenchRestore

Next ==
  \/ JobStep \/ CacheExpires \/ BenchStart \/ BenchStep
  \/ KillScheduler \/ KillBench \/ OperatorSets

Spec == Init /\ [][Next]_vars

(* Jobs keep coming, and a suite that has begun comes to its end.          *)
FairSpec == Spec /\ WF_vars(JobStep) /\ WF_vars(BenchStep)
-----------------------------------------------------------------------------
(* Under "preserve", unless something went wrong since the operator set it *)
(* (a kill, a refusal, a benchmark beside a job), an idle card is at the   *)
(* limit the operator chose, or at that limit in whole watts once the suite *)
(* has put it back: a cap they set survives, a cap of ours does not, and   *)
(* setting it again undoes whatever had gone wrong.                        *)
LeftAsFound ==
  (policy = "preserve" /\ AllIdle /\ ~disturbed) =>
    limit \in {wanted, WholeWatts(wanted) * PerWatt}

(* No kill, refusal or overlap walks the card down, as long as the factory *)
(* default can be read: whatever is left on it is the factory default, one *)
(* of the fractions of it, a limit the server recommended or the operator  *)
(* chose, or one of those in whole watts.                                  *)
Sanctioned ==
  OperatorLimits \cup (Recommended \ {NoCap}) \cup {Default * PerWatt}
    \cup {w * PerWatt : w \in ToSet(DeriveCaps(Default, Floor, Ceiling))}
NoWalkDown ==
  DefaultReadable =>
    limit \in Sanctioned \cup {WholeWatts(l) * PerWatt : l \in Sanctioned}

(* Under "managed", as long as caps are recommended, a cap left behind by  *)
(* a killed process does not stay on an idle card: it is back at the       *)
(* factory default, or the server has nothing to recommend to its jobs.    *)
LeftoverHeals ==
  (policy = "managed" /\ limit # Default * PerWatt)
    ~> (limit = Default * PerWatt \/ cached = NoCap)

=============================================================================
