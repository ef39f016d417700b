-------------------------- MODULE PowerLimitProofs --------------------------
(***************************************************************************)
(* Proofs about PowerLimit for every card, policy, operator and server and *)
(* any number of kills and refusals.  The two invariants ask about the     *)
(* card; the inductive ones say what each process remembers that it may    *)
(* yet write to the card.                                                  *)
(***************************************************************************)
EXTENDS PowerLimit, TLAPS

(* As the operator left it, but for a fraction of a watt                   *)
Kept(l) == l \in {wanted, WholeWatts(wanted) * PerWatt}

(* While nothing has gone wrong, one process at a time has the card; what  *)
(* it remembers, or the card if it remembers nothing, is as the operator   *)
(* left it.                                                                *)
AsFound ==
  (policy = "preserve" /\ ~ disturbed) =>
    /\ ~ Overlapping
    /\ AllIdle \/ job.pc = "set" => Kept(limit)
    /\ job.pc = "set" => job.found = limit
    /\ job.pc = "running" => Kept(IF job.prior = Absent THEN limit ELSE job.prior)
    /\ bench.pc # "idle" => bench.observed = WholeWatts(wanted)

(* What is on the card, and what somebody may yet put there, is accounted  *)
(* for; and a sweep climbs down from the factory default.                  *)
Allowed == Sanctioned \cup {WholeWatts(l) * PerWatt : l \in Sanctioned}
Accounted ==
  DefaultReadable =>
    /\ limit \in Allowed
    /\ job.pc = "set" => job.cap \in Allowed /\ job.found \in Allowed
    /\ job.prior # Absent => job.prior \in Allowed
    /\ bench.pc # "idle" => bench.observed * PerWatt \in Allowed
    /\ bench.pc = "sweep" => bench.stock = Default

(* A job that is about to write has something to write.                    *)
Typed == TypeOK /\ (job.pc = "set" => job.cap # Absent)

IInv == Typed /\ AsFound /\ Accounted

-----------------------------------------------------------------------------
LEMMA Numbers ==
  /\ Default \in Nat /\ Floor \in Nat /\ Ceiling \in Nat
  /\ PerWatt \in Nat /\ 0 < PerWatt /\ 0 < Default
  /\ Floor <= Default /\ Default <= Ceiling
<1>1. /\ Default \in Nat \ {0} /\ Floor \in Nat \ {0} /\ Ceiling \in Nat \ {0}
      /\ PerWatt \in Nat \ {0} /\ Floor <= Default /\ Default <= Ceiling
  BY RangeAssumption
<1> QED BY <1>1

LEMMA Bounds == MaxRefusals \in Nat /\ MaxKills \in Nat
  BY BoundAssumption

(* A limit in whole watts is one, and what is in whole watts stays it.      *)
LEMMA InWholeWatts ==
  ASSUME NEW l \in Nat
  PROVE  /\ WholeWatts(l) \in Nat /\ WholeWatts(l) * PerWatt \in Nat
         /\ WholeWatts(WholeWatts(l) * PerWatt) = WholeWatts(l)
<1>1. WholeWatts(l) \in Nat
  BY Numbers DEF WholeWatts
<1>2. ASSUME NEW k \in Nat PROVE k * PerWatt \in Nat /\ (k * PerWatt) \div PerWatt = k
  BY Numbers
<1> QED BY <1>1, <1>2 DEF WholeWatts

-----------------------------------------------------------------------------
(* What is rounded is a number of watts; a rung is one in the range of the *)
(* card, given both ends of it.                                            *)
LEMMA RungInRange ==
  ASSUME NEW stock \in Nat, NEW f \in Nat, NEW lo \in Nat, NEW hi \in Nat, lo <= hi
  PROVE  Rung(stock, f, lo, hi) \in lo .. hi
<1>1. stock * f \in Nat
  OBVIOUS
<1>2. ASSUME NEW n \in Nat PROVE Rounded(n) \in Nat
  BY DEF Rounded
<1> QED BY <1>1, <1>2 DEF Rung, Unknown, AtLeast, AtMost

(* Distinct rungs below stock and within the range of the card             *)
GoodLadder(caps, stock, lo, hi) ==
  /\ caps \in Seq(Nat)
  /\ \A i \in 1 .. Len(caps) : caps[i] \in lo .. hi /\ caps[i] < stock
  /\ \A i, j \in 1 .. Len(caps) : caps[i] = caps[j] => i = j

LEMMA LongerIsGood ==
  ASSUME NEW stock \in Nat, NEW f \in Nat, NEW lo \in Nat, NEW hi \in Nat, lo <= hi,
         NEW caps, GoodLadder(caps, stock, lo, hi)
  PROVE  GoodLadder(Longer(caps, stock, f, lo, hi), stock, lo, hi)
<1> DEFINE w == Rung(stock, f, lo, hi)
<1>1. w \in lo .. hi
  BY RungInRange
<1> HIDE DEF w
<1>2. w \in Nat
  BY <1>1
<1>3. CASE w >= stock \/ Contains(caps, w)
  BY <1>3 DEF Longer, w
<1>4. CASE ~ (w >= stock \/ Contains(caps, w))
  <2>1. Longer(caps, stock, f, lo, hi) = Append(caps, w)
    BY <1>4 DEF Longer, w
  <2>2. caps \in Seq(Nat) /\ w < stock
    BY <1>2, <1>4 DEF GoodLadder
  <2>3. \A i \in 1 .. Len(caps) : caps[i] # w
    BY <1>4 DEF Contains
  <2>4. /\ Append(caps, w) \in Seq(Nat) /\ Len(Append(caps, w)) = Len(caps) + 1
        /\ Append(caps, w)[Len(caps) + 1] = w
        /\ \A i \in 1 .. Len(caps) : Append(caps, w)[i] = caps[i]
    BY <1>2, <2>2
  <2> DEFINE n == Len(caps)
             a == Append(caps, w)
  <2>5. n \in Nat /\ Len(a) = n + 1
    BY <2>2, <2>4
  <2>6. \A i \in 1 .. n : caps[i] \in lo .. hi /\ caps[i] < stock
    BY DEF GoodLadder
  <2>7. \A i, j \in 1 .. n : caps[i] = caps[j] => i = j
    BY DEF GoodLadder
  <2>8. a \in Seq(Nat) /\ a[n + 1] = w /\ \A i \in 1 .. n : a[i] = caps[i] /\ caps[i] # w
    BY <2>3, <2>4
  <2> HIDE DEF n, a
  <2>9. \A i \in 1 .. n + 1 : i = n + 1 \/ i \in 1 .. n
    BY <2>5
  <2>10. \A i \in 1 .. n + 1 : a[i] \in lo .. hi /\ a[i] < stock
    BY <1>1, <2>2, <2>6, <2>8, <2>9
  <2>11. \A i, j \in 1 .. n + 1 : a[i] = a[j] => i = j
    BY <2>7, <2>8, <2>9
  <2>12. GoodLadder(a, stock, lo, hi)
    BY <2>5, <2>8, <2>10, <2>11 DEF GoodLadder
  <2> QED BY <2>1, <2>12 DEF a
<1> QED BY <1>3, <1>4

(* Whatever the card, its ladder has distinct rungs, each of them below    *)
(* the stock limit and within the range the card supports: a point of the  *)
(* sweep is a measurement of its own, and never stock under another name.  *)
THEOREM LadderIsGood ==
  ASSUME NEW stock \in Nat, NEW lo \in Nat, NEW hi \in Nat, lo <= hi
  PROVE  GoodLadder(DeriveCaps(stock, lo, hi), stock, lo, hi)
<1>1. Fractions[1] \in Nat /\ Fractions[2] \in Nat /\ Fractions[3] \in Nat
  BY DEF Fractions
<1>2. GoodLadder(<<>>, stock, lo, hi)
  BY DEF GoodLadder
<1> DEFINE first  == Longer(<<>>, stock, Fractions[1], lo, hi)
           second == Longer(first, stock, Fractions[2], lo, hi)
<1>3. GoodLadder(first, stock, lo, hi)
  BY <1>1, <1>2, LongerIsGood
<1>4. GoodLadder(second, stock, lo, hi)
  <2> HIDE DEF first
  <2> QED BY <1>1, <1>3, LongerIsGood
<1>5. GoodLadder(Longer(second, stock, Fractions[3], lo, hi), stock, lo, hi)
  <2> HIDE DEF second
  <2> QED BY <1>1, <1>4, LongerIsGood
<1> QED BY <1>5 DEF DeriveCaps

-----------------------------------------------------------------------------
JobState == [pc : {"idle", "set", "running"}, cap : Limit \cup {Absent},
             found : Limit \cup {Absent}, prior : Limit \cup {Absent}]
BenchState == [pc : {"idle", "tasks", "sweep", "restore"}, observed : Nat,
               stock : Nat, rung : Nat]

(* A job or a suite, field by field                                        *)
JobIs(k, c, f, r) == job' = [pc |-> k, cap |-> c, found |-> f, prior |-> r]
BenchIs(k, o, s, r) == bench' = [pc |-> k, observed |-> o, stock |-> s, rung |-> r]

LEMMA JobFields ==
  ASSUME NEW j \in JobState, NEW k, NEW c, NEW f
  PROVE  /\ [j EXCEPT !.pc = k, !.cap = c, !.found = f]
              = [pc |-> k, cap |-> c, found |-> f, prior |-> j.prior]
         /\ [j EXCEPT !.pc = k]
              = [pc |-> k, cap |-> j.cap, found |-> j.found, prior |-> j.prior]
<1>1. ASSUME NEW o, o = [j EXCEPT !.pc = k, !.cap = c, !.found = f]
      PROVE  o = [pc |-> k, cap |-> c, found |-> f, prior |-> j.prior]
  BY <1>1 DEF JobState
<1>2. ASSUME NEW o, o = [j EXCEPT !.pc = k]
      PROVE  o = [pc |-> k, cap |-> j.cap, found |-> j.found, prior |-> j.prior]
  BY <1>2 DEF JobState
<1> QED BY <1>1, <1>2

LEMMA JobRemembers ==
  ASSUME NEW j \in JobState, NEW k, NEW r
  PROVE  [j EXCEPT !.pc = k, !.prior = r]
           = [pc |-> k, cap |-> j.cap, found |-> j.found, prior |-> r]
<1>1. ASSUME NEW o, o = [j EXCEPT !.pc = k, !.prior = r]
      PROVE  o = [pc |-> k, cap |-> j.cap, found |-> j.found, prior |-> r]
  BY <1>1 DEF JobState
<1> QED BY <1>1

LEMMA BenchFields ==
  ASSUME NEW b \in BenchState, NEW k, NEW o, NEW s, NEW r
  PROVE  /\ [b EXCEPT !.pc = k, !.observed = o]
              = [pc |-> k, observed |-> o, stock |-> b.stock, rung |-> b.rung]
         /\ [b EXCEPT !.pc = k, !.stock = s]
              = [pc |-> k, observed |-> b.observed, stock |-> s, rung |-> b.rung]
         /\ [b EXCEPT !.rung = r]
              = [pc |-> b.pc, observed |-> b.observed, stock |-> b.stock, rung |-> r]
         /\ [b EXCEPT !.pc = k]
              = [pc |-> k, observed |-> b.observed, stock |-> b.stock, rung |-> b.rung]
<1>1. ASSUME NEW x, x = [b EXCEPT !.pc = k, !.observed = o]
      PROVE  x = [pc |-> k, observed |-> o, stock |-> b.stock, rung |-> b.rung]
  BY <1>1 DEF BenchState
<1>2. ASSUME NEW x, x = [b EXCEPT !.pc = k, !.stock = s]
      PROVE  x = [pc |-> k, observed |-> b.observed, stock |-> s, rung |-> b.rung]
  BY <1>2 DEF BenchState
<1>3. ASSUME NEW x, x = [b EXCEPT !.rung = r]
      PROVE  x = [pc |-> b.pc, observed |-> b.observed, stock |-> b.stock, rung |-> r]
  BY <1>3 DEF BenchState
<1>4. ASSUME NEW x, x = [b EXCEPT !.pc = k]
      PROVE  x = [pc |-> k, observed |-> b.observed, stock |-> b.stock, rung |-> b.rung]
  BY <1>4 DEF BenchState
<1> QED BY <1>1, <1>2, <1>3, <1>4

LEMMA StateTyped ==
  TypeOK =>
    /\ job \in JobState /\ bench \in BenchState /\ limit \in Nat /\ wanted \in Nat
    /\ cached \in Recommended \cup {Stale} /\ refusals \in Nat /\ kills \in Nat
    /\ NoJob \in JobState /\ NoBench \in BenchState
  BY DEF TypeOK, JobState, BenchState, Limit, NoJob, NoBench, Absent

(* A recommendation is a limit, or none.                                   *)
LEMMA RecommendedTyped ==
  /\ \A c \in Recommended \ {NoCap} : c \in Nat
  /\ OperatorLimits \subseteq Nat /\ Stale \notin Recommended
  BY LimitsAssumption DEF Limit, Stale

(* The job's part of a step                                                *)
LEMMA ApplyReadEffect ==
  ASSUME TypeOK, ApplyRead
  PROVE  \E c \in Recommended :
           /\ cached' = c
           /\ \/ c # NoCap /\ JobIs("set", c, limit, job.prior) /\ UNCHANGED refusals
              \/ /\ JobIs("running", Absent, Absent, Absent)
                 /\ c = NoCap \/ refusals' = refusals + 1
                 /\ c # NoCap \/ UNCHANGED refusals
<1>1. PICK c \in (IF cached = Stale THEN Recommended ELSE {cached}) :
        /\ cached' = c
        /\ \/ /\ c # NoCap
              /\ job' = [job EXCEPT !.pc = "set", !.cap = c, !.found = limit]
              /\ UNCHANGED refusals
           \/ /\ IF c = NoCap THEN UNCHANGED refusals ELSE Unreadable
              /\ job' = [NoJob EXCEPT !.pc = "running"]
  BY DEF ApplyRead
<1>2. c \in Recommended
  BY StateTyped
<1>3. CASE c # NoCap /\ job' = [job EXCEPT !.pc = "set", !.cap = c, !.found = limit]
           /\ UNCHANGED refusals
  <2>1. JobIs("set", c, limit, job.prior)
    BY <1>3, StateTyped, JobFields DEF JobIs
  <2> QED BY <1>1, <1>2, <1>3, <2>1
<1>4. CASE /\ IF c = NoCap THEN UNCHANGED refusals ELSE Unreadable
           /\ job' = [NoJob EXCEPT !.pc = "running"]
  <2>1. JobIs("running", Absent, Absent, Absent)
    BY <1>4 DEF JobIs, NoJob
  <2>2. /\ c = NoCap \/ refusals' = refusals + 1
        /\ c # NoCap \/ UNCHANGED refusals
    BY <1>4 DEF Unreadable
  <2> QED BY <1>1, <1>2, <2>1, <2>2
<1> QED BY <1>1, <1>3, <1>4

LEMMA ApplySetEffect ==
  ASSUME TypeOK, ApplySet
  PROVE  \/ /\ JobIs("running", job.cap, job.found, job.found)
            /\ limit' = job.cap /\ UNCHANGED refusals
         \/ /\ JobIs("running", job.cap, job.found, job.prior)
            /\ refusals' = refusals + 1 /\ UNCHANGED limit
<1>1. CASE Accepted(job.cap) /\ job' = [job EXCEPT !.pc = "running", !.prior = job.found]
  <2>1. JobIs("running", job.cap, job.found, job.found)
    BY <1>1, StateTyped, JobRemembers DEF JobIs
  <2> QED BY <1>1, <2>1 DEF Accepted
<1>2. CASE Refused /\ job' = [job EXCEPT !.pc = "running"]
  BY <1>2, StateTyped, JobFields DEF Refused, Unreadable, JobIs
<1> QED BY <1>1, <1>2 DEF ApplySet

LEMMA BenchEffects ==
  ASSUME TypeOK
  PROVE  /\ BenchStart => BenchIs("tasks", WholeWatts(limit), 0, 0)
         /\ BenchSweep =>
              BenchIs("sweep", bench.observed,
                      IF DefaultReadable THEN Default ELSE WholeWatts(limit), bench.rung)
         /\ BenchRung =>
              \/ /\ BenchIs("sweep", bench.observed, bench.stock, bench.rung + 1)
                 /\ limit' = Ladder[bench.rung + 1] * PerWatt /\ UNCHANGED refusals
              \/ /\ BenchIs("restore", bench.observed, bench.stock, bench.rung)
                 /\ refusals' = refusals + 1 /\ UNCHANGED limit
         /\ BenchDone => BenchIs("restore", bench.observed, bench.stock, bench.rung)
         /\ BenchRestore => BenchIs("idle", 0, 0, 0)
<1>1. BenchStart => BenchIs("tasks", WholeWatts(limit), 0, 0)
  BY DEF BenchStart, BenchIs, NoBench
<1>2. BenchSweep =>
        BenchIs("sweep", bench.observed,
                IF DefaultReadable THEN Default ELSE WholeWatts(limit), bench.rung)
  BY StateTyped, BenchFields DEF BenchSweep, BenchIs
<1>3. BenchRung =>
        \/ /\ BenchIs("sweep", bench.observed, bench.stock, bench.rung + 1)
           /\ limit' = Ladder[bench.rung + 1] * PerWatt /\ UNCHANGED refusals
        \/ /\ BenchIs("restore", bench.observed, bench.stock, bench.rung)
           /\ refusals' = refusals + 1 /\ UNCHANGED limit
  BY StateTyped, BenchFields DEF BenchRung, BenchIs, Accepted, Refused, Unreadable
<1>4. BenchDone => BenchIs("restore", bench.observed, bench.stock, bench.rung)
  BY StateTyped, BenchFields DEF BenchDone, BenchIs
<1>5. BenchRestore => BenchIs("idle", 0, 0, 0)
  BY DEF BenchRestore, BenchIs, NoBench
<1> QED BY <1>1, <1>2, <1>3, <1>4, <1>5

(* A rung is one of the ladder, which is of whole watts.                   *)
LEMMA RungTyped ==
  ASSUME TypeOK, BenchRung
  PROVE  /\ Ladder[bench.rung + 1] \in Nat
         /\ Ladder[bench.rung + 1] \in ToSet(Ladder)
<1>1. bench.stock \in Nat /\ bench.rung \in Nat
  BY StateTyped DEF BenchState
<1>2. Floor <= Ceiling
  BY Numbers
<1>3. Ladder \in Seq(Nat)
  BY <1>1, <1>2, Numbers, LadderIsGood DEF GoodLadder, Ladder
<1>4. bench.rung < Len(Ladder)
  BY DEF BenchRung
<1>5. bench.rung + 1 \in 1 .. Len(Ladder)
  BY <1>1, <1>3, <1>4
<1>6. DOMAIN Ladder = 1 .. Len(Ladder)
  BY <1>3
<1> QED BY <1>3, <1>5, <1>6 DEF ToSet

-----------------------------------------------------------------------------
LEMMA NextCases ==
  ASSUME [Next]_vars
  PROVE  \/ ApplyRead \/ ApplySet \/ Restore \/ CacheExpires
         \/ BenchStart \/ BenchSweep \/ BenchRung \/ BenchDone \/ BenchRestore
         \/ KillScheduler \/ KillBench \/ OperatorSets \/ UNCHANGED vars
  BY DEF Next, JobStep, BenchStep

LEMMA TargetsTyped ==
  ASSUME TypeOK
  PROVE  /\ Default * PerWatt \in Nat /\ BenchTarget * PerWatt \in Nat
         /\ job.prior # Absent => RestoreTarget(job.prior) \in Nat
<1>1. Default * PerWatt \in Nat
  BY Numbers
<1>2. BenchTarget \in Nat
  BY StateTyped, Numbers DEF BenchTarget, BenchState
<1>3. BenchTarget * PerWatt \in Nat
  BY <1>2, Numbers
<1>4. job.prior # Absent => job.prior \in Nat
  BY StateTyped DEF JobState, Limit
<1> QED BY <1>1, <1>3, <1>4 DEF RestoreTarget

(* The steps that do not write to the card                                 *)
Watching ==
  ApplyRead \/ CacheExpires \/ BenchStart \/ BenchSweep \/ BenchDone \/ KillScheduler \/ KillBench

LEMMA WatchingKeeps == Watching => UNCHANGED limit
  BY DEF Watching, ApplyRead, CacheExpires, BenchStart, BenchSweep, BenchDone, KillScheduler,
         KillBench

(* A limit is written by whoever restores or climbs, and is a number.      *)
LEMMA LimitTyped ==
  ASSUME Typed, [Next]_vars
  PROVE  limit' \in Nat
<1>t. TypeOK /\ limit \in Nat
  BY StateTyped DEF Typed
<1>1. CASE Watching \/ UNCHANGED vars
  BY <1>t, <1>1, WatchingKeeps DEF vars
<1>2. CASE ApplySet
  <2>1. job.cap \in Nat
    BY <1>t, <1>2, StateTyped DEF ApplySet, Typed, JobState, Limit
  <2>2. limit' = limit \/ limit' = job.cap
    BY <1>t, <1>2, ApplySetEffect
  <2> QED BY <1>t, <2>1, <2>2
<1>3. CASE Restore
  BY <1>t, <1>3, TargetsTyped DEF Restore, Accepted, Refused
<1>4. CASE BenchRung
  <2>1. limit' = limit \/ limit' = Ladder[bench.rung + 1] * PerWatt
    BY <1>t, <1>4, BenchEffects
  <2>2. Ladder[bench.rung + 1] \in Nat
    BY <1>t, <1>4, RungTyped
  <2> QED BY <1>t, <2>1, <2>2, Numbers
<1>5. CASE BenchRestore
  BY <1>t, <1>5, TargetsTyped DEF BenchRestore, Accepted, Refused
<1>6. CASE OperatorSets
  BY <1>6, RecommendedTyped DEF OperatorSets
<1> QED BY <1>1, <1>2, <1>3, <1>4, <1>5, <1>6, NextCases DEF Watching

LEMMA JobTyped ==
  ASSUME Typed, [Next]_vars
  PROVE  job' \in JobState /\ (job'.pc = "set" => job'.cap # Absent)
<1>t. /\ TypeOK /\ job \in JobState /\ limit \in Nat /\ Absent \notin Nat
      /\ NoJob \in JobState /\ NoJob.pc = "idle"
  BY StateTyped DEF Typed, Absent, NoJob
<1>f. /\ job.cap \in Limit \cup {Absent} /\ job.found \in Limit \cup {Absent}
      /\ job.prior \in Limit \cup {Absent}
  BY <1>t DEF JobState
<1>1. CASE ApplyRead
  <2>1. PICK c \in Recommended :
          \/ c # NoCap /\ JobIs("set", c, limit, job.prior)
          \/ JobIs("running", Absent, Absent, Absent)
    BY <1>t, <1>1, ApplyReadEffect
  <2>2. c # NoCap => c \in Nat
    BY RecommendedTyped
  <2> QED BY <1>t, <1>f, <2>1, <2>2 DEF JobIs, JobState, Limit
<1>2. CASE ApplySet
  <2>1. \/ JobIs("running", job.cap, job.found, job.found)
        \/ JobIs("running", job.cap, job.found, job.prior)
    BY <1>t, <1>2, ApplySetEffect
  <2> QED BY <1>f, <2>1 DEF JobIs, JobState
<1>3. CASE Restore \/ KillScheduler
  BY <1>t, <1>3 DEF Restore, KillScheduler
<1>4. CASE job' = job
  BY <1>t, <1>4 DEF Typed
<1>5. CacheExpires \/ BenchStart \/ BenchSweep \/ BenchRung \/ BenchDone \/ BenchRestore
        \/ KillBench \/ OperatorSets \/ UNCHANGED vars => job' = job
  BY DEF CacheExpires, BenchStart, BenchSweep, BenchRung, BenchDone, BenchRestore, KillBench,
         OperatorSets, vars
<1> QED BY <1>1, <1>2, <1>3, <1>4, <1>5, NextCases

LEMMA BenchTyped ==
  ASSUME TypeOK, [Next]_vars
  PROVE  bench' \in BenchState
<1>t. bench \in BenchState /\ NoBench \in BenchState
  BY StateTyped
<1>f. /\ bench.observed \in Nat /\ bench.stock \in Nat /\ bench.rung \in Nat
      /\ bench.rung + 1 \in Nat /\ WholeWatts(limit) \in Nat /\ Default \in Nat
      /\ 0 \in Nat
  BY <1>t, StateTyped, InWholeWatts, Numbers DEF BenchState
<1>1. CASE BenchStart \/ BenchSweep \/ BenchRung \/ BenchDone \/ BenchRestore
  <2>1. \E k \in {"idle", "tasks", "sweep", "restore"}, o \in Nat, s \in Nat, r \in Nat :
          BenchIs(k, o, s, r)
    BY <1>1, <1>f, BenchEffects
  <2> QED BY <2>1 DEF BenchIs, BenchState
<1>2. CASE KillBench
  BY <1>t, <1>2 DEF KillBench
<1>3. ApplyRead \/ ApplySet \/ Restore \/ CacheExpires \/ KillScheduler \/ OperatorSets
        \/ UNCHANGED vars => bench' = bench
  BY DEF ApplyRead, ApplySet, Restore, CacheExpires, KillScheduler, OperatorSets, vars
<1> QED BY <1>t, <1>1, <1>2, <1>3, NextCases

(* The counters, the cache and the observers                               *)
LEMMA RestTyped ==
  ASSUME TypeOK, [Next]_vars
  PROVE  /\ policy' \in Policies /\ wanted' \in Nat /\ cached' \in Recommended \cup {Stale}
         /\ refusals' \in Nat /\ kills' \in Nat /\ disturbed' \in BOOLEAN
<1>t. /\ policy \in Policies /\ wanted \in Nat /\ cached \in Recommended \cup {Stale}
      /\ refusals \in Nat /\ kills \in Nat
  BY StateTyped DEF TypeOK
<1>1. policy' = policy /\ (wanted' = wanted \/ wanted' \in OperatorLimits)
  BY NextCases DEF ApplyRead, ApplySet, Restore, CacheExpires, BenchStart, BenchSweep, BenchRung,
       BenchDone, BenchRestore, KillScheduler, KillBench, OperatorSets, vars, Observe
<1>2. cached' \in Recommended \cup {Stale}
  <2>1. CASE ApplyRead
    BY <2>1, ApplyReadEffect
  <2>2. CASE ~ ApplyRead
    BY <1>t, <2>2, NextCases DEF ApplySet, Restore, CacheExpires, BenchStart, BenchSweep,
         BenchRung, BenchDone, BenchRestore, KillScheduler, KillBench, OperatorSets, vars
  <2> QED BY <2>1, <2>2
<1>3. refusals' = refusals \/ refusals' = refusals + 1
  BY NextCases DEF ApplyRead, ApplySet, Restore, CacheExpires, BenchStart, BenchSweep, BenchRung,
       BenchDone, BenchRestore, KillScheduler, KillBench, OperatorSets, vars, Accepted, Refused,
       Unreadable
<1>4. kills' = kills \/ kills' = kills + 1
  BY NextCases DEF ApplyRead, ApplySet, Restore, CacheExpires, BenchStart, BenchSweep, BenchRung,
       BenchDone, BenchRestore, KillScheduler, KillBench, OperatorSets, vars
<1>5. disturbed' \in BOOLEAN
  <2>1. CASE Observe
    BY <2>1 DEF Observe
  <2>2. CASE OperatorSets \/ UNCHANGED vars
    BY <2>2 DEF OperatorSets, vars, TypeOK
  <2>3. Observe \/ OperatorSets \/ UNCHANGED vars
    BY NextCases DEF ApplyRead, ApplySet, Restore, CacheExpires, BenchStart, BenchSweep, BenchRung,
         BenchDone, BenchRestore, KillScheduler, KillBench
  <2> QED BY <2>1, <2>2, <2>3
<1>6. refusals' \in Nat /\ kills' \in Nat
  BY <1>t, <1>3, <1>4
<1> QED BY <1>t, <1>1, <1>2, <1>5, <1>6, RecommendedTyped

LEMMA TypedStep == Typed /\ [Next]_vars => Typed'
<1> SUFFICES ASSUME Typed, [Next]_vars PROVE Typed'
  OBVIOUS
<1>1. TypeOK'
  BY LimitTyped, JobTyped, BenchTyped, RestTyped DEF Typed, TypeOK, JobState, BenchState, Limit
<1> QED BY <1>1, JobTyped DEF Typed

LEMMA TypedInitially == Init => Typed
<1> SUFFICES ASSUME Init PROVE Typed
  OBVIOUS
<1>1. limit \in Nat /\ wanted \in Nat
  BY RecommendedTyped, Numbers DEF Init
<1>2. job \in JobState /\ bench \in BenchState /\ job.pc # "set"
  BY DEF Init, NoJob, NoBench, JobState, BenchState, Absent
<1> QED BY <1>1, <1>2 DEF Init, Typed, TypeOK, JobState, BenchState, Limit

(* Every step keeps each variable in its type: in particular what is       *)
(* written to the card is a limit, whoever writes it.                      *)
THEOREM TypeCorrect == Spec => []TypeOK
<1>1. Typed => TypeOK
  BY DEF Typed
<1> QED BY <1>1, TypedInitially, TypedStep, PTL DEF Spec

-----------------------------------------------------------------------------
(* As long as nothing goes wrong, nothing was refused and nobody killed,   *)
(* nor do two processes have the card.                                     *)
LEMMA NothingWrong ==
  ASSUME TypeOK, Observe, ~ disturbed'
  PROVE  /\ ~ disturbed /\ ~ Overlapping' /\ UNCHANGED <<policy, wanted>>
         /\ refusals' # refusals + 1 /\ kills' # kills + 1
<1>1. refusals \in Nat /\ kills \in Nat
  BY StateTyped
<1>2. /\ ~ disturbed /\ ~ Overlapping' /\ UNCHANGED <<policy, wanted>>
      /\ kills' = kills /\ refusals' = refusals
  BY DEF Observe
<1> QED BY <1>1, <1>2

LEMMA AsFoundByJob ==
  ASSUME TypeOK, AsFound, policy = "preserve", ~ disturbed', Observe,
         ApplyRead \/ ApplySet \/ Restore
  PROVE  AsFound'
<1>t. /\ ~ disturbed /\ ~ Overlapping' /\ wanted' = wanted /\ refusals' # refusals + 1
      /\ kills' # kills + 1
  BY NothingWrong
<1>1. /\ AllIdle \/ job.pc = "set" => Kept(limit)
      /\ job.pc = "set" => job.found = limit
      /\ job.pc = "running" => Kept(IF job.prior = Absent THEN limit ELSE job.prior)
  BY <1>t DEF AsFound
<1>2. bench' = bench /\ job.pc # job'.pc
  <2>1. ApplyRead => job.pc = "idle" /\ job'.pc \in {"set", "running"}
    BY ApplyReadEffect DEF ApplyRead, JobIs
  <2>2. ApplySet => job.pc = "set" /\ job'.pc = "running"
    BY ApplySetEffect DEF ApplySet, JobIs
  <2>3. Restore => job.pc = "running" /\ job'.pc = "idle"
    BY DEF Restore, NoJob
  <2> QED BY <2>1, <2>2, <2>3 DEF ApplyRead, ApplySet, Restore
<1>3. \A l : Kept(l)' <=> Kept(l')
  BY <1>t DEF Kept
<1>4. CASE ApplyRead
  <2>1. job'.pc \in {"set", "running"} /\ job.pc = "idle" /\ limit' = limit
    BY <1>4, ApplyReadEffect DEF ApplyRead, JobIs
  <2>2. bench.pc = "idle" /\ Kept(limit)
    BY <1>t, <1>1, <1>2, <2>1 DEF Overlapping, AllIdle
  <2>3. job'.pc = "set" => job'.found = limit'
    BY <1>4, <2>1, ApplyReadEffect DEF JobIs
  <2>4. job'.pc = "running" => job'.prior = Absent
    BY <1>4, ApplyReadEffect DEF JobIs
  <2> QED BY <1>t, <1>2, <2>1, <2>2, <2>3, <2>4 DEF AsFound, Kept
<1>5. CASE ApplySet
  <2>1. JobIs("running", job.cap, job.found, job.found) /\ job.pc = "set"
    BY <1>t, <1>5, ApplySetEffect DEF ApplySet
  <2>2. job'.pc = "running" /\ job'.prior = limit /\ Kept(limit)
    BY <1>1, <2>1 DEF JobIs
  <2>3. job'.prior # Absent
    BY <2>2, StateTyped DEF Absent
  <2>4. bench'.pc = "idle"
    BY <1>t, <2>2 DEF Overlapping
  <2> QED BY <1>t, <2>2, <2>3, <2>4 DEF AsFound, Kept, AllIdle
<1>6. CASE Restore
  <2>1. job' = NoJob /\ job'.pc = "idle" /\ job.pc = "running"
    BY <1>6 DEF Restore, NoJob
  <2>2. limit' = IF job.prior = Absent THEN limit ELSE job.prior
    BY <1>t, <1>6 DEF Restore, RestoreTarget, Accepted, Refused, Unreadable
  <2>3. Kept(limit)'
    BY <1>t, <1>1, <2>1, <2>2 DEF Kept
  <2>4. bench.pc = "idle"
    BY <1>t, <2>1 DEF AsFound, Overlapping
  <2> QED BY <1>t, <1>2, <2>1, <2>3, <2>4 DEF AsFound
<1> QED BY <1>4, <1>5, <1>6

LEMMA AsFoundByBench ==
  ASSUME TypeOK, AsFound, policy = "preserve", ~ disturbed', Observe,
         BenchStart \/ BenchSweep \/ BenchRung \/ BenchDone \/ BenchRestore
  PROVE  AsFound'
<1>t. /\ ~ disturbed /\ ~ Overlapping' /\ wanted' = wanted /\ refusals' # refusals + 1
      /\ kills' # kills + 1 /\ wanted \in Nat
  BY NothingWrong, StateTyped
<1>1. job' = job
  BY DEF BenchStart, BenchSweep, BenchRung, BenchDone, BenchRestore
<1>2. CASE BenchRestore
  <2>1. bench.pc = "restore" /\ bench'.pc = "idle"
    BY <1>2, BenchEffects DEF BenchRestore, BenchIs
  <2>2. bench.observed = WholeWatts(wanted) /\ job.pc = "idle"
    BY <1>t, <2>1 DEF AsFound, Overlapping
  <2>3. limit' = WholeWatts(wanted) * PerWatt
    BY <1>t, <1>2, <2>2 DEF BenchRestore, BenchTarget, Accepted, Refused, Unreadable
  <2> QED BY <1>t, <1>1, <2>1, <2>2, <2>3 DEF AsFound, Kept
<1>3. CASE ~ BenchRestore
  <2>1. bench'.pc # "idle"
    BY <1>3, BenchEffects DEF BenchIs
  <2>2. job'.pc = "idle"
    BY <1>t, <2>1 DEF Overlapping
  <2>3. bench'.observed = WholeWatts(wanted)
    <3>1. CASE BenchStart
      <4>1. Kept(limit) /\ bench'.observed = WholeWatts(limit)
        BY <1>t, <1>1, <2>2, <3>1, BenchEffects DEF BenchStart, BenchIs, AsFound, AllIdle
      <4> QED BY <1>t, <4>1, InWholeWatts DEF Kept
    <3>2. CASE ~ BenchStart
      <4>1. bench.pc # "idle"
        BY <1>3, <3>2 DEF BenchSweep, BenchRung, BenchDone
      <4>2. bench'.observed = bench.observed
        BY <1>3, <3>2, BenchEffects DEF BenchIs
      <4> QED BY <1>t, <4>1, <4>2 DEF AsFound
    <3> QED BY <3>1, <3>2
  <2> QED BY <1>t, <2>1, <2>2, <2>3 DEF AsFound, AllIdle
<1> QED BY <1>2, <1>3

LEMMA AsFoundStep == Typed /\ AsFound /\ [Next]_vars => AsFound'
<1> SUFFICES ASSUME TypeOK, AsFound, [Next]_vars, policy' = "preserve", ~ disturbed'
             PROVE  AsFound'
  BY DEF Typed, AsFound
<1>1. CASE OperatorSets
  <2>1. job.pc = "idle" /\ bench.pc = "idle" /\ job' = job /\ bench' = bench /\ limit' = wanted'
    BY <1>1 DEF OperatorSets, AllIdle
  <2> QED BY <2>1 DEF AsFound, Overlapping, AllIdle, Kept
<1>2. CASE UNCHANGED vars
  BY <1>2 DEF vars, AsFound, Overlapping, AllIdle, Kept
<1>3. CASE Observe
  <2>1. policy = "preserve" /\ kills' # kills + 1 /\ ~ disturbed /\ wanted' = wanted
    BY <1>3, NothingWrong
  <2>2. CASE CacheExpires
    BY <2>1, <2>2 DEF CacheExpires, AsFound, Overlapping, AllIdle, Kept
  <2>3. ~ KillScheduler /\ ~ KillBench
    BY <2>1 DEF KillScheduler, KillBench
  <2>4. ~ OperatorSets \/ AsFound'
    BY <1>1
  <2> QED BY <1>2, <1>3, <2>1, <2>2, <2>3, <2>4, AsFoundByJob, AsFoundByBench, NextCases
<1>4. Observe \/ OperatorSets \/ UNCHANGED vars
  BY NextCases DEF ApplyRead, ApplySet, Restore, CacheExpires, BenchStart, BenchSweep, BenchRung,
       BenchDone, BenchRestore, KillScheduler, KillBench
<1> QED BY <1>1, <1>2, <1>3, <1>4

LEMMA AsFoundInitially == Init => AsFound
  BY DEF Init, AsFound, Overlapping, AllIdle, Kept, NoJob, NoBench

(* POWER_CAP_POLICY=preserve: through every job and every benchmark since  *)
(* the operator set the limit, unless one was killed, refused or beside    *)
(* another, the card comes back to it, or to the watt below once a         *)
(* benchmark has restored it.                                              *)
THEOREM PreserveLeavesAsFound == Spec => []LeftAsFound
<1>1. Typed /\ AsFound /\ [Next]_vars => (Typed /\ AsFound)'
  BY TypedStep, AsFoundStep
<1>2. Init => Typed /\ AsFound
  BY TypedInitially, AsFoundInitially
<1>3. AsFound => LeftAsFound
  BY DEF AsFound, LeftAsFound, Kept
<1> QED BY <1>1, <1>2, <1>3, PTL DEF Spec

-----------------------------------------------------------------------------
LEMMA SanctionedTyped == Sanctioned \subseteq Nat
<1>1. DeriveCaps(Default, Floor, Ceiling) \in Seq(Nat)
  <2>1. Floor <= Ceiling
    BY Numbers
  <2> QED BY <2>1, Numbers, LadderIsGood DEF GoodLadder
<1>2. \A w \in ToSet(DeriveCaps(Default, Floor, Ceiling)) : w \in Nat
  BY <1>1 DEF ToSet
<1>3. \A w \in Nat : w * PerWatt \in Nat
  BY Numbers
<1> QED BY <1>2, <1>3, RecommendedTyped, Numbers DEF Sanctioned

(* A limit that is sanctioned is allowed, and what is allowed stays it in  *)
(* whole watts.                                                            *)
LEMMA AllowedInWatts ==
  ASSUME NEW l \in Allowed, l \in Nat
  PROVE  WholeWatts(l) * PerWatt \in Allowed
<1>1. CASE l \in Sanctioned
  BY <1>1 DEF Allowed
<1>2. CASE l \notin Sanctioned
  <2>1. PICK s \in Sanctioned : l = WholeWatts(s) * PerWatt
    BY <1>2 DEF Allowed
  <2>2. s \in Nat
    BY SanctionedTyped
  <2> QED BY <2>1, <2>2, InWholeWatts DEF Allowed
<1> QED BY <1>1, <1>2

LEMMA DefaultAllowed ==
  /\ Default * PerWatt \in Allowed
  /\ \A l \in OperatorLimits : l \in Allowed
  /\ \A c \in Recommended \ {NoCap} : c \in Allowed
  BY DEF Allowed, Sanctioned

LEMMA AccountedByJob ==
  ASSUME Typed, Accounted, DefaultReadable, ApplyRead \/ ApplySet \/ Restore
  PROVE  Accounted'
<1>t. TypeOK /\ bench' = bench
  BY DEF Typed, ApplyRead, ApplySet, Restore
<1>1. /\ limit \in Allowed
      /\ job.pc = "set" => job.cap \in Allowed /\ job.found \in Allowed
      /\ job.prior # Absent => job.prior \in Allowed
      /\ bench.pc # "idle" => bench.observed * PerWatt \in Allowed
      /\ bench.pc = "sweep" => bench.stock = Default
  BY DEF Accounted
<1>2. CASE ApplyRead
  <2>1. limit' = limit
    BY <1>2 DEF ApplyRead
  <2>2. PICK c \in Recommended :
          \/ c # NoCap /\ JobIs("set", c, limit, job.prior)
          \/ JobIs("running", Absent, Absent, Absent)
    BY <1>t, <1>2, ApplyReadEffect
  <2> QED BY <1>t, <1>1, <2>1, <2>2, DefaultAllowed DEF JobIs, Accounted
<1>3. CASE ApplySet
  <2>1. job.pc = "set"
    BY <1>3 DEF ApplySet
  <2>2. \/ JobIs("running", job.cap, job.found, job.found) /\ limit' = job.cap
        \/ JobIs("running", job.cap, job.found, job.prior) /\ limit' = limit
    BY <1>t, <1>3, ApplySetEffect
  <2> QED BY <1>t, <1>1, <2>1, <2>2 DEF JobIs, Accounted
<1>4. CASE Restore
  <2>1. job'.pc = "idle" /\ job'.prior = Absent
    BY <1>4 DEF Restore, NoJob
  <2>2. limit' \in Allowed
    BY <1>1, <1>4, DefaultAllowed DEF Restore, RestoreTarget, Accepted, Refused
  <2> QED BY <1>t, <1>1, <2>1, <2>2 DEF Accounted
<1> QED BY <1>2, <1>3, <1>4

LEMMA AccountedByBench ==
  ASSUME Typed, Accounted, DefaultReadable,
         BenchStart \/ BenchSweep \/ BenchRung \/ BenchDone \/ BenchRestore
  PROVE  Accounted'
<1>t. TypeOK /\ job' = job /\ limit \in Nat
  BY StateTyped DEF Typed, BenchStart, BenchSweep, BenchRung, BenchDone, BenchRestore
<1>1. /\ limit \in Allowed
      /\ job.pc = "set" => job.cap \in Allowed /\ job.found \in Allowed
      /\ job.prior # Absent => job.prior \in Allowed
      /\ bench.pc # "idle" => bench.observed * PerWatt \in Allowed
      /\ bench.pc = "sweep" => bench.stock = Default
  BY DEF Accounted
<1>2. limit' \in Allowed
  <2>1. CASE BenchStart \/ BenchSweep \/ BenchDone
    BY <1>1, <2>1 DEF BenchStart, BenchSweep, BenchDone
  <2>2. CASE BenchRung
    <3>1. bench.stock = Default
      BY <1>1, <2>2 DEF BenchRung
    <3>2. Ladder[bench.rung + 1] \in ToSet(DeriveCaps(Default, Floor, Ceiling))
      BY <1>t, <2>2, <3>1, RungTyped DEF Ladder
    <3>3. Ladder[bench.rung + 1] * PerWatt \in Allowed
      BY <3>2 DEF Sanctioned, Allowed
    <3> QED BY <1>1, <1>t, <2>2, <3>3, BenchEffects
  <2>3. CASE BenchRestore
    BY <1>1, <2>3, DefaultAllowed DEF BenchRestore, BenchTarget, Accepted, Refused
  <2> QED BY <2>1, <2>2, <2>3
<1>3. bench'.pc # "idle" => bench'.observed * PerWatt \in Allowed
  <2>1. CASE BenchStart
    BY <1>t, <1>1, <2>1, BenchEffects, AllowedInWatts DEF BenchIs
  <2>2. CASE BenchSweep \/ BenchRung \/ BenchDone
    <3>1. bench.pc # "idle"
      BY <2>2 DEF BenchSweep, BenchRung, BenchDone
    <3>2. bench'.observed = bench.observed
      BY <1>t, <2>2, BenchEffects DEF BenchIs
    <3> QED BY <1>1, <3>1, <3>2
  <2>3. CASE BenchRestore
    BY <1>t, <2>3, BenchEffects DEF BenchIs
  <2> QED BY <2>1, <2>2, <2>3
<1>4. bench'.pc = "sweep" => bench'.stock = Default
  <2>1. BenchRung => bench.pc = "sweep"
    BY DEF BenchRung
  <2> QED BY <1>t, <1>1, <2>1, BenchEffects DEF BenchIs
<1> QED BY <1>t, <1>1, <1>2, <1>3, <1>4 DEF Accounted

LEMMA AccountedStep == Typed /\ Accounted /\ [Next]_vars => Accounted'
<1> SUFFICES ASSUME Typed, Accounted, [Next]_vars, DefaultReadable PROVE Accounted'
  BY DEF Accounted
<1>1. CASE KillScheduler
  BY <1>1 DEF KillScheduler, NoJob, Accounted
<1>2. CASE KillBench
  BY <1>2 DEF KillBench, NoBench, Accounted
<1>3. CASE OperatorSets
  <2>1. UNCHANGED <<job, bench>> /\ limit' \in OperatorLimits
    BY <1>3 DEF OperatorSets
  <2> QED BY <2>1, DefaultAllowed DEF Accounted
<1>4. CASE CacheExpires \/ UNCHANGED vars
  BY <1>4 DEF CacheExpires, vars, Accounted
<1> QED BY <1>1, <1>2, <1>3, <1>4, AccountedByJob, AccountedByBench, NextCases

LEMMA AccountedInitially == Init => Accounted
<1> SUFFICES ASSUME Init PROVE Accounted
  OBVIOUS
<1>1. limit \in Allowed
  BY DefaultAllowed DEF Init
<1> QED BY <1>1 DEF Init, Accounted, NoJob, NoBench

LEMMA InvInitially == Init => IInv
  BY TypedInitially, AsFoundInitially, AccountedInitially DEF IInv

LEMMA InvStep == IInv /\ [Next]_vars => IInv'
  BY TypedStep, AsFoundStep, AccountedStep DEF IInv

(* However often a job or a benchmark is killed with its cap on the card,  *)
(* and whoever finds it there and puts it back, what is on the card comes  *)
(* from the operator, the server, the factory or the ladder of the factory *)
(* default, up to a fraction of a watt: no fraction of a fraction.         *)
THEOREM NobodyWalksDown == Spec => []NoWalkDown
<1>1. IInv => NoWalkDown
  BY DEF IInv, Accounted, Allowed, NoWalkDown
<1> QED BY <1>1, InvInitially, InvStep, PTL DEF Spec
=============================================================================
