-------------------------- MODULE BenchSuiteProofs --------------------------
(***************************************************************************)
(* That a benchmark suite puts back what it changed and keeps whole rows,   *)
(* all of them or none, whatever fails in it: for any suites, items,        *)
(* ladders, limits of a pause and number of faults.                         *)
(***************************************************************************)
EXTENDS BenchSuite, TLAPS

Task == {Baseline, "ifeval"}
RunState == [cell : Nat, task : Task, cap : Nat, done : Nat, tokens : BOOLEAN,
             blind : BOOLEAN, steady : BOOLEAN, raised : {"none", "error", "cancelled"}]
Whole == {r \in RunState : r.done = Items /\ r.raised = "none"}

Typed ==
  /\ kind \in Kinds /\ cell \in Nat /\ todo \in Seq(Task)
  /\ run \in RunState /\ runs \in Seq(Whole) /\ points \in Seq(Whole)
  /\ refused \subseteq Nat /\ restored \subseteq Nat

(* CapLeft, of the cells whose write was refused and of those whose went     *)
(* through                                                                  *)
Left(c, no, yes, back) == \E d \in no : d < c /\ (back => \A e \in yes : e < d \/ c <= e)
Cap(c) == Left(c, refused, restored, managed)
AtLabel(r) == r.steady \/ (r.cap = 0 /\ Cap(r.cell))

(* A task has the sampler, and the limit on its label from its first request *)
(* to its end unless the cell found a cap; a cap that the cell did not find  *)
(* is that of the sweep, which comes last.                                  *)
InTask == {"stream", "fallback", "pause", "stopping"}
InCell == {"begin", "restore"} \cup InTask
Between == {"detect", "rows", "export", "over"}
Wound ==
  /\ sampling => pc \in InTask
  /\ ~ root => limit = 0
  /\ \A d \in refused \cup restored : d <= cell /\ (pc \in InCell \cup {"detect"} => d < cell)
  /\ pc \in Between => limit = 0 \/ Cap(cell + 1)
  /\ pc \in InTask \cup {"begin"} => limit = 0 \/ Cap(cell) \/ todo = << >>
  /\ pc \in InCell => found = 0 \/ Cap(cell)
  /\ pc \in InTask =>
       /\ run.cell = cell /\ AtLabel(run)
       /\ limit = run.cap \/ (run.cap = 0 /\ Cap(cell))
  /\ pc = "stopping" /\ run.raised = "none" => run.done = Items

(* What is a row, or may become one, is of the limit on its label or of a    *)
(* cell that found a cap.                                                   *)
Labelled ==
  \A r \in kept \cup ToSet(runs) \cup ToSet(points) : AtLabel(r) /\ r.cell <= cell

(* What was earned is among the rows, or will be when the cell has them.   *)
Earnings == {r \in ToSet(runs) : Computable(r)}
Kept ==
  /\ kept \subseteq Whole
  /\ earned \subseteq kept \cup Earnings
  /\ pc \in {"detect", "export"} => earned \subseteq kept
  /\ pc = "over" /\ exit \notin {"escaped", "timeout"} => earned \subseteq kept

(* A cancellation that was delivered ends the suite, and nothing else does *)
(* with a timeout.                                                         *)
Cancelled ==
  /\ cancel = "delivered" =>
       \/ pc = "stopping" /\ run.raised = "cancelled"
       \/ pc = "restore"
       \/ pc = "over" /\ exit = "timeout"
  /\ exit = "timeout" => cancel = "delivered"
  /\ bundle # {} => pc = "over" /\ cancel # "delivered"

Inv == Typed /\ Wound /\ Labelled /\ Kept /\ Cancelled

(* A run, field by field                                                   *)
LEMMA RunBegins ==
  ASSUME NEW c \in Nat, NEW t \in Task, NEW k \in Nat
  PROVE  [NoRun EXCEPT !.cell = c, !.task = t, !.cap = k]
           = [cell |-> c, task |-> t, cap |-> k, done |-> 0, tokens |-> FALSE,
              blind |-> FALSE, steady |-> TRUE, raised |-> "none"]
<1>1. ASSUME NEW o, o = [NoRun EXCEPT !.cell = c, !.task = t, !.cap = k]
      PROVE  o = [cell |-> c, task |-> t, cap |-> k, done |-> 0, tokens |-> FALSE,
                  blind |-> FALSE, steady |-> TRUE, raised |-> "none"]
  BY <1>1 DEF NoRun
<1> QED BY <1>1

LEMMA RunGoesOn ==
  ASSUME NEW r \in RunState, NEW t \in BOOLEAN, NEW v \in BOOLEAN
  PROVE  [r EXCEPT !.done = @ + 1, !.tokens = t, !.steady = v]
           = [cell |-> r.cell, task |-> r.task, cap |-> r.cap, done |-> r.done + 1,
              tokens |-> t, blind |-> r.blind, steady |-> v, raised |-> r.raised]
<1>1. ASSUME NEW o, o = [r EXCEPT !.done = @ + 1, !.tokens = t, !.steady = v]
      PROVE  o = [cell |-> r.cell, task |-> r.task, cap |-> r.cap, done |-> r.done + 1,
                  tokens |-> t, blind |-> r.blind, steady |-> v, raised |-> r.raised]
  BY <1>1 DEF RunState
<1> QED BY <1>1

LEMMA RunRaises ==
  ASSUME NEW r \in RunState, NEW e \in {"error", "cancelled"}
  PROVE  [r EXCEPT !.raised = e]
           = [cell |-> r.cell, task |-> r.task, cap |-> r.cap, done |-> r.done,
              tokens |-> r.tokens, blind |-> r.blind, steady |-> r.steady, raised |-> e]
<1>1. ASSUME NEW o, o = [r EXCEPT !.raised = e]
      PROVE  o = [cell |-> r.cell, task |-> r.task, cap |-> r.cap, done |-> r.done,
                  tokens |-> r.tokens, blind |-> r.blind, steady |-> r.steady, raised |-> e]
  BY <1>1 DEF RunState
<1> QED BY <1>1

LEMMA RunBlinded ==
  ASSUME NEW r \in RunState
  PROVE  [r EXCEPT !.blind = TRUE]
           = [cell |-> r.cell, task |-> r.task, cap |-> r.cap, done |-> r.done,
              tokens |-> r.tokens, blind |-> TRUE, steady |-> r.steady, raised |-> r.raised]
<1>1. ASSUME NEW o, o = [r EXCEPT !.blind = TRUE]
      PROVE  o = [cell |-> r.cell, task |-> r.task, cap |-> r.cap, done |-> r.done,
                  tokens |-> r.tokens, blind |-> TRUE, steady |-> r.steady, raised |-> r.raised]
  BY <1>1 DEF RunState
<1> QED BY <1>1

LEMMA SetOfAppended ==
  ASSUME NEW S, NEW s \in Seq(S), NEW e \in S
  PROVE  Append(s, e) \in Seq(S) /\ ToSet(Append(s, e)) = ToSet(s) \cup {e}
<1>1. /\ Append(s, e) \in Seq(S) /\ Len(Append(s, e)) = Len(s) + 1 /\ Len(s) \in Nat
      /\ DOMAIN s = 1 .. Len(s) /\ DOMAIN Append(s, e) = 1 .. Len(s) + 1
      /\ \A i \in 1 .. Len(s) : Append(s, e)[i] = s[i]
      /\ Append(s, e)[Len(s) + 1] = e
  OBVIOUS
<1>2. ASSUME NEW x \in ToSet(Append(s, e)) PROVE x \in ToSet(s) \cup {e}
  BY <1>1, <1>2 DEF ToSet
<1>3. ASSUME NEW x \in ToSet(s) \cup {e} PROVE x \in ToSet(Append(s, e))
  BY <1>1, <1>3 DEF ToSet
<1> QED BY <1>1, <1>2, <1>3

LEMMA TasksOfSuite ==
  ASSUME kind \in Kinds
  PROVE  Suite(kind).tasks \in Seq(Task)
<1>1. kind \in {"quick", "calibrate", "full", "reference", "prism"}
  BY SuiteAssumption
<1>2. << Baseline >> \in Seq(Task) /\ << Baseline, "ifeval" >> \in Seq(Task)
  BY DEF Task
<1> QED BY <1>1, <1>2 DEF Suite, QuickSuite, CalibrateSuite, FullSuite,
                          ReferenceSuite, PrismSuite

(* What is left for the next cell is what was left for this one, until this  *)
(* one has written; a write that was refused leaves a cap, one that went     *)
(* through leaves what a card that preserves it was found with, and neither  *)
(* changes what earlier cells found.                                        *)
LEMMA LeftNow ==
  ASSUME NEW no \in SUBSET Nat, NEW yes \in SUBSET Nat, NEW back, NEW c \in Nat,
         \A d \in no \cup yes : d < c
  PROVE  Left(c + 1, no, yes, back) <=> Left(c, no, yes, back)
BY DEF Left

LEMMA LeftRefused ==
  ASSUME NEW no \in SUBSET Nat, NEW yes \in SUBSET Nat, NEW back, NEW c \in Nat,
         \A d \in no \cup yes : d < c
  PROVE  Left(c + 1, no \cup {c}, yes, back)
BY DEF Left

LEMMA LeftPreserved ==
  ASSUME NEW no \in SUBSET Nat, NEW yes, NEW back, NEW c \in Nat, ~ back,
         Left(c, no, yes, back)
  PROVE  Left(c + 1, no, yes \cup {c}, back)
BY DEF Left

LEMMA LeftEarlier ==
  ASSUME NEW no \in SUBSET Nat, NEW yes \in SUBSET Nat, NEW back, NEW c \in Nat, NEW k \in Nat,
         k <= c, Left(k, no, yes, back)
  PROVE  Left(k, no \cup {c}, yes, back) /\ Left(k, no, yes \cup {c}, back)
BY DEF Left

LEMMA InvInitially == Init => Inv
<1> SUFFICES ASSUME Init PROVE Inv
  OBVIOUS
<1>1. run \in RunState
  BY DEF Init, NoRun, RunState, Task
<1>2. Typed
  BY <1>1 DEF Init, Typed
<1>3. Wound
  BY DEF Init, Wound, InTask, InCell
<1>6. Labelled
  BY DEF Init, Labelled, ToSet
<1>4. Kept
  BY DEF Init, Kept
<1>5. Cancelled
  BY DEF Init, Cancelled
<1> QED BY <1>2, <1>3, <1>4, <1>5, <1>6 DEF Inv

(* Where a cell that has measured nothing leaves the suite                 *)
LEMMA DeadEffect ==
  ASSUME NEW why, NEW what, Typed, Dead(why, what)
  PROVE  /\ cell' \in Nat
         /\ \/ pc' = "detect" /\ exit' = exit
            \/ pc' = "export" /\ exit' = exit
            \/ pc' = "over" /\ exit' = why
  BY DEF Dead, Over, Typed

LEMMA RowsAreRuns ==
  ASSUME Inv, NEW r \in kept \cup ToSet(runs) \cup ToSet(points)
  PROVE  r \in Whole /\ r \in RunState /\ r.cell \in Nat
<1>1. ToSet(runs) \subseteq Whole /\ ToSet(points) \subseteq Whole
  BY DEF Inv, Typed, ToSet
<1> QED BY <1>1 DEF Inv, Kept, Whole, RunState

(* What nothing is added to stays as labelled                              *)
LEMMA StaysLabelled ==
  ASSUME Labelled, UNCHANGED <<managed, refused, restored, kept, runs, points, cell>>
  PROVE  Labelled'
BY DEF Labelled, AtLabel, Cap

(* Before the first cell, between two, and at the end                      *)
LEMMA FoundStep ==
  ASSUME Inv,
         Resolve \/ NotPulled \/ NoEngine \/ OtherWeights
  PROVE  Inv'
<1>1. /\ pc = "detect" /\ kind \in Kinds /\ ~ sampling /\ (~ root => limit = 0)
      /\ cancel # "delivered" /\ exit # "timeout" /\ bundle = {} /\ earned \subseteq kept
      /\ cell \in Nat /\ refused \subseteq Nat /\ restored \subseteq Nat
      /\ \A d \in refused \cup restored : d < cell
      /\ limit = 0 \/ Left(cell + 1, refused, restored, managed)
  BY DEF Resolve, NotPulled, NoEngine, OtherWeights, Inv, Typed,
         Wound, Between, Cap, Kept, Cancelled, InTask
<1>2. CASE Resolve
  <2>1. /\ pc' = "begin" /\ todo' = Suite(kind).tasks /\ runs' = << >> /\ points' = << >>
        /\ found' = limit
        /\ UNCHANGED <<kind, root, managed, cell, run, sampling, limit, refused, restored, kept, bundle,
                       exit, cancel, earned>>
    BY <1>2 DEF Resolve, box
  <2>2. Typed'
    BY <1>1, <2>1, TasksOfSuite DEF Inv, Typed
  <2>3. limit = 0 \/ Left(cell, refused, restored, managed)
    BY <1>1, LeftNow
  <2>4. Wound'
    BY <1>1, <2>1, <2>3 DEF Wound, InTask, InCell, Between, Cap
  <2>5. Labelled'
    <3>1. ToSet(runs') = {} /\ ToSet(points') = {}
      BY <2>1 DEF ToSet
    <3> QED BY <2>1, <3>1 DEF Inv, Labelled, AtLabel, Cap
  <2>6. Kept'
    BY <1>1, <2>1 DEF Inv, Kept
  <2>7. Cancelled'
    BY <1>1, <2>1 DEF Cancelled
  <2> QED BY <2>2, <2>4, <2>5, <2>6, <2>7 DEF Inv
<1>3. CASE NotPulled \/ NoEngine \/ OtherWeights
  <2>1. /\ UNCHANGED <<kind, root, managed, todo, run, sampling, limit, refused, restored, runs, points,
                       kept, bundle, cancel, earned>>
        /\ cell' \in {cell, cell + 1}
        /\ \/ pc' \in {"detect", "export"} /\ exit' = exit
           \/ pc' = "over" /\ exit' \in {"unavailable", "escaped", "refused"}
        /\ pc' \in {"export", "over"} => cell' = cell
    BY <1>3 DEF NotPulled, NoEngine, OtherWeights, Over, Dead, box, card
  <2>2. Typed'
    BY <1>1, <2>1 DEF Inv, Typed
  <2>3. limit = 0 \/ Left(cell' + 1, refused, restored, managed)
    <3>1. CASE cell' = cell
      BY <1>1, <3>1
    <3>2. CASE cell' = cell + 1
      <4>1. cell + 1 \in Nat /\ \A d \in refused \cup restored : d < cell + 1
        BY <1>1
      <4> QED BY <1>1, <3>2, <4>1, LeftNow
    <3> QED BY <2>1, <3>1, <3>2
  <2>4. \A d \in refused' \cup restored' : d < cell'
    BY <1>1, <2>1
  <2>5. Wound'
    <3>1. /\ ~ sampling' /\ pc' \in Between /\ (limit' = 0 \/ Cap(cell + 1)')
          /\ ~ root' => limit' = 0
          /\ \A d \in refused' \cup restored' : d <= cell'
      BY <1>1, <2>1, <2>3, <2>4 DEF Between, Cap
    <3> QED BY <2>4, <3>1 DEF Wound, InTask, InCell, Between
  <2>6. Labelled'
    <3>1. ASSUME NEW r \in kept \cup ToSet(runs) \cup ToSet(points)
          PROVE  AtLabel(r)' /\ r.cell <= cell'
      <4>1. AtLabel(r) /\ r.cell <= cell /\ r.cell \in Nat
        BY RowsAreRuns DEF Inv, Labelled
      <4> QED BY <1>1, <2>1, <4>1 DEF AtLabel, Cap
    <3> QED BY <2>1, <3>1 DEF Labelled
  <2>7. Kept'
    BY <1>1, <2>1 DEF Inv, Kept
  <2>8. Cancelled'
    BY <1>1, <2>1 DEF Cancelled
  <2> QED BY <2>2, <2>5, <2>6, <2>7, <2>8 DEF Inv
<1> QED BY <1>2, <1>3

(* A task begins, or none is left                                          *)
LEMMA BeginStep ==
  ASSUME Inv,
         BeginTask \/ LoadFails \/ BeginRung \/ EndSweep
  PROVE  Inv'
<1>1. /\ pc = "begin" /\ ~ sampling /\ (~ root => limit = 0) /\ cancel # "delivered" /\ bundle = {}
      /\ limit = 0 \/ Left(cell, refused, restored, managed) \/ todo = << >>
      /\ found = 0 \/ Left(cell, refused, restored, managed)
      /\ todo \in Seq(Task) /\ cell \in Nat /\ points \in Seq(Whole)
      /\ \A d \in refused \cup restored : d <= cell /\ d < cell
  BY DEF BeginTask, LoadFails, BeginRung, EndSweep, Inv, Typed,
         Wound, Cap, Cancelled, InTask, InCell
<1>2. /\ UNCHANGED <<kind, root, managed, cell, found, refused, restored, runs, points, kept, bundle,
                     exit, cancel, earned>>
  BY DEF BeginTask, LoadFails, BeginRung, EndSweep, box, card,
         books
<1>L. Labelled'
  BY <1>2, StaysLabelled DEF Inv
<1>3. Kept' /\ Cancelled'
  <2>1. pc' \in {"begin", "stream", "restore"}
    BY <1>1 DEF BeginTask, LoadFails, BeginRung, EndSweep, Begins
  <2>2. Kept'
    BY <1>2, <2>1 DEF Inv, Kept, Earnings, Computable
  <2>3. Cancelled'
    BY <1>1, <1>2, <2>1 DEF Inv, Cancelled
  <2> QED BY <2>2, <2>3
<1>4. CASE BeginTask \/ BeginRung
  <2>1. PICK t \in Task, k \in Nat :
          /\ run' = [NoRun EXCEPT !.cell = cell, !.task = t, !.cap = k]
          /\ \/ limit' = k /\ (k = 0 \/ todo' = << >>)
             \/ k = 0 /\ Left(cell, refused, restored, managed)
          /\ todo' \in Seq(Task) /\ pc' = "stream"
    <3>1. CASE BeginTask
      <4>1. /\ Head(todo) \in Task /\ Tail(todo) \in Seq(Task) /\ limit' = limit
            /\ limit = 0 \/ Left(cell, refused, restored, managed)
        BY <1>1, <3>1 DEF BeginTask, card
      <4> QED BY <3>1, <4>1 DEF BeginTask, Begins
    <3>2. CASE BeginRung
      <4>1. Len(points) + 1 \in Nat
        BY <1>1
      <4>2. Baseline \in Task
        BY DEF Task
      <4> QED BY <1>1, <3>2, <4>1, <4>2 DEF BeginRung, Begins
    <3> QED BY <1>4, <3>1, <3>2
  <2>2. run' = [cell |-> cell, task |-> t, cap |-> k, done |-> 0, tokens |-> FALSE,
                blind |-> FALSE, steady |-> TRUE, raised |-> "none"]
    BY <1>1, <2>1, RunBegins
  <2>3. run' \in RunState /\ run'.steady = TRUE /\ run'.cap = k /\ run'.cell = cell
        /\ sampling' = TRUE /\ (~ root => limit' = 0)
    BY <1>1, <1>4, <2>2 DEF RunState, BeginTask, BeginRung, Begins, card
  <2>4. Typed'
    BY <1>2, <2>1, <2>3 DEF Inv, Typed
  <2>5. run'.steady
    BY <2>3
  <2>6. AtLabel(run)'
    BY <2>5 DEF AtLabel
  <2>7. /\ (limit' = run'.cap \/ (run'.cap = 0 /\ Cap(cell)'))
        /\ limit' = 0 \/ Cap(cell)' \/ todo' = << >>
        /\ found' = 0 \/ Cap(cell)'
    BY <1>1, <1>2, <2>1, <2>3 DEF Cap
  <2>8. Wound'
    BY <1>1, <1>2, <2>1, <2>3, <2>6, <2>7 DEF Wound, InTask, InCell, Between
  <2> QED BY <1>3, <1>L, <2>4, <2>8 DEF Inv
<1>5. CASE LoadFails \/ EndSweep
  <2>1. /\ UNCHANGED <<run, sampling>> /\ pc' \in {"begin", "restore"}
        /\ pc' = "restore" \/ limit' = limit
        /\ ~ root => limit' = 0
    BY <1>1, <1>5 DEF LoadFails, EndSweep, card
  <2>2. /\ todo' \in Seq(Task)
        /\ limit = 0 \/ Left(cell, refused, restored, managed) \/ todo' = << >>
    <3>1. todo # << >> => Tail(todo) \in Seq(Task)
      BY <1>1
    <3>2. \/ todo # << >> /\ todo' = Tail(todo)
          \/ todo' = todo
      BY <1>1, <1>5 DEF LoadFails, EndSweep
    <3> QED BY <1>1, <3>1, <3>2
  <2>3. Typed'
    BY <1>2, <2>1, <2>2 DEF Inv, Typed
  <2>4. /\ pc' = "begin" => limit' = 0 \/ Cap(cell)' \/ todo' = << >>
        /\ found' = 0 \/ Cap(cell)'
    BY <1>1, <1>2, <2>1, <2>2 DEF Cap
  <2>5. Wound'
    BY <1>1, <1>2, <2>1, <2>4 DEF Wound, InTask, InCell, Between
  <2> QED BY <1>3, <1>L, <2>3, <2>5 DEF Inv
<1> QED BY <1>4, <1>5

(* A run stays a run, with its label and the limit it was steady at, until *)
(* it ends with all its items or with what it raised.                      *)
LEMMA RunningStep ==
  ASSUME Inv, pc \in InTask, run' \in RunState,
         UNCHANGED <<kind, root, managed, cell, todo, card, runs, points, kept, bundle, exit, earned>>,
         sampling' = sampling, pc' \in InTask,
         run'.cap = run.cap, run'.cell = run.cell,
         run'.steady \/ (run'.cap = 0 /\ Left(cell, refused, restored, managed)),
         pc' = "stopping" /\ run'.raised = "none" => run'.done = Items,
         \/ cancel' = cancel /\ cancel # "delivered"
         \/ cancel' = cancel /\ pc = "stopping" /\ pc' = "stopping" /\ run'.raised = run.raised
         \/ cancel' = "swallowed" /\ cancel = "none"
         \/ cancel' = "delivered" /\ pc' = "stopping" /\ run'.raised = "cancelled"
  PROVE  Inv'
<1>0. UNCHANGED <<limit, found, refused, restored>>
  BY DEF card
<1>1. Typed'
  BY <1>0 DEF Inv, Typed
<1>2. Wound'
  <2>1. /\ run.cell = cell /\ (limit = run.cap \/ (run.cap = 0 /\ Cap(cell)))
        /\ limit = 0 \/ Cap(cell) \/ todo = << >>
        /\ found = 0 \/ Cap(cell)
        /\ ~ root => limit = 0
        /\ \A d \in refused \cup restored : d <= cell /\ d < cell
    BY DEF Inv, Wound, InTask, InCell
  <2>2. Cap(cell)' <=> Cap(cell)
    BY <1>0 DEF Cap
  <2>3. run'.cell = cell
    BY <2>1
  <2>4. AtLabel(run)'
    BY <1>0, <2>3 DEF AtLabel, Cap
  <2> QED BY <1>0, <2>1, <2>2, <2>3, <2>4 DEF Wound, InTask, InCell, Between
<1>3. Kept'
  BY DEF Inv, Kept, Earnings, Computable, InTask
<1>4. Cancelled'
  BY DEF Inv, Cancelled, InTask
<1>5. Labelled'
  BY <1>0, StaysLabelled DEF Inv
<1> QED BY <1>1, <1>2, <1>3, <1>4, <1>5 DEF Inv

LEMMA RunningNow ==
  ASSUME Inv, pc \in InTask
  PROVE  /\ run \in RunState /\ run.cell = cell
         /\ run.steady \/ (run.cap = 0 /\ Left(cell, refused, restored, managed))
         /\ limit = run.cap \/ (run.cap = 0 /\ Left(cell, refused, restored, managed))
         /\ pc = "stopping" /\ run.raised = "none" => run.done = Items
         /\ cancel = "delivered" => pc = "stopping" /\ run.raised = "cancelled"
  BY DEF Inv, Typed, Wound, Cancelled, AtLabel, Cap, InTask

LEMMA ItemStep ==
  ASSUME Inv, ItemDone
  PROVE  Inv'
<1>1. /\ pc \in {"stream", "fallback"} /\ pc \in InTask /\ run \in RunState
      /\ cancel # "delivered"
  BY RunningNow DEF ItemDone, InTask
<1>2. /\ UNCHANGED <<kind, root, managed, cell, todo, card, runs, points, kept, bundle, exit, earned>>
      /\ sampling' = sampling /\ cancel' = cancel
  BY DEF ItemDone, box, books
<1>3. \/ pc' = "pause"
      \/ pc' = IF run'.done = Items THEN "stopping" ELSE "stream"
  BY DEF ItemDone, AfterItem
<1> DEFINE v == run.steady /\ limit = run.cap
<1>4. PICK t \in BOOLEAN : run' = [run EXCEPT !.done = @ + 1, !.tokens = @ \/ t, !.steady = v]
  BY DEF ItemDone
<1>5. run' \in RunState /\ run'.cap = run.cap /\ run'.cell = run.cell /\ run'.steady = v
  <2> DEFINE u == run.tokens \/ t
  <2>1. u \in BOOLEAN /\ v \in BOOLEAN
    BY <1>1 DEF RunState
  <2>2. run' = [run EXCEPT !.done = @ + 1, !.tokens = u, !.steady = v]
    BY <1>4
  <2> HIDE DEF u, v
  <2>3. run' = [cell |-> run.cell, task |-> run.task, cap |-> run.cap, done |-> run.done + 1,
                tokens |-> u, blind |-> run.blind, steady |-> v, raised |-> run.raised]
    BY <1>1, <2>1, <2>2, RunGoesOn
  <2>4. run.done + 1 \in Nat
    BY <1>1 DEF RunState
  <2> QED BY <1>1, <2>1, <2>3, <2>4 DEF RunState
<1>6. run'.steady \/ (run'.cap = 0 /\ Left(cell, refused, restored, managed))
  BY <1>1, <1>5, RunningNow
<1>7. /\ pc' \in InTask
      /\ pc' = "stopping" /\ run'.raised = "none" => run'.done = Items
  BY <1>1, <1>3 DEF InTask
<1> HIDE DEF v
<1> QED BY <1>1, <1>2, <1>5, <1>6, <1>7, RunningStep

(* What ends a task early, and what makes it wait or go on                 *)
LEMMA RaisesEffect ==
  ASSUME Inv, pc \in InTask, NEW e \in {"error", "cancelled"}, Raises(e)
  PROVE  /\ run' \in RunState /\ run'.cap = run.cap /\ run'.cell = run.cell
         /\ run'.steady \/ (run'.cap = 0 /\ Left(cell, refused, restored, managed))
         /\ pc' = "stopping" /\ run'.raised = e
<1>1. run \in RunState /\ (run.steady \/ (run.cap = 0 /\ Left(cell, refused, restored, managed)))
  BY RunningNow
<1>2. run' = [run EXCEPT !.raised = e] /\ pc' = "stopping"
  BY DEF Raises
<1>3. run' = [cell |-> run.cell, task |-> run.task, cap |-> run.cap, done |-> run.done,
              tokens |-> run.tokens, blind |-> run.blind, steady |-> run.steady, raised |-> e]
  BY <1>1, <1>2, RunRaises
<1>4. /\ run' \in RunState /\ run'.cap = run.cap /\ run'.cell = run.cell
      /\ run'.steady = run.steady /\ run'.raised = e
  BY <1>1, <1>3 DEF RunState
<1> QED BY <1>1, <1>2, <1>4

LEMMA AwaitStep ==
  ASSUME Inv,
         StreamFails \/ ItemRaises \/ PausePolls
  PROVE  Inv'
<1>1. /\ pc \in {"stream", "fallback", "pause"} /\ pc \in InTask
      /\ run \in RunState /\ cancel # "delivered"
      /\ run.steady \/ (run.cap = 0 /\ Left(cell, refused, restored, managed))
  BY RunningNow DEF StreamFails, ItemRaises, PausePolls, InTask
<1>2. /\ UNCHANGED <<kind, root, managed, cell, todo, card, runs, points, kept, bundle, exit, earned>>
      /\ sampling' = sampling /\ cancel' = cancel
  BY DEF StreamFails, ItemRaises, PausePolls, box, books
<1>3. CASE Raises("error")
  <2>1. /\ run' \in RunState /\ run'.cap = run.cap /\ run'.cell = run.cell
        /\ run'.steady \/ (run'.cap = 0 /\ Left(cell, refused, restored, managed))
        /\ pc' = "stopping" /\ run'.raised = "error"
    BY <1>1, <1>3, RaisesEffect
  <2> QED BY <1>1, <1>2, <2>1, RunningStep DEF InTask
<1>4. CASE /\ run' = run /\ pc' \in InTask
           /\ pc' = "stopping" => run.done = Items
  BY <1>1, <1>2, <1>4, RunningStep
<1>5. StreamFails => run' = run /\ pc' = "fallback"
  BY DEF StreamFails
<1>6. ItemRaises => Raises("error")
  BY DEF ItemRaises
<1>7. PausePolls =>
        \/ Raises("error")
        \/ run' = run /\ pc' = (IF run.done = Items THEN "stopping" ELSE "stream")
        \/ run' = run /\ pc' = pc
  BY DEF PausePolls, AfterItem
<1> QED BY <1>1, <1>3, <1>4, <1>5, <1>6, <1>7 DEF InTask

LEMMA MeanwhileStep ==
  ASSUME Inv,
         Sample \/ BackstopSwallowed
           \/ (Backstop /\ pc # "detect")
  PROVE  Inv'
<1>1. CASE Sample
  <2>1. /\ pc \in InTask /\ pc' = pc
        /\ UNCHANGED <<kind, root, managed, cell, todo, card, runs, points, kept, bundle, exit, earned>>
        /\ sampling' = sampling /\ cancel' = cancel
        /\ run' \in {run, [run EXCEPT !.blind = TRUE]}
    BY <1>1 DEF Sample, box, books, Inv, Wound
  <2>2. /\ run \in RunState
        /\ run.steady \/ (run.cap = 0 /\ Left(cell, refused, restored, managed))
        /\ pc = "stopping" /\ run.raised = "none" => run.done = Items
        /\ cancel = "delivered" => pc = "stopping"
    BY <2>1, RunningNow
  <2>3. [run EXCEPT !.blind = TRUE]
          = [cell |-> run.cell, task |-> run.task, cap |-> run.cap, done |-> run.done,
             tokens |-> run.tokens, blind |-> TRUE, steady |-> run.steady, raised |-> run.raised]
    BY <2>2, RunBlinded
  <2>4. /\ run' \in RunState /\ run'.cap = run.cap /\ run'.cell = run.cell
        /\ run'.steady = run.steady /\ run'.raised = run.raised /\ run'.done = run.done
    BY <2>1, <2>2, <2>3 DEF RunState
  <2>5. run'.steady \/ (run'.cap = 0 /\ Left(cell, refused, restored, managed))
    BY <2>2, <2>4
  <2>6. /\ pc' = "stopping" /\ run'.raised = "none" => run'.done = Items
        /\ \/ cancel # "delivered"
           \/ pc = "stopping" /\ pc' = "stopping" /\ run'.raised = run.raised
    BY <2>1, <2>2, <2>4
  <2> QED BY <2>1, <2>4, <2>5, <2>6, RunningStep
<1>2. CASE BackstopSwallowed
  <2>1. /\ pc = "stopping" /\ pc' = pc /\ pc \in InTask
        /\ cancel = "none" /\ cancel' = "swallowed"
        /\ UNCHANGED <<kind, root, managed, cell, todo, card, runs, points, kept, bundle, exit, earned>>
        /\ sampling' = sampling /\ run' = run
    BY <1>2 DEF BackstopSwallowed, box, InTask
  <2> QED BY <2>1, RunningNow, RunningStep
<1>3. CASE Backstop /\ pc # "detect"
  <2>1. /\ pc \in InTask /\ cancel' = "delivered"
        /\ UNCHANGED <<kind, root, managed, cell, todo, card, runs, points, kept, bundle, exit, earned>>
        /\ sampling' = sampling /\ Raises("cancelled")
    BY <1>3 DEF Backstop, box, InTask
  <2>2. /\ run' \in RunState /\ run'.cap = run.cap /\ run'.cell = run.cell
        /\ run'.steady \/ (run'.cap = 0 /\ Left(cell, refused, restored, managed))
        /\ pc' = "stopping" /\ run'.raised = "cancelled"
    BY <2>1, RaisesEffect
  <2> QED BY <2>1, <2>2, RunningStep DEF InTask
<1> QED BY <1>1, <1>2, <1>3

(* A task that ended well is a row to be, whatever it is counted under     *)
LEMMA StopStep ==
  ASSUME Inv, Stop
  PROVE  Inv'
<1>1. /\ pc = "stopping" /\ pc \in InTask /\ run \in RunState
      /\ run.raised = "none" => run.done = Items
      /\ cancel = "delivered" => run.raised = "cancelled"
      /\ limit = 0 \/ Cap(cell) \/ todo = << >>
      /\ found = 0 \/ Cap(cell)
      /\ ~ root => limit = 0
      /\ \A d \in refused \cup restored : d <= cell /\ d < cell
      /\ AtLabel(run) /\ run.cell = cell /\ cell \in Nat
      /\ runs \in Seq(Whole) /\ points \in Seq(Whole) /\ bundle = {}
  BY RunningNow DEF Stop, Inv, Typed, Wound, Cancelled, InTask, InCell
<1>2. /\ UNCHANGED <<kind, root, managed, cell, todo, run, limit, found, refused, restored, kept, bundle,
                     exit, cancel>>
      /\ sampling' = FALSE /\ pc' \in {"begin", "restore"}
      /\ run.raised = "cancelled" => pc' = "restore"
  BY DEF Stop, box, card
<1>3. /\ runs' \in Seq(Whole) /\ points' \in Seq(Whole)
      /\ earned' \subseteq earned \cup {r \in ToSet(runs') : Computable(r)}
      /\ ToSet(runs) \subseteq ToSet(runs')
      /\ ToSet(runs') \subseteq ToSet(runs) \cup {run}
      /\ ToSet(points') \subseteq ToSet(points) \cup {run}
  <2>1. CASE run.raised = "none"
    <3>1. /\ Append(runs, run) \in Seq(Whole) /\ Append(points, run) \in Seq(Whole)
          /\ ToSet(Append(runs, run)) = ToSet(runs) \cup {run}
          /\ ToSet(Append(points, run)) = ToSet(points) \cup {run}
      BY <1>1, <2>1, SetOfAppended DEF Whole
    <3>2. /\ runs' = IF run.cap = 0 THEN Append(runs, run) ELSE runs
          /\ points' = IF run.cap = 0 THEN points ELSE Append(points, run)
          /\ earned' = IF run.cap = 0 /\ Computable(run) THEN earned \cup {run} ELSE earned
      BY <2>1 DEF Stop
    <3> QED BY <1>1, <3>1, <3>2
  <2>2. CASE run.raised # "none"
    <3>1. runs' = runs /\ earned' = earned /\ points' \in {points, << >>}
      BY <2>2 DEF Stop
    <3>2. << >> \in Seq(Whole)
      OBVIOUS
    <3>3. runs' \in Seq(Whole)
      BY <1>1, <3>1
    <3>4. points' \in Seq(Whole)
      BY <1>1, <3>1, <3>2
    <3>5. ToSet(runs') = ToSet(runs)
      BY <3>1
    <3>6. ToSet(points') \subseteq ToSet(points)
      BY <3>1 DEF ToSet
    <3> QED BY <3>1, <3>3, <3>4, <3>5, <3>6
  <2> QED BY <2>1, <2>2
<1>4. Typed'
  BY <1>1, <1>2, <1>3 DEF Inv, Typed
<1>5. Wound'
  <2>1. Cap(cell)' <=> Cap(cell)
    BY <1>2 DEF Cap
  <2> QED BY <1>1, <1>2, <2>1 DEF Wound, InTask, InCell, Between
<1>8. Labelled'
  <2>1. ASSUME NEW r \in kept' \cup ToSet(runs') \cup ToSet(points')
        PROVE  AtLabel(r)' /\ r.cell <= cell'
    <3>1. r \in kept \cup ToSet(runs) \cup ToSet(points) \/ r = run
      BY <1>2, <1>3
    <3>2. AtLabel(r) /\ r.cell <= cell
      BY <1>1, <3>1 DEF Inv, Labelled
    <3> QED BY <1>2, <3>2 DEF AtLabel, Cap
  <2> QED BY <2>1 DEF Labelled
<1>6. Kept'
  <2>1. pc # "over" /\ kept \subseteq Whole /\ earned \subseteq kept \cup Earnings
    BY <1>1 DEF Inv, Kept
  <2>2. Earnings \subseteq Earnings' /\ earned' \subseteq earned \cup Earnings'
    BY <1>3 DEF Earnings, Computable
  <2> QED BY <1>2, <2>1, <2>2 DEF Kept
<1>7. Cancelled'
  BY <1>1, <1>2 DEF Inv, Cancelled
<1> QED BY <1>4, <1>5, <1>6, <1>7, <1>8 DEF Inv

(* The finally of the suite, and the backstop between two cells            *)
LEMMA LeaveStep ==
  ASSUME Inv, Restore \/ (Backstop /\ pc = "detect")
  PROVE  Inv'
<1>1. /\ UNCHANGED <<kind, root, managed, cell, todo, run, sampling, runs, points, kept, bundle,
                     earned>>
      /\ ~ sampling /\ bundle = {} /\ pc \in {"restore", "detect"}
      /\ \/ pc' = "over" /\ exit' = "timeout" /\ cancel' = "delivered"
         \/ pc' = "rows" /\ exit' = exit /\ cancel' = cancel /\ cancel # "delivered"
      /\ exit # "timeout" \/ cancel = "delivered"
      /\ ~ root => limit' = 0
      /\ cell \in Nat /\ refused \subseteq Nat /\ restored \subseteq Nat
      /\ \A d \in refused \cup restored : d < cell
  BY DEF Restore, Backstop, Over, Raises, box, card, Inv, Typed, Wound, Cancelled, InTask, InCell
<1>2. \/ /\ UNCHANGED <<limit, refused, restored>>
         /\ limit = 0 \/ Left(cell + 1, refused, restored, managed)
      \/ refused' = refused \cup {cell} /\ restored' = restored /\ limit' = limit
      \/ /\ refused' = refused /\ restored' = restored \cup {cell}
         /\ limit' = 0 \/ (pc = "restore" /\ ~ managed /\ limit' = found)
  <2>1. CASE Restore
    <3>1. ~ root => limit = 0
      BY DEF Inv, Wound
    <3> QED BY <2>1, <3>1 DEF Restore
  <2>2. CASE Backstop /\ pc = "detect"
    BY <2>2 DEF Backstop, card, Inv, Wound, Between, Cap
  <2> QED BY <2>1, <2>2
<1>3. /\ refused' \subseteq refused \cup {cell} /\ restored' \subseteq restored \cup {cell}
      /\ refused' \subseteq Nat /\ restored' \subseteq Nat
  BY <1>1, <1>2
<1>4. Typed'
  BY <1>1, <1>3 DEF Inv, Typed
<1>5. limit' = 0 \/ Left(cell + 1, refused', restored', managed)
  <2>1. CASE UNCHANGED <<limit, refused, restored>>
             /\ (limit = 0 \/ Left(cell + 1, refused, restored, managed))
    BY <2>1
  <2>2. CASE refused' = refused \cup {cell} /\ restored' = restored
    BY <1>1, <2>2, LeftRefused
  <2>3. CASE /\ refused' = refused /\ restored' = restored \cup {cell}
             /\ pc = "restore" /\ ~ managed /\ limit' = found
    <3>1. found = 0 \/ Left(cell, refused, restored, managed)
      BY <2>3 DEF Inv, Wound, Cap, InCell
    <3> QED BY <1>1, <2>3, <3>1, LeftPreserved
  <2> QED BY <1>2, <2>1, <2>2, <2>3
<1>6. Wound'
  <2>1. \A d \in refused' \cup restored' : d <= cell'
    BY <1>1, <1>3
  <2> QED BY <1>1, <1>5, <2>1 DEF Wound, InTask, InCell, Between, Cap
<1>7. Labelled'
  <2>1. ASSUME NEW r \in kept \cup ToSet(runs) \cup ToSet(points)
        PROVE  AtLabel(r)' /\ r.cell <= cell'
    <3>1. AtLabel(r) /\ r.cell <= cell /\ r.cell \in Nat
      BY RowsAreRuns DEF Inv, Labelled
    <3>2. ASSUME Left(r.cell, refused, restored, managed)
          PROVE  Left(r.cell, refused', restored', managed)
      <4>1. /\ Left(r.cell, refused \cup {cell}, restored, managed)
            /\ Left(r.cell, refused, restored \cup {cell}, managed)
        BY <1>1, <3>1, <3>2, LeftEarlier
      <4> QED BY <1>2, <3>2, <4>1
    <3> QED BY <1>1, <3>1, <3>2 DEF AtLabel, Cap
  <2> QED BY <1>1, <2>1 DEF Labelled
<1>8. Kept'
  BY <1>1 DEF Inv, Kept, Earnings, Computable
<1>9. Cancelled'
  BY <1>1 DEF Inv, Cancelled
<1> QED BY <1>4, <1>6, <1>7, <1>8, <1>9 DEF Inv

(* The rows are those of whole tasks, and what was earned is among them    *)
LEMMA RowsOfWhole ==
  ASSUME Inv
  PROVE  /\ RowsOf(Measured) \subseteq Whole
         /\ Earnings \subseteq RowsOf(Measured)
         /\ runs = << >> => Earnings = {}
<1>1. runs \in Seq(Whole) /\ points \in Seq(Whole)
  BY DEF Inv, Typed
<1>2. ToSet(runs) \subseteq Whole /\ ToSet(points) \subseteq Whole
  BY <1>1 DEF ToSet
<1>3. runs = << >> => ToSet(runs) = {}
  BY DEF ToSet
<1>4. Measured = ToSet(runs) \cup ToSet(points)
  BY DEF Measured, ToSet, ToSet
<1> QED BY <1>2, <1>3, <1>4 DEF RowsOf, Earnings, Computable

LEMMA RowsStep ==
  ASSUME Inv, MetricsFail \/ Rows \/ Export
  PROVE  Inv'
<1>1. /\ pc \in {"rows", "export"} /\ ~ sampling
      /\ limit = 0 \/ Left(cell + 1, refused, restored, managed)
      /\ ~ root => limit = 0
      /\ refused \subseteq Nat /\ restored \subseteq Nat
      /\ \A d \in refused \cup restored : d <= cell
      /\ bundle = {} /\ cancel # "delivered" /\ exit # "timeout"
      /\ cell \in Nat /\ kept \subseteq Whole /\ earned \subseteq kept \cup Earnings
      /\ pc = "export" => earned \subseteq kept
  BY DEF MetricsFail, Rows, Export, Inv, Typed, Wound, Kept,
         Cancelled, InTask, Between, Cap
<1>2. /\ UNCHANGED <<kind, root, managed, todo, run, sampling, limit, refused, restored, runs,
                     points, cancel, earned>>
  BY DEF MetricsFail, Rows, Export, box, card
<1>3. CASE MetricsFail \/ Export
  <2>1. /\ UNCHANGED <<cell, kept>> /\ pc' = "over"
        /\ exit' \in {"escaped", "gated", "bundle"}
        /\ exit' # "escaped" => pc = "export"
    BY <1>3 DEF MetricsFail, Export, Over, box
  <2>2. Typed'
    BY <1>2, <2>1 DEF Inv, Typed
  <2>3. Wound'
    BY <1>1, <1>2, <2>1 DEF Wound, InTask, InCell, Between, Cap
  <2>7. Labelled'
    BY <1>2, <2>1, StaysLabelled DEF Inv
  <2>4. Earnings' = Earnings
    BY <1>2 DEF Earnings, Computable
  <2>5. Kept'
    BY <1>1, <1>2, <2>1, <2>4 DEF Kept
  <2>6. Cancelled'
    BY <1>1, <1>2, <2>1 DEF Cancelled
  <2> QED BY <2>2, <2>3, <2>5, <2>6, <2>7 DEF Inv
<1>4. CASE Rows
  <2> DEFINE added == IF runs = << >> THEN {} ELSE RowsOf(Measured)
  <2>1. /\ kept' = kept \cup added /\ bundle' = bundle
        /\ \/ Dead("nothing", kept)
           \/ cell' = cell + 1 /\ pc' = "detect" /\ exit' = exit
           \/ cell' = cell /\ pc' = "export" /\ exit' = exit
    BY <1>4 DEF Rows
  <2>2. added \subseteq Whole /\ Earnings \subseteq added
        /\ added \subseteq ToSet(runs) \cup ToSet(points)
    BY RowsOfWhole DEF RowsOf, Measured
  <2> HIDE DEF added
  <2>3. Typed
    BY DEF Inv
  <2>4. /\ cell' \in Nat /\ cell' \in {cell, cell + 1}
        /\ \/ pc' \in {"detect", "export"} /\ exit' = exit
           \/ pc' = "over" /\ exit' = "nothing"
        /\ pc' = "detect" => cell' = cell + 1
    BY <1>1, <2>1, <2>3, DeadEffect DEF Dead, Over
  <2>5. Typed'
    BY <1>2, <2>3, <2>4 DEF Typed
  <2>9. limit = 0 \/ Left(cell' + 1, refused, restored, managed)
    <3>1. CASE cell' = cell
      BY <1>1, <3>1
    <3>2. CASE cell' = cell + 1
      <4>1. cell + 1 \in Nat /\ \A d \in refused \cup restored : d < cell + 1
        BY <1>1
      <4> QED BY <1>1, <3>2, <4>1, LeftNow
    <3> QED BY <2>4, <3>1, <3>2
  <2>10. \A d \in refused' \cup restored' : d <= cell' /\ (pc' = "detect" => d < cell')
    BY <1>1, <1>2, <2>4
  <2>6. Wound'
    BY <1>1, <1>2, <2>4, <2>9, <2>10 DEF Wound, InTask, InCell, Between, Cap
  <2>11. Labelled'
    <3>1. ASSUME NEW r \in kept' \cup ToSet(runs) \cup ToSet(points)
          PROVE  AtLabel(r)' /\ r.cell <= cell'
      <4>1. r \in kept \cup ToSet(runs) \cup ToSet(points)
        BY <2>1, <2>2
      <4>2. AtLabel(r) /\ r.cell <= cell /\ r.cell \in Nat
        BY <4>1, RowsAreRuns DEF Inv, Labelled
      <4> QED BY <1>1, <1>2, <2>4, <4>2 DEF AtLabel, Cap
    <3> QED BY <1>2, <3>1 DEF Labelled
  <2>7. Kept'
    BY <1>1, <1>2, <2>1, <2>2 DEF Kept
  <2>8. Cancelled'
    BY <1>1, <1>2, <2>1, <2>4 DEF Cancelled
  <2> QED BY <2>5, <2>6, <2>7, <2>8, <2>11 DEF Inv
<1> QED BY <1>3, <1>4

LEMMA InvStep == Inv /\ [Next]_vars => Inv'
<1> SUFFICES ASSUME Inv, [Next]_vars PROVE Inv'
  OBVIOUS
<1>1. CASE UNCHANGED vars
  BY <1>1 DEF vars, Inv, Typed, Wound, AtLabel, Cap, Labelled, Kept, Cancelled, Earnings,
              Computable
<1>2. CASE Step
  <2>1. CASE Resolve \/ NotPulled \/ NoEngine \/ OtherWeights
    BY <2>1, FoundStep
  <2>2. CASE BeginTask \/ LoadFails \/ BeginRung \/ EndSweep
    BY <2>2, BeginStep
  <2>3. CASE ItemDone
    BY <2>3, ItemStep
  <2>4. CASE StreamFails \/ ItemRaises \/ PausePolls
    BY <2>4, AwaitStep
  <2>5. CASE Stop
    BY <2>5, StopStep
  <2>6. CASE Restore
    BY <2>6, LeaveStep
  <2>7. CASE MetricsFail \/ Rows \/ Export
    BY <2>7, RowsStep
  <2> QED BY <1>2, <2>1, <2>2, <2>3, <2>4, <2>5, <2>6, <2>7 DEF Step
<1>3. CASE Sample \/ BackstopSwallowed
  BY <1>3, MeanwhileStep
<1>4. CASE Backstop
  BY <1>4, MeanwhileStep, LeaveStep
<1> QED BY <1>1, <1>2, <1>3, <1>4 DEF Next

(* What Left says of the sets is what CapLeft says of the cells             *)
LEMMA CapIsLeft == \A c : CapLeft(c) <=> Left(c, refused, restored, managed)
BY DEF CapLeft, Left

(* _run_bench_suite and run_quick_task: however a cell ended, no sampler is  *)
(* left running, and the card is off its cap before the next cell, the rows, *)
(* the bundle or the end, unless a restoring write was refused and, on a     *)
(* card that goes back to its default, none has gone through since -- for    *)
(* any suites, items, ladders and faults.                                   *)
THEOREM SuiteUnwinds == Spec => []Unwound
<1>1. Inv => Unwound
  BY CapIsLeft DEF Inv, Wound, Unwound, InTask, Between, Cap
<1> QED BY <1>1, InvInitially, InvStep, PTL DEF Spec

(* run_quick_task and _build_run_metrics: a row is of a task that went      *)
(* through all its items, at the limit on its label from first to last      *)
(* unless it is labelled stock and its cell found a cap that an earlier one *)
(* could not put back; a row that is labelled with a cap had that cap.      *)
THEOREM SuiteRowsComplete == Spec => []RowsComplete
<1>1. Inv => RowsComplete
  BY CapIsLeft DEF Inv, Kept, Whole, Labelled, AtLabel, Cap, RowsComplete
<1> QED BY <1>1, InvInitially, InvStep, PTL DEF Spec

(* The bench commands of cli.py: a suite that was cancelled leaves nothing  *)
(* and says so; one that ends otherwise, unless by an exception that        *)
(* nothing catches, has all that its cells earned among its rows.           *)
THEOREM SuiteGivesAllOrNothing == Spec => []AllOrNothing
<1>1. Inv => AllOrNothing
  <2> SUFFICES ASSUME Inv PROVE AllOrNothing
    OBVIOUS
  <2>1. Kept /\ Cancelled
    BY DEF Inv
  <2> QED BY <2>1 DEF Kept, Cancelled, AllOrNothing
<1> QED BY <1>1, InvInitially, InvStep, PTL DEF Spec

-----------------------------------------------------------------------------
(* The bounds: a task that goes on has items left, a sweep rungs, a pause   *)
(* polls, a suite cells.                                                    *)
Places == {"detect", "begin", "stream", "fallback", "pause", "stopping", "restore", "rows",
           "export", "over"}
Control ==
  /\ kind \in Kinds /\ root \in BOOLEAN /\ rungs \in 0 .. MaxRungs /\ managed \in BOOLEAN
  /\ cell \in 1 .. Suite(kind).cells
  /\ pc \in Places
  /\ todo \in Seq({Baseline, "ifeval"})
  /\ exit \in {"none", "bundle", "gated", "nothing", "unavailable", "refused", "escaped",
             "timeout"}
  /\ faults \in 0 .. MaxFaults
  /\ cancel \in {"none", "delivered", "swallowed"}
  /\ {refused, restored} \subseteq SUBSET (1 .. Suite(kind).cells)
Running ==
  /\ run \in Run /\ sampling \in BOOLEAN
  /\ heat \in 0 .. Sustained + 2 /\ polls \in 0 .. PauseLimit
  /\ limit \in 0 .. rungs /\ found \in 0 .. rungs
  /\ pc \in {"stream", "fallback"} => run.done < Items
Books ==
  /\ runs \in Seq(Run) /\ points \in Seq(Run)
  /\ kept \subseteq Run /\ bundle \subseteq Run /\ earned \subseteq Run

LEMMA TypesAre == Control /\ Running /\ Books => TypeOK
BY DEF Control, Running, Books, TypeOK, Places

LEMMA Numbers ==
  /\ MaxRungs \in Nat /\ Sustained \in Nat /\ PauseLimit \in Nat /\ MaxFaults \in Nat
  /\ Items \in Nat /\ Items > 0
BY SuiteAssumption

LEMMA CellsOfSuite ==
  ASSUME kind \in Kinds
  PROVE  /\ Suite(kind).cells \in Nat /\ 1 \in 1 .. Suite(kind).cells
         /\ Suite(kind).sweep \in Nat
<1>1. kind \in {"quick", "calibrate", "full", "reference", "prism"}
  BY SuiteAssumption
<1> QED BY <1>1, Numbers DEF Suite, QuickSuite, CalibrateSuite, FullSuite, ReferenceSuite,
                             PrismSuite

LEMMA RunsAreStates == Run \subseteq RunState
BY Numbers DEF Run, RunState, Task

LEMMA TypesInitially == Init => Control /\ Running /\ Books
<1> SUFFICES ASSUME Init PROVE Control /\ Running /\ Books
  OBVIOUS
<1>1. Control
  BY CellsOfSuite, Numbers DEF Init, Control, Places
<1>2. Running
  <2>1. NoRun \in Run
    BY Numbers DEF NoRun, Run
  <2>2. 0 \in 0 .. rungs /\ 0 \in 0 .. PauseLimit /\ 0 \in 0 .. Sustained + 2
    BY Numbers DEF Init
  <2> QED BY <2>1, <2>2 DEF Init, Running
<1>3. Books
  BY DEF Init, Books
<1> QED BY <1>1, <1>2, <1>3

LEMMA NextCell ==
  ASSUME Control, cell < Suite(kind).cells
  PROVE  cell + 1 \in 1 .. Suite(kind).cells
BY CellsOfSuite DEF Control

LEMMA DeadStays ==
  ASSUME Control, NEW why, NEW what, Dead(why, what)
  PROVE  /\ cell' \in 1 .. Suite(kind).cells
         /\ \/ pc' \in {"detect", "export"} /\ exit' = exit
            \/ pc' = "over" /\ exit' = why
<1>1. cell \in 1 .. Suite(kind).cells
  BY DEF Control
<1> QED BY <1>1, NextCell DEF Dead, Over

LEMMA FaultsBounded ==
  ASSUME Control, Fault \/ NoFault
  PROVE  faults' \in 0 .. MaxFaults
BY Numbers DEF Control, Fault, NoFault

LEMMA Faulty == [Next]_vars => Fault \/ NoFault
BY DEF Next, Step, Resolve, NotPulled, NoEngine, OtherWeights, BeginTask, LoadFails, BeginRung,
       EndSweep, ItemDone, StreamFails, ItemRaises, PausePolls, Stop, Restore, MetricsFail, Rows,
       Export, Sample, Backstop, BackstopSwallowed, vars, NoFault

LEMMA ControlStep == Control /\ [Next]_vars => Control'
<1> SUFFICES ASSUME Control, [Next]_vars PROVE Control'
  OBVIOUS
<1>1. faults' \in 0 .. MaxFaults
  BY Faulty, FaultsBounded
<1>2. /\ kind \in Kinds /\ root \in BOOLEAN /\ rungs \in 0 .. MaxRungs /\ managed \in BOOLEAN
      /\ cell \in 1 .. Suite(kind).cells /\ pc \in Places
      /\ todo \in Seq({Baseline, "ifeval"})
      /\ exit \in {"none", "bundle", "gated", "nothing", "unavailable", "refused", "escaped",
                 "timeout"}
      /\ cancel \in {"none", "delivered", "swallowed"}
      /\ {refused, restored} \subseteq SUBSET (1 .. Suite(kind).cells)
  BY DEF Control
<1>3. UNCHANGED box
  BY DEF Next, Step, Resolve, NotPulled, NoEngine, OtherWeights, BeginTask, LoadFails, BeginRung,
         EndSweep, ItemDone, StreamFails, ItemRaises, PausePolls, Stop, Restore, MetricsFail,
         Rows, Export, Sample, Backstop, BackstopSwallowed, vars, box
<1>4. UNCHANGED <<kind, root, rungs, managed>>
  BY <1>3 DEF box
<1>s. {refused', restored'} \subseteq SUBSET (1 .. Suite(kind).cells)
  <2>1. Restore \/ UNCHANGED <<refused, restored>>
    BY DEF Next, Step, Resolve, NotPulled, NoEngine, OtherWeights, BeginTask, LoadFails,
           BeginRung, EndSweep, ItemDone, StreamFails, ItemRaises, PausePolls, Stop, MetricsFail,
           Rows, Export, Sample, Backstop, BackstopSwallowed, vars, card
  <2>2. /\ refused' \subseteq refused \cup {cell}
        /\ restored' \subseteq restored \cup {cell}
    BY <2>1 DEF Restore
  <2> QED BY <1>2, <2>2
<1>5. SUFFICES
        /\ cell' \in 1 .. Suite(kind).cells /\ pc' \in Places
        /\ todo' \in Seq({Baseline, "ifeval"})
        /\ exit' \in {"none", "bundle", "gated", "nothing", "unavailable", "refused", "escaped",
                    "timeout"}
        /\ cancel' \in {"none", "delivered", "swallowed"}
  BY <1>1, <1>2, <1>4, <1>s DEF Control
<1>6. CASE Resolve
  <2>1. Suite(kind).tasks \in Seq({Baseline, "ifeval"})
    BY <1>2, TasksOfSuite DEF Task
  <2> QED BY <1>2, <1>6, <2>1 DEF Resolve, Places
<1>7. CASE NotPulled
  BY <1>2, <1>7, DeadStays DEF NotPulled, Places
<1>8. CASE NoEngine \/ OtherWeights \/ MetricsFail \/ Export \/ Restore
  BY <1>2, <1>8 DEF NoEngine, OtherWeights, MetricsFail, Export, Restore, Over, Places
<1>9. CASE BeginTask \/ LoadFails
  <2>1. Tail(todo) \in Seq({Baseline, "ifeval"})
    BY <1>2, <1>9 DEF BeginTask, LoadFails
  <2> QED BY <1>2, <1>9, <2>1 DEF BeginTask, LoadFails, Begins, Places, books
<1>10. CASE BeginRung \/ EndSweep
  BY <1>2, <1>10 DEF BeginRung, EndSweep, Begins, Places, books
<1>11. CASE ItemDone \/ StreamFails \/ ItemRaises \/ PausePolls
  BY <1>2, <1>11 DEF ItemDone, StreamFails, ItemRaises, PausePolls, AfterItem, Raises, Places,
                     books
<1>12. CASE Stop \/ Sample \/ BackstopSwallowed
  BY <1>2, <1>12 DEF Stop, Sample, BackstopSwallowed, Places, books
<1>13. CASE Backstop
  BY <1>2, <1>13 DEF Backstop, Over, Raises, Places
<1>14. CASE Rows
  <2>1. /\ UNCHANGED <<todo, cancel>>
        /\ \/ Dead("nothing", kept)
           \/ cell < Suite(kind).cells /\ cell' = cell + 1 /\ pc' = "detect" /\ exit' = exit
           \/ cell' = cell /\ pc' = "export" /\ exit' = exit
    BY <1>14 DEF Rows
  <2> QED BY <1>2, <2>1, DeadStays, NextCell DEF Places
<1>15. CASE UNCHANGED vars
  BY <1>2, <1>15 DEF vars
<1> QED
  BY <1>6, <1>7, <1>8, <1>9, <1>10, <1>11, <1>12, <1>13, <1>14, <1>15 DEF Next, Step

LEMMA RunningStays ==
  ASSUME Control, Running, Books
  PROVE  [Next]_vars => Running'
<1> SUFFICES ASSUME [Next]_vars PROVE Running'
  OBVIOUS
<1>1. /\ run \in Run /\ run \in RunState /\ sampling \in BOOLEAN
      /\ heat \in 0 .. Sustained + 2 /\ polls \in 0 .. PauseLimit /\ limit \in 0 .. rungs
      /\ found \in 0 .. rungs
      /\ pc \in {"stream", "fallback"} => run.done < Items
      /\ rungs \in 0 .. MaxRungs /\ cell \in Nat /\ todo \in Seq({Baseline, "ifeval"})
  BY RunsAreStates, CellsOfSuite DEF Control, Running
<1>2. rungs' = rungs
  BY DEF Next, Step, Resolve, NotPulled, NoEngine, OtherWeights, BeginTask, LoadFails, BeginRung,
         EndSweep, ItemDone, StreamFails, ItemRaises, PausePolls, Stop, Restore, MetricsFail,
         Rows, Export, Sample, Backstop, BackstopSwallowed, vars, box
<1>3. 0 \in 0 .. rungs /\ 0 \in 0 .. PauseLimit /\ 0 \in 0 .. Sustained + 2
  BY <1>1, Numbers
<1>n. ~ Swept => Len(points) + 1 \in 0 .. rungs
  <2>1. Len(points) \in Nat /\ rungs \in Nat /\ Suite(kind).sweep \in Nat
    BY <1>1, CellsOfSuite, Numbers DEF Control, Books
  <2> QED BY <2>1 DEF Swept, Wanted
<1>f. found' \in 0 .. rungs
  <2>1. found' \in {found, limit}
    BY DEF Next, Step, Resolve, NotPulled, NoEngine, OtherWeights, BeginTask, LoadFails,
           BeginRung, EndSweep, ItemDone, StreamFails, ItemRaises, PausePolls, Stop, Restore,
           MetricsFail, Rows, Export, Sample, Backstop, BackstopSwallowed, vars, card
  <2> QED BY <1>1, <2>1
<1>4. CASE NoEngine \/ OtherWeights \/ Resolve \/ MetricsFail \/ Export \/ Restore
             \/ LoadFails \/ EndSweep \/ BackstopSwallowed
  <2>1. /\ UNCHANGED <<run, sampling, heat, polls>>
        /\ pc' = pc \/ pc' \notin {"stream", "fallback"}
    BY <1>4 DEF NoEngine, OtherWeights, Resolve, MetricsFail, Export, Restore, LoadFails,
                EndSweep, BackstopSwallowed, Over
  <2>2. limit' \in 0 .. rungs
    <3>1. \/ limit' \in {0, limit, found}
          \/ ~ Swept /\ limit' = Len(points) + 1
      BY <1>4 DEF NoEngine, OtherWeights, Resolve, MetricsFail, Export, Restore, LoadFails,
                  EndSweep, BackstopSwallowed, card
    <3> QED BY <1>1, <1>3, <1>n, <3>1
  <2> QED BY <1>1, <1>2, <1>f, <1>f, <2>1, <2>2 DEF Running
<1>5. CASE NotPulled \/ Rows
  <2>1. /\ UNCHANGED <<run, sampling, heat, polls, limit>>
        /\ pc' \notin {"stream", "fallback"}
    BY <1>5, DeadStays DEF NotPulled, Rows, card
  <2> QED BY <1>1, <1>2, <1>f, <2>1 DEF Running
<1>6. CASE BeginTask \/ BeginRung
  <2>1. PICK t \in Task, k \in 0 .. rungs :
          /\ run' = [NoRun EXCEPT !.cell = cell, !.task = t, !.cap = k]
          /\ limit' = k \/ limit' = limit
          /\ sampling' = TRUE /\ heat' = 0 /\ polls' = polls
    <3>1. CASE BeginTask
      <4>1. Head(todo) \in Task
        BY <1>1, <3>1 DEF BeginTask, Task
      <4> QED BY <1>3, <3>1, <4>1 DEF BeginTask, Begins, card
    <3>2. CASE BeginRung
      <4>2. Len(points) + 1 \in 0 .. rungs
        BY <1>n, <3>2 DEF BeginRung
      <4>3. Baseline \in Task
        BY DEF Task
      <4> QED BY <3>2, <4>2, <4>3 DEF BeginRung, Begins, card
    <3> QED BY <1>6, <3>1, <3>2
  <2>2. k \in Nat /\ k \in 0 .. MaxRungs
    BY <1>1, Numbers
  <2>3. run' = [cell |-> cell, task |-> t, cap |-> k, done |-> 0, tokens |-> FALSE,
                blind |-> FALSE, steady |-> TRUE, raised |-> "none"]
    BY <1>1, <2>1, <2>2, RunBegins
  <2>4. run' \in Run /\ run'.done = 0
    BY <1>1, <2>2, <2>3, Numbers DEF Run, Task
  <2> QED BY <1>1, <1>2, <1>f, <1>3, <2>1, <2>4, Numbers DEF Running
<1>7. CASE ItemDone
  <2>1. /\ UNCHANGED <<sampling, heat, limit>> /\ polls' \in {0, polls}
        /\ pc' \in {"pause", "stopping", "stream"}
        /\ pc' = "stream" => run'.done # Items
        /\ run.done < Items
    BY <1>1, <1>7 DEF ItemDone, AfterItem, card
  <2>2. run' \in Run /\ run'.done = run.done + 1
    <3> DEFINE v == run.steady /\ limit = run.cap
    <3>0. PICK t \in BOOLEAN : run' = [run EXCEPT !.done = @ + 1, !.tokens = @ \/ t,
                                                   !.steady = v]
      BY <1>7 DEF ItemDone
    <3> DEFINE u == run.tokens \/ t
    <3>1. run' = [run EXCEPT !.done = @ + 1, !.tokens = u, !.steady = v]
      BY <3>0
    <3>2. v \in BOOLEAN /\ u \in BOOLEAN
      BY <1>1 DEF Run
    <3> HIDE DEF u, v
    <3>3. run' = [cell |-> run.cell, task |-> run.task, cap |-> run.cap,
                  done |-> run.done + 1, tokens |-> u, blind |-> run.blind,
                  steady |-> v, raised |-> run.raised]
      BY <1>1, <3>1, <3>2, RunGoesOn
    <3>4. run.done + 1 \in 0 .. Items
      BY <1>1, <2>1, Numbers DEF Run
    <3>5. /\ run.cell \in Nat /\ run.task \in {Baseline, "ifeval"} /\ run.cap \in 0 .. MaxRungs
          /\ run.tokens \in BOOLEAN /\ run.blind \in BOOLEAN /\ run.steady \in BOOLEAN
          /\ run.raised \in {"none", "error", "cancelled"}
      BY <1>1 DEF Run
    <3>6. run'.done = run.done + 1
      BY <3>3
    <3>7. ASSUME NEW w \in BOOLEAN, NEW y \in BOOLEAN
          PROVE  [cell |-> run.cell, task |-> run.task, cap |-> run.cap, done |-> run.done + 1,
                  tokens |-> w, blind |-> run.blind, steady |-> y, raised |-> run.raised] \in Run
      BY <3>4, <3>5 DEF Run
    <3>8. run' \in Run
      BY <3>2, <3>3, <3>5, <3>7
    <3> QED BY <3>6, <3>8
  <2>3. pc' = "stream" => run'.done < Items
    BY <1>1, <2>1, <2>2, Numbers DEF Run
  <2> QED BY <1>1, <1>2, <1>f, <1>3, <2>1, <2>2, <2>3 DEF Running
<1>8. CASE StreamFails
  BY <1>1, <1>2, <1>f, <1>8 DEF StreamFails, Running, card
<1>9. ASSUME NEW e \in {"error", "cancelled"}, Raises(e), UNCHANGED <<sampling, heat, limit>>,
             polls' \in 0 .. PauseLimit
      PROVE  Running'
  <2>1. run' = [cell |-> run.cell, task |-> run.task, cap |-> run.cap, done |-> run.done,
                tokens |-> run.tokens, blind |-> run.blind, steady |-> run.steady, raised |-> e]
    BY <1>1, <1>9, RunRaises DEF Raises
  <2>2. run' \in Run
    BY <1>1, <2>1 DEF Run
  <2> QED BY <1>1, <1>2, <1>f, <1>9, <2>2 DEF Running, Raises
<1>10. CASE ItemRaises
  BY <1>1, <1>9, <1>10 DEF ItemRaises, card
<1>11. CASE PausePolls
  <2>1. CASE polls = PauseLimit
    BY <1>1, <1>9, <1>11, <2>1 DEF PausePolls, card
  <2>2. CASE polls # PauseLimit
    <3>1. polls + 1 \in 0 .. PauseLimit
      BY <1>1, <2>2, Numbers
    <3>2. run.done # Items => run.done < Items
      BY <1>1, Numbers DEF Run
    <3>3. /\ UNCHANGED <<run, sampling, heat, limit>> /\ polls' \in {polls, polls + 1}
          /\ pc' \in {"pause", "stopping", "stream"}
          /\ pc' = "stream" => run.done # Items
      BY <1>11, <2>2 DEF PausePolls, AfterItem, card
    <3> QED BY <1>1, <1>2, <1>f, <3>1, <3>2, <3>3 DEF Running
  <2> QED BY <2>1, <2>2
<1>12. CASE Stop
  <2>1. /\ sampling' = FALSE /\ UNCHANGED <<run, heat, polls, limit>>
        /\ pc' \in {"begin", "restore"}
    BY <1>12 DEF Stop, card
  <2> QED BY <1>1, <1>2, <1>f, <2>1 DEF Running
<1>13. CASE Sample
  <2>1. /\ UNCHANGED <<pc, sampling, polls, limit>>
        /\ heat' \in {0, heat} \/ (heat < Sustained + 2 /\ heat' = heat + 1)
        /\ run' \in {run, [run EXCEPT !.blind = TRUE]}
    BY <1>13 DEF Sample, card
  <2>2. heat' \in 0 .. Sustained + 2
    BY <1>1, <1>3, <2>1, Numbers
  <2>3. [run EXCEPT !.blind = TRUE]
          = [cell |-> run.cell, task |-> run.task, cap |-> run.cap, done |-> run.done,
             tokens |-> run.tokens, blind |-> TRUE, steady |-> run.steady, raised |-> run.raised]
    BY <1>1, RunBlinded
  <2>4. run' \in Run /\ run'.done = run.done
    BY <1>1, <2>1, <2>3 DEF Run
  <2> QED BY <1>1, <1>2, <1>f, <2>1, <2>2, <2>4 DEF Running
<1>14. CASE Backstop
  <2>1. \/ UNCHANGED run /\ pc' = "over"
        \/ Raises("cancelled")
    BY <1>14 DEF Backstop, Over
  <2>2. UNCHANGED <<sampling, heat, polls, limit>>
    BY <1>14 DEF Backstop, card
  <2> QED BY <1>1, <1>2, <1>f, <1>9, <2>1, <2>2 DEF Running
<1>15. CASE UNCHANGED vars
  BY <1>1, <1>2, <1>f, <1>15 DEF vars, Running
<1> QED
  BY <1>4, <1>5, <1>6, <1>7, <1>8, <1>10, <1>11, <1>12, <1>13, <1>14, <1>15 DEF Next, Step

LEMMA BooksStep == Running /\ Books /\ [Next]_vars => Books'
<1> SUFFICES ASSUME Running, Books, [Next]_vars PROVE Books'
  OBVIOUS
<1>1. /\ run \in Run /\ runs \in Seq(Run) /\ points \in Seq(Run)
      /\ kept \subseteq Run /\ bundle \subseteq Run /\ earned \subseteq Run
      /\ << >> \in Seq(Run)
  BY DEF Running, Books
<1>2. CASE UNCHANGED books
  BY <1>1, <1>2 DEF books, Books
<1>3. CASE Resolve
  BY <1>1, <1>3 DEF Resolve, Books
<1>4. CASE NotPulled \/ NoEngine \/ OtherWeights \/ Restore \/ MetricsFail \/ Backstop
             \/ BackstopSwallowed
  BY <1>1, <1>4 DEF NotPulled, NoEngine, OtherWeights, Restore, MetricsFail, Backstop,
                    BackstopSwallowed, Books
<1>5. CASE Stop
  <2>1. Append(runs, run) \in Seq(Run) /\ Append(points, run) \in Seq(Run)
    BY <1>1
  <2>2. /\ runs' \in {runs, Append(runs, run)}
        /\ points' \in {points, Append(points, run), << >>}
        /\ earned' \in {earned, earned \cup {run}}
        /\ UNCHANGED <<kept, bundle>>
    BY <1>5 DEF Stop
  <2> QED BY <1>1, <2>1, <2>2 DEF Books
<1>6. CASE Rows
  <2>1. ToSet(runs) \subseteq Run /\ ToSet(points) \subseteq Run
    BY <1>1 DEF ToSet
  <2>2. RowsOf(Measured) \subseteq Run
    BY <2>1 DEF RowsOf, Measured
  <2>3. /\ kept' = kept \cup (IF runs = << >> THEN {} ELSE RowsOf(Measured))
        /\ UNCHANGED <<runs, points, bundle, earned>>
    BY <1>6 DEF Rows
  <2> QED BY <1>1, <2>2, <2>3 DEF Books
<1>7. CASE Export
  BY <1>1, <1>7 DEF Export, Books
<1>8. [Next]_vars => UNCHANGED books \/ Resolve \/ Stop \/ Rows \/ Export \/ NotPulled \/ NoEngine
        \/ OtherWeights \/ Restore \/ MetricsFail \/ Backstop \/ BackstopSwallowed
  BY DEF Next, Step, BeginTask, LoadFails, BeginRung, EndSweep, ItemDone, StreamFails,
         ItemRaises, PausePolls, Sample, vars, books
<1> QED BY <1>2, <1>3, <1>4, <1>5, <1>6, <1>7, <1>8

(* run_quick: the state of a suite stays within its types; no task does     *)
(* more items, no sweep more rungs, no pause more polls than it has.        *)
THEOREM TypeCorrect == Spec => []TypeOK
<1>1. Control /\ Running /\ Books /\ [Next]_vars => (Control /\ Running /\ Books)'
  BY ControlStep, RunningStays, BooksStep
<1> QED BY <1>1, TypesInitially, TypesAre, PTL DEF Spec
=============================================================================
