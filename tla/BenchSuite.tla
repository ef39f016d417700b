----------------------------- MODULE BenchSuite -----------------------------
(***************************************************************************)
(* The benchmark suites (bench/quick.py, bench/reference.py, prism.py and  *)
(* the bench commands of cli.py): cells of tasks of items, each task with  *)
(* a sampler of its own, then a sweep over capped points, then the limit   *)
(* put back in a finally, then rows and a bundle.  A backstop cancels the  *)
(* whole at whatever it awaits; a card that protects itself pauses it.     *)
(*                                                                         *)
(* One step is one await of the suite.  The write that puts the limit back *)
(* is best-effort: refused, it leaves a cap for the next cell of a tier.   *)
(* Stock is the limit before the first cell; PowerLimit is about limits    *)
(* that a card has when the suite meets it, and about who else sets them.  *)
(***************************************************************************)
EXTENDS Integers, Sequences, SequencesExt, FiniteSets

CONSTANTS
  Kinds,       \* the suites that are run
  Items,       \* items of a task
  MaxRungs,    \* length of the longest power ladder a card may have
  Sustained,   \* throttled samples, less two, after which an item loop pauses
  PauseLimit,  \* polls of one pause
  MaxFaults    \* bound on what goes wrong

ASSUME SuiteAssumption ==
  /\ Kinds \subseteq {"quick", "calibrate", "full", "reference", "prism"}
  /\ {MaxRungs, Sustained, PauseLimit, MaxFaults} \subseteq Nat
  /\ Items \in Nat \ {0}

(* tasks: the first is the one a sweep repeats; sweep: capped points        *)
(* wanted; cells: one for each model; tier: a dead cell does not end the    *)
(* suite                                                                    *)
Baseline == "gsm8k_platinum"
QuickSuite == [tasks |-> <<Baseline, "ifeval">>, sweep |-> MaxRungs, cells |-> 1, tier |-> FALSE]
CalibrateSuite == [tasks |-> <<Baseline>>, sweep |-> 1, cells |-> 1, tier |-> FALSE]
FullSuite == [tasks |-> <<Baseline>>, sweep |-> MaxRungs, cells |-> 2, tier |-> TRUE]
ReferenceSuite == [tasks |-> <<Baseline>>, sweep |-> 0, cells |-> 1, tier |-> FALSE]
PrismSuite == [tasks |-> <<Baseline, "ifeval">>, sweep |-> 0, cells |-> 1, tier |-> FALSE]
Suite(kind) ==
  CASE kind = "quick" -> QuickSuite
    [] kind = "calibrate" -> CalibrateSuite
    [] kind = "full" -> FullSuite
    [] kind = "reference" -> ReferenceSuite
    [] kind = "prism" -> PrismSuite

VARIABLES
  kind,
  root, rungs,   \* whether the limit may be set, and how many points lie below stock
  managed,       \* restore_to_factory_default, of a card that tells its default
  cell,          \* the cell under way
  pc,
  todo,          \* its tasks not begun
  run,           \* the task under way
  sampling,      \* the sampler's background task runs
  heat,          \* trailing throttled samples of its trace
  polls,         \* of the pause under way
  limit,         \* 0 is stock, k the k-th rung
  found,         \* the limit the cell found
  runs, points,  \* task_runs, and the points of the sweep
  kept,          \* the set of rows of this and of earlier cells
  bundle, exit,
  faults,
  (* observation only *)
  cancel,        \* what became of the cancellation by the backstop
  earned,        \* uncapped runs that were measured and can be computed
  refused,       \* the cells whose restoring write did not go through
  restored       \* the cells whose restoring write did

vars == <<kind, root, rungs, managed, cell, pc, todo, run, sampling, heat, polls, limit, found,
          runs, points, kept, bundle, exit, faults, cancel, earned, refused, restored>>

box == <<kind, root, rungs, managed>>
card == <<limit, found, refused, restored>>
books == <<runs, points, kept, bundle, exit, earned>>

(* blind: a sample of it has no power reading; steady: the limit was the    *)
(* one on the label at every item; raised: how its loop ended               *)
Run == [cell : Nat, task : {Baseline, "ifeval"}, cap : 0 .. MaxRungs,
        done : 0 .. Items, tokens : BOOLEAN, blind : BOOLEAN, steady : BOOLEAN,
        raised : {"none", "error", "cancelled"}]
NoRun == [cell |-> 0, task |-> Baseline, cap |-> 0, done |-> 0,
          tokens |-> FALSE, blind |-> FALSE, steady |-> TRUE, raised |-> "none"]

TypeOK ==
  /\ kind \in Kinds /\ root \in BOOLEAN /\ rungs \in 0 .. MaxRungs /\ managed \in BOOLEAN
  /\ cell \in 1 .. Suite(kind).cells
  /\ pc \in {"detect", "begin", "stream", "fallback", "pause", "stopping", "restore", "rows",
             "export", "over"}
  /\ todo \in Seq({Baseline, "ifeval"})
  /\ run \in Run /\ sampling \in BOOLEAN
  /\ heat \in 0 .. Sustained + 2 /\ polls \in 0 .. PauseLimit
  /\ limit \in 0 .. rungs /\ found \in 0 .. rungs
  /\ {runs, points} \subseteq Seq(Run) /\ {kept, bundle, earned} \subseteq SUBSET Run
  /\ exit \in {"none", "bundle", "gated", "nothing", "unavailable", "refused", "escaped",
             "timeout"}
  /\ faults \in 0 .. MaxFaults
  /\ cancel \in {"none", "delivered", "swallowed"}
  /\ {refused, restored} \subseteq SUBSET (1 .. Suite(kind).cells)

Init ==
  /\ kind \in Kinds /\ root \in BOOLEAN /\ rungs \in 0 .. MaxRungs /\ managed \in BOOLEAN
  /\ cell = 1 /\ pc = "detect" /\ todo = <<>> /\ run = NoRun
  /\ sampling = FALSE /\ heat = 0 /\ polls = 0
  /\ limit = 0 /\ found = 0 /\ refused = {} /\ restored = {}
  /\ runs = <<>> /\ points = <<>> /\ kept = {} /\ bundle = {} /\ exit = "none"
  /\ faults = 0 /\ cancel = "none" /\ earned = {}

Fault == faults < MaxFaults /\ faults' = faults + 1
NoFault == UNCHANGED faults

Over(how) == pc' = "over" /\ exit' = how

-----------------------------------------------------------------------------
(* detect_engine, resolve_quick_model, gpu_info, version: an engine with    *)
(* the model and a card to measure; its limit is read before it is changed  *)
Resolve ==
  /\ pc = "detect" /\ NoFault
  /\ pc' = "begin" /\ todo' = Suite(kind).tasks /\ runs' = <<>> /\ points' = <<>>
  /\ found' = limit
  /\ UNCHANGED <<box, cell, run, sampling, heat, polls, limit, refused, restored, kept, bundle,
                 exit, cancel, earned>>

(* Dead: the cell has measured nothing.  A tier goes on to its next cell,   *)
(* and writes its bundle from what the others have measured.                *)
Dead(why, rows) ==
  IF Suite(kind).tier /\ cell < Suite(kind).cells
    THEN cell' = cell + 1 /\ pc' = "detect" /\ UNCHANGED exit
  ELSE /\ UNCHANGED cell
       /\ IF Suite(kind).tier /\ rows # {} THEN pc' = "export" /\ UNCHANGED exit ELSE Over(why)

(* ModelNotAvailableError *)
NotPulled ==
  /\ pc = "detect" /\ Fault
  /\ Dead("unavailable", kept)
  /\ UNCHANGED <<box, todo, run, sampling, heat, polls, card, runs, points, kept, bundle,
                 cancel, earned>>

(* NoEngineDetectedError, no card, an engine that stops answering: no suite *)
(* catches it, a tier neither                                               *)
NoEngine ==
  /\ pc = "detect" /\ Fault
  /\ Over("escaped")
  /\ UNCHANGED <<box, cell, todo, run, sampling, heat, polls, card, runs, points, kept, bundle,
                 cancel, earned>>

(* What is served is none of the weights the suite is pinned to: refused     *)
OtherWeights ==
  /\ pc = "detect" /\ kind \in {"reference", "prism"} /\ Fault
  /\ Over("refused")
  /\ UNCHANGED <<box, cell, todo, run, sampling, heat, polls, card, runs, points, kept, bundle,
                 cancel, earned>>

(* run_quick_task, up to its first request *)
Begins(task, cap) ==
  /\ run' = [NoRun EXCEPT !.cell = cell, !.task = task, !.cap = cap]
  /\ sampling' = TRUE /\ heat' = 0 /\ pc' = "stream"

BeginTask ==
  /\ pc = "begin" /\ todo # <<>> /\ NoFault
  /\ Begins(Head(todo), 0)
  /\ todo' = Tail(todo)
  /\ UNCHANGED <<box, cell, polls, card, books, cancel>>

(* The dataset cannot be loaded: the sampler has not been started yet *)
LoadFails ==
  /\ pc = "begin" /\ todo # <<>> /\ Fault
  /\ todo' = Tail(todo)
  /\ UNCHANGED <<box, cell, pc, run, sampling, heat, polls, card, books, cancel>>

HasBaseline == \E i \in DOMAIN runs : runs[i].task = Baseline
Wanted == IF rungs < Suite(kind).sweep THEN rungs ELSE Suite(kind).sweep
Swept == ~HasBaseline \/ Len(points) >= Wanted

(* run_power_sweep: the next cap is set and confirmed, and the task of the   *)
(* baseline is run again                                                    *)
BeginRung ==
  /\ pc = "begin" /\ todo = <<>> /\ ~Swept /\ root /\ NoFault
  /\ limit' = Len(points) + 1
  /\ Begins(Baseline, limit')
  /\ UNCHANGED <<box, cell, todo, polls, found, refused, restored, books, cancel>>

(* Nothing more to sweep, or a cap that is not confirmed, which may be on   *)
(* the card or not: what was measured stays                                 *)
EndSweep ==
  /\ pc = "begin" /\ todo = <<>>
  /\ \/ (Swept \/ ~root) /\ NoFault /\ UNCHANGED limit
     \/ ~Swept /\ root /\ Fault /\ limit' \in {limit, Len(points) + 1}
  /\ pc' = "restore"
  /\ UNCHANGED <<box, cell, todo, run, sampling, heat, polls, found, refused, restored, books,
                 cancel>>

-----------------------------------------------------------------------------
(* After an item: the next one, or the end of the loop *)
AfterItem(r) == pc' = IF r.done = Items THEN "stopping" ELSE "stream"
Raises(e) == run' = [run EXCEPT !.raised = e] /\ pc' = "stopping"

(* An item is answered and scored, with or without completion tokens; if    *)
(* the card has been throttling for long, the loop pauses                   *)
ItemDone ==
  /\ pc \in {"stream", "fallback"}
  /\ \E tokens \in BOOLEAN :
       /\ IF tokens THEN NoFault ELSE Fault
       /\ run' = [run EXCEPT !.done = @ + 1, !.tokens = @ \/ tokens,
                             !.steady = @ /\ limit = run.cap]
  /\ IF heat - 1 > Sustained THEN pc' = "pause" /\ polls' = 0
                             ELSE AfterItem(run') /\ UNCHANGED polls
  /\ UNCHANGED <<box, cell, todo, sampling, heat, card, books, cancel>>

(* The stream is not available or times out: once more, not streamed *)
StreamFails ==
  /\ pc = "stream" /\ Fault
  /\ pc' = "fallback"
  /\ UNCHANGED <<box, cell, todo, run, sampling, heat, polls, card, books, cancel>>

(* Anything else, in the request, in the score, or in the second request *)
ItemRaises ==
  /\ pc \in {"stream", "fallback"} /\ Fault
  /\ Raises("error")
  /\ UNCHANGED <<box, cell, todo, sampling, heat, polls, card, books, cancel>>

(* Mutant: the time of a pause is not looked at *)
PausePollsOn ==
  /\ pc = "pause" /\ NoFault
  /\ IF heat <= 1 THEN AfterItem(run) ELSE UNCHANGED pc
  /\ UNCHANGED <<box, cell, todo, run, sampling, heat, polls, card, books, cancel>>

(* maybe_pause_for_thermal_throttle: a poll finds the card cool, or hot, or *)
(* the time for it is up and the task is aborted                            *)
PausePolls ==
  /\ pc = "pause" /\ NoFault
  /\ IF polls = PauseLimit THEN Raises("error") /\ UNCHANGED polls
     ELSE /\ UNCHANGED run
          /\ IF heat <= 1 THEN AfterItem(run) /\ UNCHANGED polls
                          ELSE polls' = polls + 1 /\ UNCHANGED pc
  /\ UNCHANGED <<box, cell, todo, sampling, heat, card, books, cancel>>

(* The sampler's tick: a throttled sample, a cool or unread one, or one      *)
(* whose power could not be read                                            *)
Sample ==
  /\ sampling
  /\ \/ heat' = (IF heat < Sustained + 2 THEN heat + 1 ELSE heat) /\ NoFault /\ UNCHANGED run
     \/ heat' = 0 /\ NoFault /\ UNCHANGED run
     \/ Fault /\ run' = [run EXCEPT !.blind = TRUE] /\ UNCHANGED heat
  /\ UNCHANGED <<box, cell, pc, todo, sampling, polls, card, books, cancel>>

Computable(r) == r.tokens /\ ~r.blind

(* Mutant: a task that fails is kept with what it has measured *)
StopKeeps ==
  /\ pc = "stopping" /\ NoFault
  /\ sampling' = FALSE
  /\ pc' = IF run.raised = "cancelled" THEN "restore" ELSE "begin"
  /\ runs' = IF run.cap = 0 THEN Append(runs, run) ELSE runs
  /\ points' = IF run.cap = 0 THEN points ELSE Append(points, run)
  /\ earned' = IF run.cap = 0 /\ Computable(run) THEN earned \cup {run} ELSE earned
  /\ UNCHANGED <<box, cell, todo, run, heat, polls, card, kept, bundle, exit, cancel>>

(* The finally of a task: the sampler has ended and its trace is taken.  A   *)
(* task that raised is dropped; in a sweep it takes the points with it.      *)
Stop ==
  /\ pc = "stopping" /\ NoFault
  /\ sampling' = FALSE
  /\ IF run.raised = "none"
       THEN /\ pc' = "begin"
            /\ runs' = IF run.cap = 0 THEN Append(runs, run) ELSE runs
            /\ points' = IF run.cap = 0 THEN points ELSE Append(points, run)
            /\ earned' = IF run.cap = 0 /\ Computable(run) THEN earned \cup {run} ELSE earned
     ELSE IF run.raised = "error" /\ run.cap = 0
       THEN pc' = "begin" /\ UNCHANGED <<runs, points, earned>>
     ELSE pc' = "restore" /\ points' = <<>> /\ UNCHANGED <<runs, earned>>
  /\ UNCHANGED <<box, cell, todo, run, heat, polls, card, kept, bundle, exit, cancel>>

-----------------------------------------------------------------------------
(* The backstop cancels the suite at what it awaits *)
Backstop ==
  /\ cancel = "none" /\ cancel' = "delivered" /\ NoFault
  /\ \/ pc = "detect" /\ Over("timeout") /\ UNCHANGED run
     \/ pc \in {"stream", "fallback", "pause"} /\ Raises("cancelled") /\ UNCHANGED exit
  /\ UNCHANGED <<box, cell, todo, sampling, heat, polls, card, runs, points, kept, bundle, earned>>

(* While stop() awaits the sampler it has itself cancelled, it takes the     *)
(* cancellation of the suite for the sampler's and goes on                  *)
BackstopSwallowed ==
  /\ pc = "stopping" /\ cancel = "none" /\ cancel' = "swallowed" /\ NoFault
  /\ UNCHANGED <<box, cell, pc, todo, run, sampling, heat, polls, card, runs, points, kept,
                 bundle, exit, earned>>

(* Mutant: what is put back is put back on the way out that nothing cut short *)
RestoreWhenDone ==
  /\ pc = "restore" /\ NoFault
  /\ IF cancel # "delivered" /\ root
       THEN limit' = (IF managed THEN 0 ELSE found) /\ restored' = restored \cup {cell}
       ELSE UNCHANGED <<limit, restored>>
  /\ IF cancel = "delivered" THEN Over("timeout") ELSE pc' = "rows" /\ UNCHANGED exit
  /\ UNCHANGED <<box, cell, todo, run, sampling, heat, polls, found, refused, runs, points, kept,
                 bundle, cancel, earned>>

(* The finally of the suite, then its end or the rest of it.  The write      *)
(* that puts the limit back may be refused, or have nothing to put back      *)
(* where neither limit could be read, and nobody looks; who may not set the  *)
(* limit has set none.                                                      *)
Restore ==
  /\ pc = "restore"
  /\ \/ /\ root /\ NoFault
        /\ limit' = IF managed THEN 0 ELSE found
        /\ restored' = restored \cup {cell} /\ UNCHANGED refused
     \/ root /\ Fault /\ refused' = refused \cup {cell} /\ UNCHANGED <<limit, restored>>
     \/ ~root /\ NoFault /\ UNCHANGED <<limit, refused, restored>>
  /\ IF cancel = "delivered" THEN Over("timeout") ELSE pc' = "rows" /\ UNCHANGED exit
  /\ UNCHANGED <<box, cell, todo, run, sampling, heat, polls, found, runs, points, kept, bundle,
                 cancel, earned>>

Measured == ToSet(runs) \cup ToSet(points)
RowsOf(measured) == {r \in measured : r.tokens}

(* _build_run_metrics for each run: one without tokens has no row, one with  *)
(* a sample without power raises and nothing catches it                      *)
MetricsFail ==
  /\ pc = "rows" /\ NoFault
  /\ runs # <<>> /\ \E r \in Measured : r.tokens /\ r.blind
  /\ Over("escaped")
  /\ UNCHANGED <<box, cell, todo, run, sampling, heat, polls, card, runs, points, kept, bundle,
                 cancel, earned>>

(* Mutant: the rows of a tier are those of its last cell *)
RowsOfLast ==
  /\ pc = "rows" /\ NoFault
  /\ \A r \in Measured : ~(r.tokens /\ r.blind)
  /\ kept' = RowsOf(Measured)
  /\ Dead("nothing", kept')
  /\ UNCHANGED <<box, todo, run, sampling, heat, polls, card, runs, points, bundle, cancel, earned>>

Rows ==
  /\ pc = "rows" /\ NoFault
  /\ \A r \in Measured : runs = <<>> \/ ~(r.tokens /\ r.blind)
  /\ LET rows == IF runs = <<>> THEN {} ELSE RowsOf(Measured)
     IN  /\ kept' = kept \cup rows
         /\ IF rows = {} THEN Dead("nothing", kept)
            ELSE IF cell < Suite(kind).cells
              THEN cell' = cell + 1 /\ pc' = "detect" /\ UNCHANGED exit
            ELSE pc' = "export" /\ UNCHANGED <<cell, exit>>
  /\ UNCHANGED <<box, todo, run, sampling, heat, polls, card, runs, points, bundle, cancel, earned>>

(* _run_bench_suite_cli: artifacts for every row, a bundle of those the      *)
(* gate lets through                                                        *)
Export ==
  /\ pc = "export" /\ NoFault
  /\ \E through \in SUBSET kept :
       /\ bundle' = through
       /\ Over(IF through = {} THEN "gated" ELSE "bundle")
  /\ UNCHANGED <<box, cell, todo, run, sampling, heat, polls, card, runs, points, kept,
                 cancel, earned>>

Step ==
  \/ Resolve \/ NotPulled \/ NoEngine \/ OtherWeights \/ BeginTask \/ LoadFails \/ BeginRung \/ EndSweep
  \/ ItemDone \/ StreamFails \/ ItemRaises \/ PausePolls \/ Stop
  \/ Restore \/ MetricsFail \/ Rows \/ Export

Next == Step \/ Sample \/ Backstop \/ BackstopSwallowed

Spec == Init /\ [][Next]_vars

(* Every request is answered or times out, and polls follow on each other.  *)
(* Nothing is assumed of the card: it may stay hot.                         *)
FairSpec == Spec /\ WF_vars(Step)
-----------------------------------------------------------------------------
(* A cell may find a cap where the restoring write of an earlier one did     *)
(* not go through and, where the card goes back to its default, none has     *)
(* since.  One that preserves what it found puts such a cap back.           *)
CapLeft(c) ==
  \E d \in refused : d < c /\ (managed => \A e \in restored : e < d \/ c <= e)

(* However a cell ended -- a task or a point that failed, an abort for heat, *)
(* the backstop at any await -- no sampler is left running, and the card is  *)
(* off its cap before anything else happens unless the write to put it back  *)
(* was refused; the next write that goes through then makes up for it, on a  *)
(* card that goes back to its default.                                      *)
Unwound ==
  pc \in {"detect", "rows", "export", "over"} => ~sampling /\ (limit # 0 => CapLeft(cell + 1))

(* A row is of a task that went through all its items, at the limit on its   *)
(* label from the first to the last; what failed or was aborted half way is  *)
(* no row.  The one exception is a row labelled stock of a cell that found   *)
(* a cap: nothing that the sweep labels with a cap is of another limit.     *)
RowsComplete ==
  \A r \in kept :
    /\ r.done = Items /\ r.raised = "none"
    /\ r.steady \/ (r.cap = 0 /\ CapLeft(r.cell))

(* A suite ends in one of two ways, or by an exception that nothing catches. *)
(* Cancelled it leaves nothing and says so; otherwise everything that its     *)
(* cells have measured is among the rows, whatever failed after it.          *)
AllOrNothing ==
  /\ bundle # {} => cancel # "delivered"
  /\ pc = "over" =>
       IF cancel = "delivered" THEN exit = "timeout"
       ELSE /\ exit # "timeout"
            /\ exit # "escaped" => earned \subseteq kept

(* The suite ends by itself: a card that never cools aborts its tasks one by *)
(* one and does not hold the suite.                                         *)
SuiteEnds == <>(pc = "over")
=============================================================================
