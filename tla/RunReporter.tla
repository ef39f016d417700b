---------------------------- MODULE RunReporter ----------------------------
(***************************************************************************)
(* Store-and-forward reporting (reporter.py over spool.py): a finished run *)
(* is pushed live, its trace in batches after it; a push that fails in any *)
(* way puts the whole report at the tail of the SQLite spool, and a drain  *)
(* replays the spool head first until a push fails.                        *)
(*                                                                         *)
(* One step is one wire call or one SQLite commit.  A call may take effect *)
(* upstream and still look failed here: its answer was lost, or carried no *)
(* server id; and a redirect, which is not followed, is taken for success. *)
(* Several processes may share the spool file (a daemon and an overlapping *)
(* --once); each is single-threaded.                                       *)
(***************************************************************************)
EXTENDS Integers, Sequences, SequencesExt, FiniteSets

CONSTANTS
  Report,      \* run reports, one per run_id
  Rejected,    \* those the API answers with an HTTP error, always
  Proc,        \* processes over one spool file
  Batches,     \* requests a trace is split into (SAMPLE_BATCH_SIZE each)
  MaxFails,    \* bound on the calls that fail or are redirected
  MaxCrashes   \* bound on the processes killed while reporting or draining

ASSUME RejectedAssumption == Rejected \subseteq Report
ASSUME ProcAssumption == IsFiniteSet(Proc)
ASSUME BatchesAssumption == Batches \in Nat
ASSUME LimitsAssumption == MaxFails \in Nat /\ MaxCrashes \in Nat

VARIABLES
  todo,        \* runs that have not finished yet
  spool,       \* the spool table, oldest first
  op,          \* what each process is doing
  rows,        \* run rows upstream, idempotent by (controller_id, run_id)
  trace,       \* how often each batch was taken for appended, or was
  redirected,  \* how often of these a redirect was taken for it
  fails, crashes,
  (* observation only *)
  lost,        \* reports that died with the process that held them
  abandoned    \* pushes of a report given up after a batch was taken

vars == <<todo, spool, op, rows, trace, redirected, fails, crashes, lost, abandoned>>

Kinds == {"idle", "live", "enqueue", "drain"}
Batch == 1 .. Batches

(* items: the reports still to be pushed, the current one first; sent: -1  *)
(* before the run push is answered, then the batches answered; landed: a   *)
(* batch of the current push was taken                                     *)
Idle == [kind |-> "idle", items |-> <<>>, sent |-> -1, landed |-> FALSE]

TypeOK ==
  /\ todo \subseteq Report
  /\ spool \in Seq(Report)
  /\ op \in [Proc -> [kind : Kinds, items : Seq(Report), sent : -1 .. Batches,
                      landed : BOOLEAN]]
  /\ rows \subseteq Report
  /\ trace \in [Report -> [Batch -> Nat]]
  /\ redirected \in [Report -> [Batch -> Nat]]
  /\ \A r \in Report : \A b \in Batch : redirected[r][b] <= trace[r][b]
  /\ fails \in Nat /\ crashes \in Nat
  /\ lost \subseteq Report
  /\ abandoned \in [Report -> Nat]

Current(p) == Head(op[p].items)
Pushing(p) == op[p].kind \in {"live", "drain"}
SpoolSet == {spool[i] : i \in 1 .. Len(spool)}

Appended(r, b) == trace[r][b] - redirected[r][b]

(* The run row and its whole trace are upstream, but for batches that a    *)
(* redirect was the answer to                                              *)
Complete(r) ==
  r \in rows /\ \A b \in Batch : Appended(r, b) > 0 \/ redirected[r][b] > 0

(* Reports whose only copy is in the memory of a process *)
InHand == {Current(p) : p \in {q \in Proc : op[q].kind \in {"live", "enqueue"}}}

-----------------------------------------------------------------------------
Init ==
  /\ todo = Report /\ spool = <<>> /\ op = [p \in Proc |-> Idle]
  /\ rows = {} /\ trace = [r \in Report |-> [b \in Batch |-> 0]]
  /\ redirected = trace
  /\ fails = 0 /\ crashes = 0
  /\ lost = {} /\ abandoned = [r \in Report |-> 0]

(* report_run is called for a run that has just finished *)
ReportRun(p) ==
  /\ op[p].kind = "idle"
  /\ \E r \in todo :
       /\ op' = [op EXCEPT ![p] = [Idle EXCEPT !.kind = "live", !.items = <<r>>]]
       /\ todo' = todo \ {r}
  /\ UNCHANGED <<spool, rows, trace, redirected, fails, crashes, lost, abandoned>>

(* Mutant: the queue is only worked on while runs keep coming *)
BeginDrainWithRuns(p) ==
  /\ op[p].kind = "idle" /\ spool # <<>> /\ todo # {}
  /\ op' = [op EXCEPT ![p] = [Idle EXCEPT !.kind = "drain", !.items = spool]]
  /\ UNCHANGED <<todo, spool, rows, trace, redirected, fails, crashes, lost, abandoned>>

(* drain_spool reads the whole queue once, then works from that list *)
BeginDrain(p) ==
  /\ op[p].kind = "idle" /\ spool # <<>>
  /\ op' = [op EXCEPT ![p] = [Idle EXCEPT !.kind = "drain", !.items = spool]]
  /\ UNCHANGED <<todo, spool, rows, trace, redirected, fails, crashes, lost, abandoned>>

(* Mutants: a failed live push is dropped; a drain goes on behind a failure *)
GiveUpDrops(p, landed) ==
  /\ op' = [op EXCEPT ![p] = Idle]
  /\ abandoned' = [abandoned EXCEPT ![Current(p)] = @ + (IF landed THEN 1 ELSE 0)]
GiveUpMovesOn(p, landed) ==
  /\ op' = [op EXCEPT ![p] =
       IF op[p].kind = "live" THEN [op[p] EXCEPT !.kind = "enqueue"]
       ELSE IF Len(op[p].items) = 1 THEN Idle
       ELSE [Idle EXCEPT !.kind = "drain", !.items = Tail(op[p].items)]]
  /\ abandoned' = [abandoned EXCEPT ![Current(p)] = @ + (IF landed THEN 1 ELSE 0)]

(* _push_bundle gives up: report_run goes on to spool the report, a drain  *)
(* stops where it is                                                       *)
GiveUp(p, landed) ==
  /\ op' = [op EXCEPT ![p] =
       IF op[p].kind = "live" THEN [op[p] EXCEPT !.kind = "enqueue"] ELSE Idle]
  /\ abandoned' = [abandoned EXCEPT ![Current(p)] = @ + (IF landed THEN 1 ELSE 0)]

Fails == fails < MaxFails /\ fails' = fails + 1

PushRunOk(p) ==
  /\ Pushing(p) /\ op[p].sent = -1 /\ Current(p) \notin Rejected
  /\ rows' = rows \cup {Current(p)}
  /\ op' = [op EXCEPT ![p].sent = 0]
  /\ UNCHANGED <<todo, spool, trace, redirected, fails, crashes, lost, abandoned>>

(* Unreachable, timed out, an HTTP error, or a 2xx or 3xx without an id;   *)
(* the row may have been written all the same                              *)
PushRunFails(p) ==
  /\ Pushing(p) /\ op[p].sent = -1 /\ Fails
  /\ rows' \in {rows} \cup {rows \cup ({Current(p)} \ Rejected)}
  /\ GiveUp(p, FALSE)
  /\ UNCHANGED <<todo, spool, trace, redirected, crashes, lost>>

PushRunRejected(p) ==
  /\ Pushing(p) /\ op[p].sent = -1 /\ Current(p) \in Rejected
  /\ GiveUp(p, FALSE)
  /\ UNCHANGED <<todo, spool, rows, trace, redirected, fails, crashes, lost>>

(* The samples endpoint appends: it is not idempotent *)
AppendBatch(p) ==
  trace' = [trace EXCEPT ![Current(p)][op[p].sent + 1] = @ + 1]

(* Any answer below 400 will do; a redirect is one, and appends nothing *)
Redirect(p) ==
  Fails /\ redirected' = [redirected EXCEPT ![Current(p)][op[p].sent + 1] = @ + 1]

PushSamplesOk(p) ==
  /\ Pushing(p) /\ op[p].sent \in 0 .. Batches - 1
  /\ AppendBatch(p)
  /\ UNCHANGED <<redirected, fails>> \/ Redirect(p)
  /\ op' = [op EXCEPT ![p].sent = @ + 1, ![p].landed = TRUE]
  /\ UNCHANGED <<todo, spool, rows, crashes, lost, abandoned>>

(* Mutants: a failed batch is tried again at once; it is left out *)
PushSamplesRetries(p) ==
  /\ Pushing(p) /\ op[p].sent \in 0 .. Batches - 1 /\ Fails
  /\ AppendBatch(p) \/ UNCHANGED trace
  /\ UNCHANGED <<todo, spool, op, rows, redirected, crashes, lost, abandoned>>
PushSamplesSkips(p) ==
  /\ Pushing(p) /\ op[p].sent \in 0 .. Batches - 1 /\ Fails
  /\ op' = [op EXCEPT ![p].sent = @ + 1]
  /\ UNCHANGED <<todo, spool, rows, trace, redirected, crashes, lost, abandoned>>

PushSamplesFails(p) ==
  /\ Pushing(p) /\ op[p].sent \in 0 .. Batches - 1 /\ Fails
  /\ \/ AppendBatch(p) /\ GiveUp(p, TRUE)
     \/ UNCHANGED trace /\ GiveUp(p, op[p].landed)
  /\ UNCHANGED <<todo, spool, rows, redirected, crashes, lost>>

(* report_run is done: the run and its trace are upstream *)
FinishLive(p) ==
  /\ op[p].kind = "live" /\ op[p].sent = Batches
  /\ op' = [op EXCEPT ![p] = Idle]
  /\ UNCHANGED <<todo, spool, rows, trace, redirected, fails, crashes, lost, abandoned>>

(* spool.remove, by row id; then the next item of the list read at the start *)
RemovePushed(p) ==
  /\ op[p].kind = "drain" /\ op[p].sent = Batches
  /\ spool' = RemoveFirst(spool, Current(p))
  /\ op' = [op EXCEPT ![p] =
       IF Len(op[p].items) = 1 THEN Idle
       ELSE [Idle EXCEPT !.kind = "drain", !.items = Tail(op[p].items)]]
  /\ UNCHANGED <<todo, rows, trace, redirected, fails, crashes, lost, abandoned>>

(* spool.enqueue *)
Enqueue(p) ==
  /\ op[p].kind = "enqueue"
  /\ spool' = Append(spool, Current(p))
  /\ op' = [op EXCEPT ![p] = Idle]
  /\ UNCHANGED <<todo, rows, trace, redirected, fails, crashes, lost, abandoned>>

(* The process is killed; the spool file and the API are not *)
Crash(p) ==
  /\ op[p].kind # "idle" /\ crashes < MaxCrashes
  /\ crashes' = crashes + 1
  /\ lost' = IF op[p].kind = "drain" THEN lost ELSE lost \cup {Current(p)}
  /\ abandoned' = [abandoned EXCEPT ![Current(p)] =
       @ + (IF op[p].landed THEN 1 ELSE 0)]
  /\ op' = [op EXCEPT ![p] = Idle]
  /\ UNCHANGED <<todo, spool, rows, trace, redirected, fails>>

Advance(p) ==
  \/ PushRunOk(p) \/ PushRunFails(p) \/ PushRunRejected(p)
  \/ PushSamplesOk(p) \/ PushSamplesFails(p)
  \/ FinishLive(p) \/ RemovePushed(p) \/ Enqueue(p)

Next == \E p \in Proc : ReportRun(p) \/ BeginDrain(p) \/ Advance(p) \/ Crash(p)

Spec == Init /\ [][Next]_vars

(* Every call is answered or times out, so a push or a drain under way     *)
(* comes to its end; every tick that reaches the API drains.               *)
FairSpec == Spec /\ \A p \in Proc : WF_vars(Advance(p)) /\ WF_vars(BeginDrain(p))
-----------------------------------------------------------------------------
(* A report leaves the spool, or the hands of the process that pushed it   *)
(* live, only when it is upstream with its whole trace, but for a batch    *)
(* that was itself answered by a redirect.  A killed process can take with *)
(* it the one report it was pushing live, never a queued one.              *)
NothingLost ==
  /\ \A r \in Report \ (todo \cup SpoolSet \cup InHand) :
       Complete(r) \/ r \in lost
  /\ Cardinality(lost) <= crashes
  /\ lost \cap (SpoolSet \cup todo) = {}

(* The spool keeps what a store-and-forward queue promises, for everyone   *)
(* who drains it and also when drains of two processes overlap: a report   *)
(* leaves it from the head, and only when it is complete upstream or as    *)
(* far as the answers to its own batches said.                             *)
Queue == INSTANCE StoreAndForward
  WITH Item <- Report, queue <- spool, delivered <- {r \in Report : Complete(r)}
ImplementsStoreAndForward == Queue!Spec

(* A batch is appended at most once by each process that drained or pushed *)
(* its report to the end, and at most once for every push of the report    *)
(* that was given up after a batch was taken: an outage met by the run     *)
(* push itself duplicates nothing.                                         *)
DuplicatesAccounted ==
  \A r \in Report : \A b \in Batch :
    Appended(r, b) <= Cardinality(Proc) + abandoned[r]

(* Upstream no trace has a hole but by a redirect: no batch without its    *)
(* run row, and none more often than one before it was appended or had a   *)
(* redirect for its answer.                                                *)
TraceHasNoHole ==
  \A r \in Report : \A b \in Batch : Appended(r, b) > 0 =>
    r \in rows /\ \A c \in 1 .. b :
                     Appended(r, c) + redirected[r][c] >= Appended(r, b)

(* Once calls are answered again, everything queued gets through, as long  *)
(* as it is not queued behind a report that the API always rejects.        *)
Unblocked(r) ==
  \E i \in DOMAIN spool : spool[i] = r /\ \A j \in 1 .. i : spool[j] \notin Rejected
QueuedGetsThrough == \A r \in Report : Unblocked(r) ~> Complete(r)
=============================================================================
