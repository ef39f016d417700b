----------------------------- MODULE BenchSpool -----------------------------
(***************************************************************************)
(* Benchmark bundles on their way to the API (bench/submission.py, and     *)
(* bench submit / opt-in / opt-out of cli.py).  A command submits one file *)
(* and spools it when the API cannot be reached; the daemon drains the     *)
(* same SQLite file on its tick, and so does every command first.  The     *)
(* operator's consent is a line of .env, read when a process starts.       *)
(*                                                                         *)
(* One step is one wire call, one SQLite commit or one look at a file.     *)
(***************************************************************************)
EXTENDS Integers, Sequences, SequencesExt, FiniteSets

CONSTANTS
  Bundle,      \* bundle files; each is submitted once
  Unreadable,  \* those that cannot be read as a JSON object
  Denylisted,  \* those with a denylisted key somewhere
  Misshapen,   \* those the vendored schema does not accept
  Rejected,    \* those the API answers with an HTTP error, always
  Daemon,      \* the process that ticks
  Command,     \* processes that run bench submit
  MaxFails,    \* bound on the calls that fail or are redirected
  MaxKills,    \* bound on the processes killed
  MaxChanges   \* bound on the changes of mind about consent

ASSUME BundleAssumption ==
  Unreadable \cup Denylisted \cup Misshapen \cup Rejected \subseteq Bundle
ASSUME ProcessAssumption == Daemon \notin Command /\ IsFiniteSet(Command)
ASSUME BoundAssumption == {MaxFails, MaxKills, MaxChanges} \subseteq Nat

VARIABLES
  todo,      \* files not submitted yet
  spool,     \* the spool table, oldest first
  optin,     \* BENCH_OPTIN in .env
  wired,     \* whether the running daemon was built with it
  op,        \* what each process is doing
  sent,      \* how often each bundle was stored upstream
  fails, kills, changes,
  (* observation only *)
  told,      \* what the operator was told of each submission
  redirected,  \* bundles a push of which was answered by a redirect
  unheard,   \* pushes of each bundle not acted on: answer lost, process killed
  shared     \* bundles that were in two lists at one time

vars == <<todo, spool, optin, wired, op, sent, fails, kills, changes, told, redirected,
          unheard, shared>>

Process == Command \cup {Daemon}
Nobody == "nobody"
ASSUME NobodyAssumption == Nobody \notin Bundle

(* pc: what comes next; items: what is left of the list read when the      *)
(* drain began; file: the bundle of the command                            *)
Idle == [pc |-> "idle", items |-> <<>>, file |-> Nobody]

Refusals == {"unreadable", "denylisted", "misshapen", "refused"}

TypeOK ==
  /\ todo \subseteq Bundle /\ spool \in Seq(Bundle)
  /\ optin \in BOOLEAN /\ wired \in BOOLEAN
  /\ op \in [Process -> [pc : {"idle", "drain", "remove", "check", "push", "enqueue"},
                         items : Seq(Bundle), file : Bundle \cup {Nobody}]]
  /\ sent \in [Bundle -> Nat] /\ unheard \in [Bundle -> Nat]
  /\ shared \subseteq Bundle /\ redirected \subseteq Bundle
  /\ {fails, kills, changes} \subseteq Nat
  /\ told \in [Bundle -> {"nothing", "submitted", "spooled"} \cup Refusals]

Init ==
  /\ todo = Bundle /\ spool = <<>> /\ optin \in BOOLEAN /\ wired = optin
  /\ op = [p \in Process |-> Idle]
  /\ sent = [b \in Bundle |-> 0] /\ unheard = [b \in Bundle |-> 0] /\ shared = {}
  /\ fails = 0 /\ kills = 0 /\ changes = 0
  /\ told = [b \in Bundle |-> "nothing"] /\ redirected = {}

-----------------------------------------------------------------------------
Pushed(p) == IF op[p].pc \in {"drain", "remove"} THEN Head(op[p].items) ELSE op[p].file
Pushing(p) == op[p].pc \in {"drain", "push"}

(* The list of a drain; whatever is in another's list may be sent by both  *)
ReadsQueue(p) ==
  shared' = shared \cup
    {b \in Bundle : Contains(spool, b) /\ \E q \in Process \ {p} : Contains(op[q].items, b)}

(* set_bench_optin, and the end of a daemon and its replacement, which     *)
(* reads the setting anew                                                  *)
ChangeConsent ==
  /\ changes < MaxChanges /\ changes' = changes + 1
  /\ optin' = ~optin
  /\ UNCHANGED <<todo, spool, wired, op, sent, fails, kills, told, unheard, redirected, shared>>
Kill(p) ==
  /\ kills < MaxKills /\ kills' = kills + 1
  /\ op' = [op EXCEPT ![p] = Idle]
  /\ wired' = IF p = Daemon THEN optin ELSE wired
  /\ unheard' = IF op[p].pc = "remove" THEN [unheard EXCEPT ![Pushed(p)] = @ + 1] ELSE unheard
  /\ UNCHANGED <<todo, spool, optin, sent, fails, changes, told, redirected, shared>>

(* Mutant: the newest bundle first *)
TickNewestFirst ==
  /\ op[Daemon].pc = "idle" /\ wired /\ spool # <<>>
  /\ op' = [op EXCEPT ![Daemon] = [Idle EXCEPT !.pc = "drain", !.items = Reverse(spool)]]
  /\ ReadsQueue(Daemon)
  /\ UNCHANGED <<todo, spool, optin, wired, sent, fails, kills, changes, told, redirected, unheard>>

(* tick: the extra drain, when the daemon was built with one *)
Tick ==
  /\ op[Daemon].pc = "idle" /\ wired /\ spool # <<>>
  /\ op' = [op EXCEPT ![Daemon] = [Idle EXCEPT !.pc = "drain", !.items = spool]]
  /\ ReadsQueue(Daemon)
  /\ UNCHANGED <<todo, spool, optin, wired, sent, fails, kills, changes, told, redirected, unheard>>

(* run_bench_submit: consent first, then submit_bundle_file, which drains  *)
Submit(p) ==
  /\ op[p].pc = "idle" /\ optin
  /\ \E b \in todo :
       /\ todo' = todo \ {b}
       /\ op' = [op EXCEPT ![p] = [pc |-> IF spool = <<>> THEN "check" ELSE "drain",
                                   items |-> spool, file |-> b]]
  /\ ReadsQueue(p)
  /\ UNCHANGED <<spool, optin, wired, sent, fails, kills, changes, told, redirected, unheard>>

(* A drain is over; a command goes on to its own file *)
Drained(p) ==
  IF p = Daemon THEN Idle ELSE [op[p] EXCEPT !.pc = "check", !.items = <<>>]

(* Mutant: what is malformed is spooled with the rest *)
CheckTrusts(p) ==
  /\ op[p].pc = "check"
  /\ op' = [op EXCEPT ![p].pc = "push"]
  /\ UNCHANGED <<told, todo, spool, optin, wired, sent, fails, kills, changes, unheard,
                 redirected, shared>>

(* The file is read, then its keys, then its shape: a refusal is local     *)
Check(p) ==
  /\ op[p].pc = "check"
  /\ LET b == op[p].file
         refusal == IF b \in Unreadable THEN "unreadable"
                    ELSE IF b \in Denylisted THEN "denylisted" ELSE "misshapen"
     IN  IF b \in Unreadable \cup Denylisted \cup Misshapen
           THEN /\ told' = [told EXCEPT ![b] = refusal]
                /\ op' = [op EXCEPT ![p] = Idle]
           ELSE op' = [op EXCEPT ![p].pc = "push"] /\ UNCHANGED told
  /\ UNCHANGED <<todo, spool, optin, wired, sent, fails, kills, changes, unheard, redirected,
                 shared>>

-----------------------------------------------------------------------------
(* submit_bench_bundle: the API stores what it accepts, every time *)
Stored(p, lost) ==
  /\ sent' = [sent EXCEPT ![Pushed(p)] = @ + 1]
  /\ unheard' = [unheard EXCEPT ![Pushed(p)] = IF lost THEN @ + 1 ELSE @]

(* An answer below 400 is a success to the client, a redirect too: it is   *)
(* not followed, and nothing is stored                                     *)
Redirected(p) ==
  /\ fails < MaxFails /\ fails' = fails + 1
  /\ redirected' = redirected \cup {Pushed(p)}
  /\ UNCHANGED <<sent, unheard>>

PushOk(p) ==
  /\ Pushing(p)
  /\ \/ Pushed(p) \notin Rejected /\ Stored(p, FALSE) /\ UNCHANGED <<fails, redirected>>
     \/ Redirected(p)
  /\ IF op[p].pc = "drain"
       THEN op' = [op EXCEPT ![p].pc = "remove"] /\ UNCHANGED told
       ELSE /\ told' = [told EXCEPT ![Pushed(p)] = "submitted"]
            /\ op' = [op EXCEPT ![p] = Idle]
  /\ UNCHANGED <<todo, spool, optin, wired, kills, changes, shared>>

(* The rest of the list *)
Continue(p) ==
  IF Len(op[p].items) = 1 THEN Drained(p)
  ELSE [op[p] EXCEPT !.pc = "drain", !.items = Tail(@)]

(* Mutant: the head of the table is removed, whichever bundle was stored *)
RemoveStoredHead(p) ==
  /\ op[p].pc = "remove"
  /\ spool' = IF spool = <<>> THEN spool ELSE Tail(spool)
  /\ op' = [op EXCEPT ![p] = Continue(p)]
  /\ UNCHANGED <<todo, optin, wired, sent, fails, kills, changes, told, unheard, redirected,
                 shared>>

(* Mutant: what was stored stays for the next drain *)
RemoveStoredLater(p) ==
  /\ op[p].pc = "remove"
  /\ op' = [op EXCEPT ![p] = Continue(p)]
  /\ UNCHANGED <<spool, todo, optin, wired, sent, fails, kills, changes, told, unheard,
                 redirected, shared>>

(* spool.remove *)
RemoveStored(p) ==
  /\ op[p].pc = "remove"
  /\ spool' = RemoveFirst(spool, Pushed(p))
  /\ op' = [op EXCEPT ![p] = Continue(p)]
  /\ UNCHANGED <<todo, optin, wired, sent, fails, kills, changes, told, unheard, redirected,
                 shared>>

(* The first bundle of the queue that fails ends the drain, for a command  *)
(* too, which then goes on to its own file                                 *)
Stops(p) == Drained(p)

(* No answer: a submission is spooled, a drain stops.  The bundle may have *)
(* been stored all the same.                                               *)
PushLost(p) ==
  /\ Pushing(p) /\ fails < MaxFails /\ fails' = fails + 1
  /\ \/ Pushed(p) \notin Rejected /\ Stored(p, TRUE)
     \/ UNCHANGED <<sent, unheard>>
  /\ op' = [op EXCEPT ![p] = IF @.pc = "drain" THEN Stops(p) ELSE [@ EXCEPT !.pc = "enqueue"]]
  /\ UNCHANGED <<todo, spool, optin, wired, kills, changes, told, redirected, shared>>

(* An HTTP error, of a bundle that is always rejected or of a server that  *)
(* is out of order: a submission is refused for good, a drain stops        *)
PushRefused(p) ==
  /\ Pushing(p)
  /\ \/ Pushed(p) \in Rejected /\ UNCHANGED fails
     \/ Pushed(p) \notin Rejected /\ fails < MaxFails /\ fails' = fails + 1
  /\ IF op[p].pc = "drain"
       THEN op' = [op EXCEPT ![p] = Stops(p)] /\ UNCHANGED told
       ELSE /\ told' = [told EXCEPT ![Pushed(p)] = "refused"]
            /\ op' = [op EXCEPT ![p] = Idle]
  /\ UNCHANGED <<todo, spool, optin, wired, sent, kills, changes, unheard, redirected, shared>>

Enqueue(p) ==
  /\ op[p].pc = "enqueue"
  /\ spool' = Append(spool, op[p].file)
  /\ told' = [told EXCEPT ![op[p].file] = "spooled"]
  /\ op' = [op EXCEPT ![p] = Idle]
  /\ UNCHANGED <<todo, optin, wired, sent, fails, kills, changes, unheard, redirected, shared>>

Advance(p) ==
  \/ Check(p) \/ PushOk(p) \/ PushLost(p) \/ PushRefused(p)
  \/ RemoveStored(p) \/ Enqueue(p)

Next ==
  \/ ChangeConsent \/ Tick
  \/ \E p \in Process : Advance(p) \/ Kill(p)
  \/ \E p \in Command : Submit(p)

Spec == Init /\ [][Next]_vars

(* Calls are answered or time out, and the daemon ticks. *)
FairSpec == Spec /\ WF_vars(Tick) /\ \A p \in Process : WF_vars(Advance(p))
-----------------------------------------------------------------------------
(* What the API answered for, one way or the other                         *)
Served(b) == sent[b] > 0 \/ b \in redirected

(* What the operator was told is so: submitted is stored upstream, spooled *)
(* is in the queue or stored, each unless a push of that bundle was        *)
(* answered by a redirect; and what was refused before it was sent is      *)
(* never pushed, by whichever process.                                     *)
ToldTheTruth ==
  \A b \in Bundle :
    /\ told[b] = "submitted" => Served(b)
    /\ told[b] = "spooled" => Served(b) \/ Contains(spool, b)
    /\ b \in Unreadable \cup Denylisted \cup Misshapen =>
         ~Served(b) /\ ~Contains(spool, b)

(* A bundle is stored once, once more for every answer that was lost and   *)
(* every process killed before it could take the bundle off the queue, and *)
(* once more per process if two drained the queue at one time.             *)
StoredOnce ==
  \A b \in Bundle :
    sent[b] <= 1 + unheard[b] + (IF b \in shared THEN Cardinality(Process) - 1 ELSE 0)

Queue == INSTANCE StoreAndForward WITH
  Item <- Bundle, queue <- spool, delivered <- {b \in Bundle : Served(b)}

(* The spool is a store-and-forward queue, whoever drains it and whatever  *)
(* is killed meanwhile: a bundle leaves it from the head, and only once it *)
(* is stored or a push of that very bundle was answered by a redirect.     *)
ImplementsQueue == Queue!Spec

(* Once consent is given for good, what is queued behind nothing the API   *)
(* rejects gets through, or is taken for it when it is redirected.         *)
Unblocked(b) ==
  \E i \in DOMAIN spool : spool[i] = b /\ \A j \in 1 .. i : spool[j] \notin Rejected
QueuedGetsThrough ==
  \A b \in Bundle : Unblocked(b) ~> (Served(b) \/ ~wired)

-----------------------------------------------------------------------------
(* Statements of the repository that the code does not keep.               *)

(* After bench opt-out nothing further is sent: whatever was under way when *)
(* it was given, no process takes the queue up again.                      *)
NoDrainAfterOptOut ==
  [][\A p \in Process :
       (op[p].pc = "idle" /\ op'[p].pc = "drain") => optin]_vars
=============================================================================
