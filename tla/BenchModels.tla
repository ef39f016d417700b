----------------------------- MODULE BenchModels -----------------------------
(***************************************************************************)
(* What a benchmark measures (bench/roster.py, bench/engines.py, and the    *)
(* beginnings of the suites in bench/quick.py, reference.py and prism.py):  *)
(* an engine that answers, the models of a tier that fit and are pulled,    *)
(* the weights a suite is pinned to, and for each cell the engine and the   *)
(* model once more.  The servers belong to the operator, who starts, stops, *)
(* pulls and loads as they like between any two requests.                   *)
(*                                                                         *)
(* One step is one request.  Measuring is one step here; BenchSuite is      *)
(* about what happens in it.  Weights are numbers, in the roster the size   *)
(* of the model, of which no two are alike.                                *)
(***************************************************************************)
EXTENDS Integers, Sequences, FiniteSets

CONSTANTS
  Kinds,        \* the suites that are run
  Platforms,    \* of the boxes they are run on
  Roster,       \* models pinned for the tiers
  Reference,    \* the one of quick and of the anchor
  Rungs,        \* weights that prism knows
  Foreign,      \* weights that nobody has pinned
  MediumCount,  \* models of a medium tier
  Memories,     \* the largest model a box can serve
  MaxChanges    \* bound on what happens to the servers meanwhile

None == 0

ASSUME KindsAssumption ==
  /\ Kinds \subseteq {"quick", "medium", "full", "reference", "prism"}
  /\ Platforms \subseteq {"apple", "nvidia"}
ASSUME WeightsAssumption ==
  /\ IsFiniteSet(Roster) /\ Roster \cup Rungs \cup Memories \cup {Foreign} \subseteq Nat \ {None}
  /\ Reference \in Roster
  /\ Foreign \notin Roster \cup Rungs /\ Roster \cap Rungs = {}
ASSUME NumbersAssumption == MediumCount \in Nat \ {0} /\ MaxChanges \in Nat

Engines == {"ollama", "llama.cpp"}
Tiers == {"medium", "full"}
Attached == {"reference", "prism"}   \* what they measure is loaded, not asked for by name

Weights == Roster \cup Rungs \cup {Foreign, None}

VARIABLES
  kind, platform, memory,
  up,          \* engines that answer
  pulled,      \* what Ollama has under each tag of the roster
  loaded,      \* what llama-server has loaded
  changes,
  pc,
  probes,      \* engines to be tried
  engine,      \* the one that answered
  asked,       \* models of the tier
  todo,        \* those among them that were listed, and have no cell yet
  cell,        \* the entry of the cell under way, None where nothing is pinned
  label,       \* the identity its row will bear
  rows, exit,
  (* observation only *)
  listed,      \* those of asked that were pulled
  dead,        \* cells that measured nothing
  moved        \* the weights were replaced after the label was taken

vars == <<kind, platform, memory, up, pulled, loaded, changes, pc, probes, engine, asked,
          todo, cell, label, rows, exit, listed, dead, moved>>

box == <<kind, platform, memory>>
servers == <<up, pulled, loaded, changes>>
choice == <<asked, listed>>

Row == [cell : Weights, engine : Engines, label : Weights, ran : Weights \ {None}, moved : BOOLEAN]

TypeOK ==
  /\ kind \in Kinds /\ platform \in Platforms /\ memory \in Memories
  /\ up \subseteq Engines /\ pulled \in [Roster -> Weights] /\ loaded \in Weights
  /\ changes \in 0 .. MaxChanges
  /\ pc \in {"find", "verify", "list", "next", "attach", "resolve", "digest", "card", "measure",
             "over"}
  /\ probes \in Seq(Engines) /\ engine \in Engines \cup {"none"}
  /\ {asked, todo, listed, dead} \subseteq SUBSET Roster
  /\ cell \in Weights /\ label \in Weights
  /\ rows \subseteq Row
  /\ exit \in {"none", "bundle", "nothing", "no engine", "no card", "unavailable", "refused",
             "escaped"}
  /\ moved \in BOOLEAN

-----------------------------------------------------------------------------
(* detect_engine: what a suite looks for first, and what a cell then takes *)
LookedFor == IF kind \in Attached THEN <<"llama.cpp">> ELSE <<"ollama", "llama.cpp">>

(* Mutant: a cell takes whichever engine answers *)
FoundByAny == LookedFor

FoundBy == IF kind \in Tiers THEN <<"ollama">> ELSE LookedFor

Init ==
  /\ kind \in Kinds /\ platform \in Platforms /\ memory \in Memories
  /\ up \in SUBSET Engines /\ loaded \in {Reference, Foreign, None} \cup Rungs
  /\ pulled \in {p \in [Roster -> Roster \cup {Foreign, None}] :
                  \A m \in Roster : p[m] \in {m, Foreign, None}}
  /\ changes = 0
  /\ pc = (IF kind = "quick" THEN "attach" ELSE "find") /\ probes = LookedFor /\ engine = "none"
  /\ asked = {} /\ todo = {} /\ cell = None /\ label = None
  /\ rows = {} /\ exit = "none"
  /\ listed = {} /\ dead = {} /\ moved = FALSE

Over(how) == pc' = "over" /\ exit' = how

Detect ==
  /\ probes # <<>> /\ Head(probes) \in up
  /\ engine' = Head(probes)
  /\ \/ pc = "attach" /\ pc' = "resolve"
     \/ pc = "find" /\ pc' = IF kind \in Tiers THEN "list" ELSE "verify"
  /\ UNCHANGED <<box, servers, probes, choice, todo, cell, label, rows, exit, dead, moved>>

NotThisOne ==
  /\ pc \in {"find", "attach"} /\ probes # <<>> /\ Head(probes) \notin up
  /\ probes' = Tail(probes)
  /\ UNCHANGED <<box, servers, pc, engine, choice, todo, cell, label, rows, exit, dead, moved>>

(* NoEngineDetectedError: a tier does not catch it either *)
NoEngine ==
  /\ pc \in {"find", "attach"} /\ probes = <<>>
  /\ Over("no engine")
  /\ UNCHANGED <<box, servers, probes, engine, choice, todo, cell, label, rows, dead, moved>>

-----------------------------------------------------------------------------
(* detect_model_budget_gb: on Apple silicon what sysctl says, if it says it. *)
(* With NVML the sampler has to be awaited, by asyncio.run; a tier calls     *)
(* this within a running loop, where asyncio.run raises.                    *)
Budgets == IF platform = "apple" THEN {memory, None} ELSE {None}

(* roster_for_tier: those that fit, then the first so many of them *)
Fitting(budget) == {m \in Roster : budget = None \/ m <= budget}
Largest(models, n) == {m \in models : Cardinality({l \in models : l > m}) < n}
RosterForTier(budget) ==
  IF kind = "medium" THEN Largest(Fitting(budget), MediumCount) ELSE Fitting(budget)

(* NoRosterModelsError where Ollama is not the engine, VLLMUnavailableError  *)
(* where it has gone: nothing catches either                                *)
ListFails ==
  /\ pc = "list" /\ (engine # "ollama" \/ engine \notin up)
  /\ Over("escaped")
  /\ UNCHANGED <<box, servers, probes, engine, choice, todo, cell, label, rows, dead, moved>>

(* select_roster: what of the tier is pulled.  The names of the others are   *)
(* printed, to be pulled; if nothing is, that is all.                       *)
SelectRoster ==
  /\ pc = "list" /\ engine = "ollama" /\ engine \in up
  /\ \E budget \in Budgets : asked' = RosterForTier(budget)
  /\ todo' = {m \in asked' : pulled[m] # None}
  /\ listed' = todo'
  /\ IF todo' = {} THEN Over("escaped") ELSE pc' = "next" /\ UNCHANGED exit
  /\ UNCHANGED <<box, servers, probes, engine, cell, label, rows, dead, moved>>

(* full goes through each model twice, without thinking and with it: the    *)
(* requests are the same, and one cell stands for the two                   *)
NextCell ==
  /\ pc = "next" /\ todo # {}
  /\ \E m \in todo :
       /\ \A l \in todo : l <= m
       /\ cell' = m /\ todo' = todo \ {m}
  /\ pc' = "attach" /\ probes' = FoundBy
  /\ UNCHANGED <<box, servers, engine, choice, label, rows, exit, dead, moved>>

TierDone ==
  /\ pc = "next" /\ todo = {}
  /\ Over(IF rows = {} THEN "nothing" ELSE "bundle")
  /\ UNCHANGED <<box, servers, probes, engine, choice, todo, cell, label, rows, dead, moved>>

Pinned == IF kind = "prism" THEN Rungs ELSE {Reference}

(* The reference and the prism suite: what is served has to be what they     *)
(* are about, and is the entry of their one cell                            *)
Verify ==
  /\ pc = "verify"
  /\ IF engine \notin up THEN Over("escaped") /\ UNCHANGED <<cell, probes, moved>>
     ELSE IF loaded = None THEN Over("unavailable") /\ UNCHANGED <<cell, probes, moved>>
     ELSE IF loaded \notin Pinned THEN Over("refused") /\ UNCHANGED <<cell, probes, moved>>
     ELSE /\ cell' = loaded /\ moved' = FALSE
          /\ pc' = "attach" /\ probes' = FoundBy
          /\ UNCHANGED exit
  /\ UNCHANGED <<box, servers, engine, choice, todo, label, rows, dead>>

-----------------------------------------------------------------------------
(* Mutant: a cell that measured nothing ends the tier *)
DeadSinks(why) == Over(why) /\ UNCHANGED dead

(* ModelNotAvailableError, AllTasksFailedError: a tier goes on *)
Dead(why) ==
  IF kind \in Tiers
    THEN dead' = dead \cup {cell} /\ pc' = "next" /\ UNCHANGED exit
    ELSE Over(why) /\ UNCHANGED dead

Tag == IF cell = None THEN Reference ELSE cell

(* What would answer the next request *)
Served == IF engine \notin up THEN None ELSE IF engine = "ollama" THEN pulled[Tag] ELSE loaded

(* resolve_quick_model: an Ollama tag is looked for.  What llama-server has   *)
(* loaded goes by the name of the entry, if the suite has one.              *)
Resolve ==
  /\ pc = "resolve"
  /\ IF engine \notin up THEN Over("escaped") /\ UNCHANGED <<label, dead, moved>>
     ELSE IF Served = None THEN Dead("unavailable") /\ UNCHANGED <<label, moved>>
     ELSE IF engine = "ollama" THEN pc' = "digest" /\ UNCHANGED <<label, exit, dead, moved>>
     ELSE /\ label' = IF cell = None THEN loaded ELSE cell
          /\ moved' = (moved /\ cell # None)
          /\ pc' = "card" /\ UNCHANGED <<exit, dead>>
  /\ UNCHANGED <<box, servers, probes, engine, choice, todo, cell, rows>>

(* _ollama_weights_digest: the weights under the tag, or nothing *)
Digest ==
  /\ pc = "digest"
  /\ label' \in {Served, None} /\ moved' = FALSE
  /\ pc' = "card"
  /\ UNCHANGED <<box, servers, probes, engine, choice, todo, cell, rows, exit, dead>>

(* gpu_info: a card that can be measured, or NvmlUnavailableError *)
Card ==
  /\ pc = "card"
  /\ (pc' = "measure" /\ UNCHANGED exit) \/ Over("no card")
  /\ UNCHANGED <<box, servers, probes, engine, choice, todo, cell, label, rows, dead, moved>>

(* The tasks of the cell, of which any may fail *)
Measures ==
  /\ pc = "measure" /\ Served # None
  /\ rows' = rows \cup {[cell |-> Tag, engine |-> engine, label |-> label, ran |-> Served,
                         moved |-> moved]}
  /\ IF kind \in Tiers THEN pc' = "next" /\ UNCHANGED exit ELSE Over("bundle")
  /\ UNCHANGED <<box, servers, probes, engine, choice, todo, cell, label, dead, moved>>

AllTasksFail ==
  /\ pc = "measure"
  /\ Dead("nothing")
  /\ UNCHANGED <<box, servers, probes, engine, choice, todo, cell, label, rows, moved>>

-----------------------------------------------------------------------------
(* The operator, and what befalls the servers *)
Changes == pc # "over" /\ changes < MaxChanges /\ changes' = changes + 1
run == <<pc, probes, engine, asked, todo, cell, label, rows, exit, listed, dead>>

StartOrStop ==
  /\ Changes
  /\ \E e \in Engines : up' = IF e \in up THEN up \ {e} ELSE up \cup {e}
  /\ UNCHANGED <<box, pulled, loaded, run, moved>>

(* ollama pull and ollama rm *)
PullOrRemove ==
  /\ Changes
  /\ \E m \in Roster : \E w \in {m, Foreign, None} \ {pulled[m]} :
       /\ pulled' = [pulled EXCEPT ![m] = w]
       /\ moved' = (moved \/ m = Tag)
  /\ UNCHANGED <<box, up, loaded, run>>

(* llama-server is started again with another file *)
Load ==
  /\ Changes
  /\ loaded' \in ({Reference, Foreign, None} \cup Rungs) \ {loaded}
  /\ moved' = (moved \/ engine = "llama.cpp")
  /\ UNCHANGED <<box, up, pulled, run>>

Step ==
  \/ Detect \/ NotThisOne \/ NoEngine
  \/ ListFails \/ SelectRoster \/ NextCell \/ TierDone \/ Verify
  \/ Resolve \/ Digest \/ Card \/ Measures \/ AllTasksFail

Next == Step \/ StartOrStop \/ PullOrRemove \/ Load

Spec == Init /\ [][Next]_vars

-----------------------------------------------------------------------------
(* A row bears the name of what was measured, whichever engine answered at   *)
(* whichever time: an anchor ran the anchor's weights, a rung is that rung,   *)
(* and no entry of the roster lends its name to what llama-server happens to  *)
(* serve -- unless the operator replaced the weights in between.            *)
LabelTrue ==
  \A r \in rows : r.moved \/ r.label = r.ran \/ (r.engine = "ollama" /\ r.label = None)

(* A tier that no exception ends has had a cell for each model that was       *)
(* pulled, which either measured it or is known to have measured nothing;     *)
(* and at any time what it has measured is larger than what it has yet to do. *)
CellsAccounted ==
  kind \in Tiers =>
    /\ pc = "over" /\ exit \notin {"escaped", "no engine", "no card"}
         => {r.cell : r \in rows} \cup dead = listed
    /\ \A r, s \in rows : r.cell = s.cell => r = s
    /\ \A r \in rows : r.cell \notin dead /\ \A m \in todo : m < r.cell
=============================================================================
