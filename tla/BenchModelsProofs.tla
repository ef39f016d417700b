-------------------------- MODULE BenchModelsProofs --------------------------
(***************************************************************************)
(* That a row of a benchmark bears the name of what was measured, and that *)
(* a tier accounts for every model that was pulled, whatever the roster,   *)
(* the boxes and the number of things that happen to the servers; and,     *)
(* from the middle on, that the numbers of the row are within what the     *)
(* card drew, whatever the draw, the items, the samples and the faults.    *)
(*                                                                         *)
(* What is summed or read off a sequence is proved by induction over sets  *)
(* of numbers, from the order of the naturals being well-founded.          *)
(***************************************************************************)
EXTENDS BenchModels, BenchRow, WellFoundedInduction, SequenceTheorems, TLAPS

USE DEF None, Engines, Tiers, Attached

AtCell == {"resolve", "digest", "card", "measure"}
InCell == AtCell \cup {"attach"}
USE DEF AtCell, InCell

(* What the engine of the cell would answer from, up or not *)
Content == IF engine = "ollama" THEN pulled[Tag] ELSE loaded

(* Which engine and which entry a cell may have: what the types rest on,    *)
(* because a tag is looked up by the entry                                 *)
Setup ==
  /\ probes \in {<<>>, <<"llama.cpp">>, <<"ollama">>, <<"ollama", "llama.cpp">>}
  /\ pc \in AtCell \cup {"verify", "list"} => engine \in Engines
  /\ pc = "digest" => engine = "ollama"
  /\ kind = "quick" => cell = None /\ pc \notin {"find", "verify", "list", "next"}
  /\ kind \in Tiers => cell \in Roster \cup {None} /\ pc # "verify"
  /\ kind \in Tiers /\ pc \in InCell => cell \in Roster
  /\ kind \in Tiers /\ pc = "attach" => probes \in {<<>>, <<"ollama">>}
  /\ kind \in Tiers /\ pc \in AtCell => engine = "ollama"
  /\ kind \in Attached => engine # "ollama" /\ probes \in {<<>>, <<"llama.cpp">>}
                          /\ pc \notin {"list", "next", "digest"}
  /\ kind \in Attached /\ pc \in InCell => cell \in Roster \cup Rungs /\ engine = "llama.cpp"

Core == TypeOK /\ Setup

(* The label under way is that of what is served, unless it was replaced *)
LabelHolds ==
  /\ kind \in Attached /\ pc \in InCell => moved \/ loaded = cell
  /\ pc \in {"card", "measure"} =>
       moved \/ label = Content \/ (engine = "ollama" /\ label = None)

Labels == LabelHolds /\ LabelTrue

(* Every model listed is done, in hand or to do, from the largest down *)
Measured == {r.cell : r \in rows}
InHand == IF pc \in InCell THEN {cell} ELSE {}
Ahead == todo \cup InHand
Accounts ==
  kind \in Tiers =>
    /\ pc \in {"find", "list"} => rows = {} /\ dead = {} /\ todo = {}
    /\ pc \in InCell \cup {"next"} => listed = Measured \cup dead \cup Ahead
    /\ pc = "over" /\ exit \notin {"escaped", "no engine", "no card"} => Measured \cup dead = listed
    /\ pc \in InCell => \A m \in todo : m < cell
    /\ \A r \in rows : r.cell \notin dead /\ \A m \in Ahead : m < r.cell
    /\ \A d \in dead, m \in Ahead : m < d
    /\ \A r, s \in rows : r.cell = s.cell => r = s
-----------------------------------------------------------------------------
(* What is probed is an engine, and what is left to probe a list of them.   *)
LEMMA Probing ==
  ASSUME probes \in {<<>>, <<"llama.cpp">>, <<"ollama">>, <<"ollama", "llama.cpp">>},
         probes # <<>>
  PROVE  /\ Head(probes) \in Engines
         /\ Tail(probes) \in {<<>>, <<"llama.cpp">>} /\ Tail(probes) \in Seq(Engines)
         /\ probes = <<"llama.cpp">> => Head(probes) = "llama.cpp" /\ Tail(probes) = <<>>
         /\ probes = <<"ollama">> => Head(probes) = "ollama" /\ Tail(probes) = <<>>
<1>1. CASE probes = <<"llama.cpp">>
  <2>1. Head(probes) = "llama.cpp" /\ Tail(probes) = <<>>
    BY <1>1
  <2> QED BY <1>1, <2>1
<1>2. CASE probes = <<"ollama">>
  <2>1. Head(probes) = "ollama" /\ Tail(probes) = <<>>
    BY <1>2
  <2> QED BY <1>2, <2>1
<1>3. CASE probes = <<"ollama", "llama.cpp">>
  <2>1. Head(probes) = "ollama" /\ Tail(probes) = <<"llama.cpp">>
    BY <1>3
  <2> QED BY <1>3, <2>1
<1> QED BY <1>1, <1>2, <1>3

(* What the engine answers from is weights, and those of a tag if it is     *)
(* Ollama.                                                                 *)
LEMMA ServedTyped ==
  ASSUME Core, pc \in AtCell
  PROVE  /\ Served \in Weights /\ Tag \in Weights
         /\ engine = "ollama" => Tag \in Roster
<1>1. engine = "ollama" => Tag \in Roster
  BY KindsAssumption, WeightsAssumption DEF Core, TypeOK, Setup, Tag
<1>2. Tag \in Weights
  BY WeightsAssumption DEF Core, TypeOK, Tag, Weights
<1>3. Served \in Weights
  BY <1>1, WeightsAssumption DEF Core, TypeOK, Served, Weights
<1> QED BY <1>1, <1>2, <1>3

(* The bound on what happens meanwhile is kept.                             *)
LEMMA ChangesBounded ==
  ASSUME TypeOK, Changes
  PROVE  changes' \in 0 .. MaxChanges
<1>1. MaxChanges \in Nat /\ changes \in 0 .. MaxChanges
  BY NumbersAssumption DEF TypeOK
<1>2. changes < MaxChanges /\ changes' = changes + 1
  BY DEF Changes
<1> QED BY <1>1, <1>2

(* A tier asks for models of the roster.                                    *)
LEMMA TierTyped ==
  ASSUME NEW budget
  PROVE  RosterForTier(budget) \subseteq Roster
BY DEF RosterForTier, Largest, Fitting

LEMMA CoreInitially == Init => Core
<1> SUFFICES ASSUME Init PROVE Core
  OBVIOUS
<1>1. loaded \in Weights /\ pulled \in [Roster -> Weights]
  BY WeightsAssumption DEF Init, Weights
<1>2. probes = <<"llama.cpp">> \/ probes = <<"ollama", "llama.cpp">>
  BY DEF Init, LookedFor
<1>3. probes \in Seq(Engines)
  <2>1. <<"llama.cpp">> \in Seq(Engines)
    OBVIOUS
  <2>2. <<"ollama", "llama.cpp">> \in Seq(Engines)
    OBVIOUS
  <2> QED BY <1>2, <2>1, <2>2
<1>4. None \in Weights /\ changes \in 0 .. MaxChanges
  BY NumbersAssumption DEF Init, Weights
<1>5. TypeOK
  BY <1>1, <1>3, <1>4 DEF Init, TypeOK
<1>6. Setup
  BY KindsAssumption DEF Init, Setup, LookedFor
<1> QED BY <1>5, <1>6 DEF Core

LEMMA CoreStep == Core /\ [Next]_vars => Core'
<1> SUFFICES ASSUME Core, [Next]_vars PROVE Core'
  OBVIOUS
<1> USE DEF Core
<1>1. CASE Detect
  <2>1. Head(probes) \in Engines
    BY <1>1, Probing DEF Detect, Setup
  <2>2. TypeOK'
    BY <1>1, <2>1 DEF Detect, TypeOK, box, servers, choice
  <2>3. Setup'
    BY <1>1, <2>1, Probing, KindsAssumption DEF Detect, Setup, TypeOK, box, servers, choice
  <2> QED BY <2>2, <2>3
<1>2. CASE NotThisOne
  <2>1. TypeOK'
    BY <1>2, Probing DEF NotThisOne, TypeOK, Setup, box, servers, choice
  <2>2. Setup'
    BY <1>2, Probing DEF NotThisOne, Setup, box, servers, choice
  <2> QED BY <2>1, <2>2
<1>3. CASE NoEngine
  BY <1>3 DEF NoEngine, Over, TypeOK, Setup, box, servers, choice
<1>4. CASE ListFails
  BY <1>4 DEF ListFails, Over, TypeOK, Setup, box, servers, choice
<1>5. CASE SelectRoster
  <2>1. asked' \subseteq Roster /\ todo' \subseteq Roster /\ listed' = todo'
    BY <1>5, TierTyped DEF SelectRoster
  <2>2. TypeOK'
    BY <1>5, <2>1 DEF SelectRoster, Over, TypeOK, box, servers
  <2>3. Setup'
    BY <1>5, KindsAssumption DEF SelectRoster, Over, Setup, TypeOK, box, servers
  <2> QED BY <2>2, <2>3
<1>6. CASE NextCell
  <2>1. cell' \in Roster /\ todo' \subseteq Roster
    BY <1>6 DEF NextCell, TypeOK
  <2>2. kind \in Tiers
    BY <1>6, KindsAssumption DEF NextCell, TypeOK, Setup
  <2>3. probes' = <<"ollama">>
    BY <1>6, <2>2 DEF NextCell, FoundBy
  <2>4. TypeOK'
    <3>1. cell' \in Weights /\ probes' \in Seq(Engines)
      BY <2>1, <2>3 DEF Weights
    <3> QED BY <1>6, <2>1, <3>1 DEF NextCell, TypeOK, box, servers, choice
  <2>5. Setup'
    BY <1>6, <2>1, <2>2, <2>3 DEF NextCell, Setup, box, servers, choice
  <2> QED BY <2>4, <2>5
<1>7. CASE TierDone
  BY <1>7 DEF TierDone, Over, TypeOK, Setup, box, servers, choice
<1>8. CASE Verify
  <2>1. kind \in Attached
    BY <1>8, KindsAssumption DEF Verify, TypeOK, Setup
  <2>2. CASE pc' = "over"
    BY <1>8, <2>1, <2>2 DEF Verify, Over, TypeOK, Setup, box, servers, choice
  <2>3. CASE pc' # "over"
    <3>1. /\ cell' = loaded /\ loaded \in Pinned /\ moved' = FALSE
          /\ pc' = "attach" /\ probes' = <<"llama.cpp">> /\ UNCHANGED exit
      BY <1>8, <2>1, <2>3 DEF Verify, Over, FoundBy, LookedFor
    <3>2. cell' \in Roster \cup Rungs
      BY <3>1, WeightsAssumption DEF Pinned
    <3>3. engine = "llama.cpp"
      BY <1>8, <2>1 DEF Verify, Setup
    <3>4. TypeOK'
      <4>1. cell' \in Weights /\ probes' \in Seq(Engines)
        BY <3>1, <3>2 DEF Weights
      <4> QED BY <1>8, <3>1, <4>1 DEF Verify, TypeOK, box, servers, choice
    <3>5. Setup'
      BY <1>8, <2>1, <3>1, <3>2, <3>3 DEF Verify, Setup, box, servers, choice
    <3> QED BY <3>4, <3>5
  <2> QED BY <2>2, <2>3
<1>9. CASE Resolve
  <2>1. label' \in Weights /\ moved' \in BOOLEAN /\ dead' \subseteq Roster
    BY <1>9 DEF Resolve, Dead, Over, TypeOK, Setup
  <2>2. pc' \in {"over", "next", "digest", "card"} /\ (pc' = "digest" => engine = "ollama")
        /\ (pc' = "next" => kind \in Tiers) /\ exit' \in {exit, "escaped", "unavailable"}
    BY <1>9 DEF Resolve, Dead, Over
  <2>3. TypeOK'
    BY <1>9, <2>1, <2>2 DEF Resolve, TypeOK, box, servers, choice
  <2>4. Setup'
    BY <1>9, <2>2 DEF Resolve, Setup, box, servers, choice
  <2> QED BY <2>3, <2>4
<1>10. CASE Digest
  <2>1. label' \in Weights
    BY <1>10, ServedTyped DEF Digest, Weights
  <2> QED BY <1>10, <2>1 DEF Digest, TypeOK, Setup, box, servers, choice
<1>11. CASE Card
  BY <1>11 DEF Card, Over, TypeOK, Setup, box, servers, choice
<1>12. CASE Measures
  <2>1. Served \in Weights \ {None} /\ Tag \in Weights
    BY <1>12, ServedTyped DEF Measures
  <2>2. rows' \subseteq Row
    <3>1. engine \in Engines /\ label \in Weights /\ moved \in BOOLEAN
      BY <1>12 DEF Measures, TypeOK, Setup
    <3>2. [cell |-> Tag, engine |-> engine, label |-> label, ran |-> Served, moved |-> moved] \in Row
      BY <2>1, <3>1 DEF Row
    <3> QED BY <1>12, <3>2 DEF Measures, TypeOK
  <2>3. pc' \in {"next", "over"} /\ (pc' = "next" => kind \in Tiers) /\ exit' \in {exit, "bundle"}
    BY <1>12 DEF Measures, Over
  <2>4. TypeOK'
    BY <1>12, <2>2, <2>3 DEF Measures, TypeOK, box, servers, choice
  <2>5. Setup'
    BY <1>12, <2>3 DEF Measures, Setup, box, servers, choice
  <2> QED BY <2>4, <2>5
<1>13. CASE AllTasksFail
  <2>1. pc' \in {"next", "over"} /\ (pc' = "next" => kind \in Tiers) /\ exit' \in {exit, "nothing"}
        /\ dead' \subseteq Roster
    BY <1>13 DEF AllTasksFail, Dead, Over, TypeOK, Setup
  <2>2. TypeOK'
    BY <1>13, <2>1 DEF AllTasksFail, TypeOK, box, servers, choice
  <2>3. Setup'
    BY <1>13, <2>1 DEF AllTasksFail, Setup, box, servers, choice
  <2> QED BY <2>2, <2>3
<1>14. CASE StartOrStop
  <2>1. up' \subseteq Engines /\ changes' \in 0 .. MaxChanges
    BY <1>14, ChangesBounded DEF StartOrStop, TypeOK
  <2>2. TypeOK'
    BY <1>14, <2>1 DEF StartOrStop, run, TypeOK, box
  <2>3. Setup'
    BY <1>14 DEF StartOrStop, run, Setup, box
  <2> QED BY <2>2, <2>3
<1>15. CASE PullOrRemove
  <2>1. pulled' \in [Roster -> Weights] /\ moved' \in BOOLEAN
    BY <1>15 DEF PullOrRemove, TypeOK, Weights
  <2>2. changes' \in 0 .. MaxChanges
    BY <1>15, ChangesBounded DEF PullOrRemove
  <2>3. TypeOK'
    BY <1>15, <2>1, <2>2 DEF PullOrRemove, run, TypeOK, box
  <2>4. Setup'
    BY <1>15 DEF PullOrRemove, run, Setup, box
  <2> QED BY <2>3, <2>4
<1>16. CASE Load
  <2>1. loaded' \in Weights /\ moved' \in BOOLEAN
    BY <1>16, WeightsAssumption DEF Load, TypeOK, Weights
  <2>2. changes' \in 0 .. MaxChanges
    BY <1>16, ChangesBounded DEF Load
  <2>3. TypeOK'
    BY <1>16, <2>1, <2>2 DEF Load, run, TypeOK, box
  <2>4. Setup'
    BY <1>16 DEF Load, run, Setup, box
  <2> QED BY <2>3, <2>4
<1>17. CASE UNCHANGED vars
  <2>1. TypeOK'
    BY <1>17 DEF vars, TypeOK
  <2>2. Setup'
    BY <1>17 DEF vars, Setup
  <2> QED BY <2>1, <2>2
<1> QED
  BY <1>1, <1>2, <1>3, <1>4, <1>5, <1>6, <1>7, <1>8, <1>9, <1>10, <1>11, <1>12, <1>13, <1>14,
     <1>15, <1>16, <1>17 DEF Next, Step

LEMMA CoreAlways == Spec => []Core
<1>1. Init => Core
  BY CoreInitially
<1>2. Core /\ [Next]_vars => Core'
  BY CoreStep
<1> QED BY <1>1, <1>2, PTL DEF Spec

(* Every variable keeps its type, whatever the operator does to the servers. *)
THEOREM ModelsTyped == Spec => []TypeOK
<1>1. Core => TypeOK
  BY DEF Core
<1> QED BY <1>1, CoreAlways, PTL

-----------------------------------------------------------------------------
(* The label of a row.                                                      *)
LEMMA LabelsStep == Core /\ Labels /\ [Next]_vars => Labels'
<1> SUFFICES ASSUME Core, Labels, [Next]_vars PROVE Labels'
  OBVIOUS
<1> USE DEF Core, Labels
<1>1. CASE Detect
  BY <1>1 DEF Detect, LabelHolds, LabelTrue, box, servers, choice
<1>2. CASE NotThisOne
  BY <1>2 DEF NotThisOne, LabelHolds, LabelTrue, box, servers, choice
<1>3. CASE NoEngine
  BY <1>3 DEF NoEngine, Over, LabelHolds, LabelTrue
<1>4. CASE ListFails
  BY <1>4 DEF ListFails, Over, LabelHolds, LabelTrue
<1>5. CASE SelectRoster
  BY <1>5 DEF SelectRoster, Over, LabelHolds, LabelTrue
<1>6. CASE NextCell
  <2>1. kind \notin Attached /\ kind' = kind
    BY <1>6 DEF NextCell, Setup, box
  <2> QED BY <1>6, <2>1 DEF NextCell, LabelHolds, LabelTrue
<1>7. CASE TierDone
  BY <1>7 DEF TierDone, Over, LabelHolds, LabelTrue
<1>8. CASE Verify
  BY <1>8 DEF Verify, Over, LabelHolds, LabelTrue, servers
<1>9. CASE Resolve
  <2>1. UNCHANGED <<kind, up, pulled, loaded, engine, cell, rows>> /\ pc = "resolve"
    BY <1>9 DEF Resolve, box, servers
  <2>2. CASE pc' = "card"
    <3>1. /\ engine # "ollama"
          /\ label' = IF cell = None THEN loaded ELSE cell
          /\ moved' = (moved /\ cell # None)
      BY <1>9, <2>2 DEF Resolve, Dead, Over
    <3>2. CASE kind = "quick"
      BY <2>1, <2>2, <3>1, <3>2 DEF LabelHolds, LabelTrue, Content, Setup
    <3>3. CASE kind \in Attached
      <4>1. cell # None
        BY <2>1, <3>3, WeightsAssumption DEF Setup
      <4>2. (moved' <=> moved) /\ label' = cell
        BY <3>1, <4>1
      <4> QED BY <2>1, <2>2, <3>1, <3>3, <4>2 DEF LabelHolds, LabelTrue, Content
    <3>4. kind \notin Tiers
      BY <2>1, <3>1 DEF Setup
    <3> QED BY <3>2, <3>3, <3>4, KindsAssumption DEF TypeOK
  <2>3. CASE pc' # "card"
    <3>1. pc' \in {"over", "next", "digest"}
      BY <1>9, <2>3 DEF Resolve, Dead, Over
    <3>2. kind \in Attached => pc' = "over"
      BY <1>9, <2>3 DEF Resolve, Dead, Over, Setup
    <3> QED BY <2>1, <3>1, <3>2 DEF LabelHolds, LabelTrue
  <2> QED BY <2>2, <2>3
<1>10. CASE Digest
  <2>1. engine = "ollama" /\ kind \notin Attached
    BY <1>10 DEF Digest, Setup
  <2>2. UNCHANGED <<kind, up, pulled, loaded, engine, cell, rows>> /\ label' \in {Served, None}
    BY <1>10 DEF Digest, box, servers
  <2>3. label' = Content \/ label' = None
    BY <2>1, <2>2 DEF Served, Content
  <2> QED BY <1>10, <2>1, <2>2, <2>3 DEF Digest, LabelHolds, LabelTrue, Content, Tag
<1>11. CASE Card
  BY <1>11 DEF Card, Over, LabelHolds, LabelTrue, Content, Tag, box, servers
<1>12. CASE Measures
  <2>1. Served = Content
    BY <1>12 DEF Measures, Served, Content
  <2>2. moved \/ label = Content \/ (engine = "ollama" /\ label = None)
    BY <1>12 DEF Measures, LabelHolds
  <2>3. LabelTrue'
    BY <1>12, <2>1, <2>2 DEF Measures, LabelTrue
  <2>4. pc' \in {"next", "over"}
    BY <1>12 DEF Measures, Over
  <2> QED BY <2>3, <2>4 DEF LabelHolds
<1>13. CASE AllTasksFail
  BY <1>13 DEF AllTasksFail, Dead, Over, LabelHolds, LabelTrue
<1>14. CASE StartOrStop
  BY <1>14 DEF StartOrStop, run, LabelHolds, LabelTrue, Content, Tag, box
<1>15. CASE PullOrRemove
  <2>1. UNCHANGED <<kind, loaded, pc, engine, cell, label, rows>>
    BY <1>15 DEF PullOrRemove, run, box
  <2>2. moved => moved'
    BY <1>15 DEF PullOrRemove
  <2>3. pc \in {"card", "measure"} => moved' \/ Content' = Content
    BY <1>15, <2>1, ServedTyped DEF PullOrRemove, Content, Tag, TypeOK
  <2> QED BY <2>1, <2>2, <2>3 DEF LabelHolds, LabelTrue
<1>16. CASE Load
  <2>1. UNCHANGED <<kind, pulled, pc, engine, cell, label, rows>>
    BY <1>16 DEF Load, run, box
  <2>2. (moved => moved') /\ (engine = "llama.cpp" => moved')
    BY <1>16 DEF Load
  <2>3. pc \in {"card", "measure"} => moved' \/ Content' = Content
    BY <2>1, <2>2 DEF Content, Tag, Setup
  <2>4. kind \in Attached /\ pc \in InCell => moved'
    BY <2>2 DEF Setup
  <2> QED BY <2>1, <2>2, <2>3, <2>4 DEF LabelHolds, LabelTrue
<1>17. CASE UNCHANGED vars
  BY <1>17 DEF vars, LabelHolds, LabelTrue, Content, Tag
<1> QED
  BY <1>1, <1>2, <1>3, <1>4, <1>5, <1>6, <1>7, <1>8, <1>9, <1>10, <1>11, <1>12, <1>13, <1>14,
     <1>15, <1>16, <1>17 DEF Next, Step

(* A row bears the name of the weights that ran, unless they were replaced   *)
(* after the name was taken: whichever engine answers, and however often     *)
(* the servers come, go and are loaded with something else.                 *)
THEOREM LabelsAreTrue == Spec => []LabelTrue
<1>1. Init => Labels
  BY DEF Init, Labels, LabelHolds, LabelTrue
<1>2. Core /\ Labels /\ [Next]_vars => Labels'
  BY LabelsStep
<1>3. Labels => LabelTrue
  BY DEF Labels
<1> QED BY <1>1, <1>2, <1>3, CoreAlways, PTL DEF Spec

-----------------------------------------------------------------------------
(* The accounts of a tier.                                                  *)
(* A cell that measured nothing goes from what is in hand to what is dead.  *)
LEMMA CellDies ==
  ASSUME Core, Accounts, kind \in Tiers, kind' = kind, pc \in InCell,
         pc' = "next", dead' = dead \cup {cell}, UNCHANGED <<rows, listed, todo, cell>>
  PROVE  Accounts'
<1>1. Ahead = todo \cup {cell} /\ Ahead' = todo /\ Measured' = Measured
  BY DEF Ahead, InHand, Measured
<1>2. listed = Measured \cup dead \cup Ahead
  BY DEF Accounts
<1>3. listed' = Measured' \cup dead' \cup Ahead'
  BY <1>1, <1>2
<1>4. \A m \in todo : m < cell
  BY DEF Accounts
<1>5. \A r \in rows : r.cell # cell
  <2>1. \A r \in rows : cell < r.cell
    BY <1>1 DEF Accounts
  <2>2. cell \in Nat
    BY WeightsAssumption DEF Core, Setup
  <2> QED BY <2>1, <2>2
<1>6. \A r \in rows' : r.cell \notin dead' /\ \A m \in Ahead' : m < r.cell
  BY <1>1, <1>5 DEF Accounts
<1>7. \A d \in dead', m \in Ahead' : m < d
  BY <1>1, <1>4 DEF Accounts
<1>8. \A r, s \in rows' : r.cell = s.cell => r = s
  BY DEF Accounts
<1> QED BY <1>3, <1>6, <1>7, <1>8 DEF Accounts

LEMMA AccountsStep == Core /\ Core' /\ Accounts /\ [Next]_vars => Accounts'
<1> SUFFICES ASSUME Core, Core', Accounts, [Next]_vars, kind' \in Tiers PROVE Accounts'
  BY DEF Accounts
<1> USE DEF Core
<1>0. kind \in Tiers /\ kind' = kind
  BY DEF Next, Step, vars, box, Detect, NotThisOne, NoEngine, ListFails, SelectRoster, NextCell,
     TierDone, Verify, Resolve, Digest, Card, Measures, AllTasksFail, StartOrStop, PullOrRemove,
     Load
<1>a. /\ todo \subseteq Roster /\ dead \subseteq Roster /\ rows \subseteq Row
      /\ Roster \subseteq Nat
  BY WeightsAssumption DEF TypeOK
<1>1. CASE Detect
  <2>1. UNCHANGED <<rows, dead, listed, todo, cell, exit>>
    BY <1>1 DEF Detect, choice
  <2>2. CASE pc = "find"
    <3>1. pc' = "list"
      BY <1>0, <1>1, <2>2 DEF Detect
    <3> QED BY <1>0, <2>1, <2>2, <3>1 DEF Accounts, Measured, InHand, Ahead
  <2>3. CASE pc = "attach"
    <3>1. pc' = "resolve"
      BY <1>1, <2>3 DEF Detect
    <3> QED BY <1>0, <2>1, <2>3, <3>1 DEF Accounts, Measured, InHand, Ahead
  <2> QED BY <1>1, <2>2, <2>3 DEF Detect
<1>2. CASE NotThisOne
  BY <1>0, <1>2 DEF NotThisOne, Accounts, Measured, InHand, Ahead, choice
<1>3. CASE NoEngine
  BY <1>0, <1>3 DEF NoEngine, Over, Accounts, Measured, InHand, Ahead, choice
<1>4. CASE ListFails
  BY <1>0, <1>4 DEF ListFails, Over, Accounts, Measured, InHand, Ahead, choice
<1>5. CASE SelectRoster
  <2>1. rows' = {} /\ dead' = {} /\ listed' = todo'
    BY <1>0, <1>5 DEF SelectRoster, Accounts
  <2>2. (pc' = "next" /\ exit' = exit) \/ (pc' = "over" /\ exit' = "escaped")
    BY <1>5 DEF SelectRoster, Over
  <2> QED BY <2>1, <2>2 DEF Accounts, Measured, InHand, Ahead
<1>6. CASE NextCell
  <2>1. PICK m \in todo : (\A l \in todo : l <= m) /\ cell' = m /\ todo' = todo \ {m}
    BY <1>6 DEF NextCell
  <2>2. pc = "next" /\ pc' = "attach" /\ UNCHANGED <<rows, dead, listed, exit>>
    BY <1>6 DEF NextCell, choice
  <2>3. Ahead' = todo /\ Ahead = todo /\ Measured' = Measured
    BY <2>1, <2>2 DEF Ahead, InHand, Measured
  <2>4. \A l \in todo' : l < cell'
    BY <2>1, <1>a
  <2> QED BY <1>0, <2>2, <2>3, <2>4 DEF Accounts
<1>7. CASE TierDone
  <2>1. pc = "next" /\ pc' = "over" /\ UNCHANGED <<rows, dead, listed, todo>> /\ todo = {}
    BY <1>7 DEF TierDone, Over, choice
  <2>2. Ahead = {} /\ Ahead' = {} /\ Measured' = Measured
    BY <2>1 DEF Ahead, InHand, Measured
  <2> QED BY <1>0, <2>1, <2>2 DEF Accounts
<1>8. CASE Verify
  BY <1>0, <1>8 DEF Verify, Setup
<1>9. CASE Resolve
  <2>1. pc = "resolve" /\ UNCHANGED <<rows, listed, todo, cell>>
    BY <1>9 DEF Resolve, choice
  <2>2. CASE dead' = dead /\ pc' \in InCell
    BY <1>0, <2>1, <2>2 DEF Accounts, Measured, InHand, Ahead
  <2>3. CASE dead' = dead /\ pc' = "over" /\ exit' = "escaped"
    BY <1>0, <2>1, <2>3 DEF Accounts, Measured, InHand, Ahead
  <2>4. CASE dead' = dead \cup {cell} /\ pc' = "next"
    BY <1>0, <2>1, <2>4, CellDies
  <2> QED BY <1>0, <1>9, <2>2, <2>3, <2>4 DEF Resolve, Dead, Over
<1>10. CASE Digest
  BY <1>0, <1>10 DEF Digest, Accounts, Measured, InHand, Ahead, choice
<1>11. CASE Card
  BY <1>0, <1>11 DEF Card, Over, Accounts, Measured, InHand, Ahead, choice
<1>12. CASE Measures
  <2> DEFINE new == [cell |-> cell, engine |-> engine, label |-> label, ran |-> Served,
                     moved |-> moved]
  <2>1. /\ pc = "measure" /\ pc' = "next" /\ rows' = rows \cup {new}
        /\ UNCHANGED <<dead, listed, todo, cell>>
    <3>1. cell \in Roster
      BY <1>0, <1>12 DEF Measures, Setup
    <3>2. Tag = cell
      BY <3>1, WeightsAssumption DEF Tag
    <3> QED BY <1>0, <1>12, <3>2 DEF Measures, choice
  <2>2. Measured' = Measured \cup {cell} /\ Ahead = todo \cup {cell} /\ Ahead' = todo
    <3>1. Ahead = todo \cup {cell} /\ Ahead' = todo
      BY <2>1 DEF Ahead, InHand
    <3>2. new.cell = cell
      OBVIOUS
    <3>3. Measured' = Measured \cup {cell}
      BY <2>1, <3>2 DEF Measured
    <3> QED BY <3>1, <3>3
  <2>a. cell \in Nat
    BY <1>0, <1>a, <2>1 DEF Setup
  <2>3. \A r \in rows : r.cell # cell
    <3>1. \A r \in rows : cell < r.cell
      BY <1>0, <2>2 DEF Accounts
    <3> QED BY <2>a, <3>1
  <2>4. \A m \in todo : m < cell
    BY <1>0, <2>1 DEF Accounts
  <2>5. cell \notin dead
    <3>1. \A d \in dead : cell < d
      BY <1>0, <2>2 DEF Accounts
    <3> QED BY <2>a, <3>1
  <2>6. listed' = Measured' \cup dead' \cup Ahead'
    BY <1>0, <2>1, <2>2 DEF Accounts
  <2>7. \A r \in rows' : r.cell \notin dead' /\ \A m \in Ahead' : m < r.cell
    BY <1>0, <2>1, <2>2, <2>4, <2>5 DEF Accounts
  <2>8. \A r, s \in rows' : r.cell = s.cell => r = s
    BY <1>0, <2>1, <2>3 DEF Accounts
  <2>9. \A d \in dead', m \in Ahead' : m < d
    BY <1>0, <2>1, <2>2 DEF Accounts
  <2> QED BY <2>1, <2>6, <2>7, <2>8, <2>9 DEF Accounts
<1>13. CASE AllTasksFail
  <2>1. /\ pc = "measure" /\ pc' = "next" /\ dead' = dead \cup {cell}
        /\ UNCHANGED <<rows, listed, todo, cell>>
    BY <1>0, <1>13 DEF AllTasksFail, Dead, choice
  <2> QED BY <1>0, <2>1, CellDies
<1>14. CASE StartOrStop
  BY <1>0, <1>14 DEF StartOrStop, run, Accounts, Measured, InHand, Ahead
<1>15. CASE PullOrRemove
  BY <1>0, <1>15 DEF PullOrRemove, run, Accounts, Measured, InHand, Ahead
<1>16. CASE Load
  BY <1>0, <1>16 DEF Load, run, Accounts, Measured, InHand, Ahead
<1>17. CASE UNCHANGED vars
  BY <1>0, <1>17 DEF vars, Accounts, Measured, InHand, Ahead
<1> QED
  BY <1>1, <1>2, <1>3, <1>4, <1>5, <1>6, <1>7, <1>8, <1>9, <1>10, <1>11, <1>12, <1>13, <1>14,
     <1>15, <1>16, <1>17 DEF Next, Step

(* A tier that no exception ends accounts for every model that was pulled,   *)
(* each once, and at any time for the largest first.                        *)
THEOREM TierAccounts == Spec => []CellsAccounted
<1>1. Init => Accounts
  BY DEF Init, Accounts, Measured, InHand, Ahead
<1>2. Core /\ Core' /\ Accounts /\ [Next]_vars => Accounts'
  BY AccountsStep
<1>3. Accounts => CellsAccounted
  BY DEF Accounts, CellsAccounted, Measured, Ahead
<1> QED BY <1>1, <1>2, <1>3, CoreAlways, PTL DEF Spec

-----------------------------------------------------------------------------
(* BenchRow.  The counter moves with what the card draws; it has not       *)
(* started again since the run began.                                      *)
Moving == meter \in {"nvml", "apple"}
Steady == meter = "nvml" => base = Before

(* Samples are in the order of time, and no reading is older than what the *)
(* counter started from or, since it started, more than it shows.          *)
Sampled ==
  /\ \A i \in DOMAIN samples : samples[i].ts <= now
  /\ \A i, j \in DOMAIN samples : i < j => samples[i].ts < samples[j].ts
StuckReads == meter = "stuck counter" => \A i \in Readings : samples[i].energy = 0
Floor == Moving => \A i \in Readings : base <= samples[i].energy
Spread == \A i, j \in Readings : i < j => samples[j].energy <= samples[i].energy + drawn
Rising ==
  Steady => /\ \A i, j \in Readings : i < j => samples[i].energy <= samples[j].energy
            /\ Moving => \A i \in Readings : samples[i].energy <= drawn + base
Counted ==
  /\ meter = "no counter" => Readings = {}
  /\ meter = "nvml" => base <= Before
  /\ StuckReads /\ Floor /\ Spread /\ Rising

(* Items follow one another, and their pieces come before they end.        *)
InTime(it, t) == it.start <= t /\ \A k \in DOMAIN it.at : it.at[k] <= t
OneByOne ==
  /\ \A i \in DOMAIN items : /\ InTime(items[i], items[i].end)
                             /\ items[i].start < items[i].end /\ items[i].end <= now
  /\ \A i, j \in DOMAIN items : i < j => items[i].end <= items[j].start
  /\ InTime(item, now)
  /\ phase \in {"stream", "plain"} => \A i \in DOMAIN items : items[i].end <= item.start

(* What was asked for again is known to be, and answers are read alike.    *)
Answers ==
  /\ streaming_used => \A i \in DOMAIN items : items[i].mode = "stream"
  /\ phase = "stream" => item.mode = "stream"
  /\ phase = "plain" => ~ streaming_used
  /\ StreamedAsPlain

(* There is a row from its computation on, and it is what was computed.    *)
RowIsComputed ==
  /\ row = NoRow \/ (phase \in {"export", "over"} /\ row = Computed)
  /\ phase # "over" => fate = "none"
  /\ fate = "sent" => ~ Gated(row)

RowInv == RowTypeOK /\ Sampled /\ Counted /\ OneByOne /\ Answers /\ RowIsComputed

-----------------------------------------------------------------------------
(* Induction over the natural numbers, for a set of them: what holds of 0  *)
(* and, with each number, of the next.                                     *)
LEMMA LeastOf ==
  ASSUME NEW T, T \subseteq Nat, T # {}
  PROVE  \E x \in T : \A y \in T : x <= y
<1> DEFINE R == OpToRel(<, Nat)
<1>1. IsWellFoundedOn(R, Nat)
  BY NatLessThanWellFounded
<1>2. \A x, y \in Nat : (<<y, x>> \in R) <=> y < x
  BY DEF OpToRel
<1> HIDE DEF R
<1>3. PICK x \in T : \A y \in T : ~ (<<y, x>> \in R)
  BY <1>1, WFMin
<1>4. ASSUME NEW y \in T PROVE x <= y
  <2>1. x \in Nat /\ y \in Nat /\ ~ (y < x)
    BY <1>2, <1>3
  <2> QED BY <2>1
<1> QED BY <1>4

LEMMA SetInduction ==
  ASSUME NEW N, N \subseteq Nat, 0 \in N, \A n \in N : n + 1 \in N
  PROVE  N = Nat
<1> DEFINE T == Nat \ N
<1>1. CASE T # {}
  <2>1. PICK x \in T : \A y \in T : x <= y
    BY <1>1, LeastOf
  <2>2. x \in Nat /\ x # 0 /\ x \notin N
    BY <2>1
  <2>3. x - 1 \in Nat /\ x - 1 \notin T
    BY <2>1, <2>2
  <2>4. x - 1 \in N
    BY <2>3
  <2> QED BY <2>2, <2>4
<1> QED BY <1>1

(* The smallest and the largest of some indexes.                           *)
LEMMA MinOf ==
  ASSUME NEW T, T \subseteq Nat, T # {}
  PROVE  Min(T) \in T /\ \A y \in T : Min(T) <= y
  BY LeastOf DEF Min

LEMMA MaxOf ==
  ASSUME NEW n \in Nat, NEW T, T \subseteq 0 .. n, T # {}
  PROVE  Max(T) \in T /\ \A y \in T : y <= Max(T)
<1> DEFINE U == {k \in Nat : n - k \in T}
<1>1. U # {}
  <2>1. PICK x \in T : TRUE
    OBVIOUS
  <2>2. x \in Nat /\ n - x \in Nat /\ n - (n - x) = x
    OBVIOUS
  <2> QED BY <2>1, <2>2
<1>2. PICK k \in U : \A l \in U : k <= l
  BY <1>1, LeastOf
<1>3. n - k \in T
  BY <1>2
<1>4. ASSUME NEW y \in T PROVE n - k >= y
  <2>1. y \in Nat /\ n - y \in Nat /\ n - (n - y) = y
    OBVIOUS
  <2>2. n - y \in U
    BY <2>1
  <2> QED BY <1>2, <2>1, <2>2
<1>5. Max(T) \in T /\ \A y \in T : Max(T) >= y
  BY <1>3, <1>4 DEF Max
<1> QED BY <1>5

(* A function on 1 .. n is a sequence of that length.                      *)
LEMMA SeqOf ==
  ASSUME NEW n \in Nat, NEW S, NEW f \in [1 .. n -> S]
  PROVE  f \in Seq(S) /\ Len(f) = n
<1>1. f \in Seq(S)
  BY SeqDef
<1>2. Len(f) \in Nat /\ DOMAIN f = 1 .. Len(f)
  BY <1>1, LenProperties
<1>3. DOMAIN f = 1 .. n
  OBVIOUS
<1> QED BY <1>1, <1>2, <1>3

(* The running totals of a function of numbers.                            *)
IsTotals(f, g, n) == g = [i \in 0 .. n |-> IF i = 0 THEN 0 ELSE g[i - 1] + f[i]]
LEMMA TotalsExist ==
  ASSUME NEW f
  PROVE  \A n \in Nat : \E g : IsTotals(f, g, n)
<1> DEFINE N == {n \in Nat : \E g : IsTotals(f, g, n)}
<1>1. 0 \in N
  <2>1. IsTotals(f, [i \in 0 .. 0 |-> 0], 0)
    BY DEF IsTotals
  <2> QED BY <2>1
<1>2. ASSUME NEW n \in N PROVE n + 1 \in N
  <2>1. PICK g : IsTotals(f, g, n)
    OBVIOUS
  <2> DEFINE h == [i \in 0 .. n + 1 |-> IF i = n + 1 THEN g[n] + f[n + 1] ELSE g[i]]
  <2>2. h = [i \in 0 .. n + 1 |-> IF i = 0 THEN 0 ELSE h[i - 1] + f[i]]
    <3>1. ASSUME NEW i \in 0 .. n + 1 PROVE h[i] = IF i = 0 THEN 0 ELSE h[i - 1] + f[i]
      <4>0. n \in Nat /\ 0 \in 0 .. n
        OBVIOUS
      <4>1. CASE i = 0
        <5>1. h[i] = g[0] /\ g[0] = 0
          BY <2>1, <4>0, <4>1 DEF IsTotals
        <5> QED BY <4>1, <5>1
      <4>2. CASE i = n + 1
        <5>1. n \in 0 .. n + 1 /\ n # n + 1 /\ i - 1 = n /\ i # 0
          BY <4>0, <4>2
        <5>2. h[n] = g[n] /\ h[i] = g[n] + f[i]
          BY <4>2, <5>1
        <5> QED BY <5>1, <5>2
      <4>3. CASE i \in 1 .. n
        <5>1. i - 1 \in 0 .. n + 1 /\ i - 1 # n + 1 /\ i # n + 1 /\ i # 0 /\ i \in 0 .. n
          BY <4>0, <4>3
        <5>2. h[i - 1] = g[i - 1] /\ h[i] = g[i]
          BY <5>1
        <5>3. g[i] = g[i - 1] + f[i]
          BY <2>1, <5>1 DEF IsTotals
        <5> QED BY <5>1, <5>2, <5>3
      <4> QED BY <4>0, <4>1, <4>2, <4>3
    <3> QED BY <3>1
  <2> HIDE DEF h
  <2>3. IsTotals(f, h, n + 1)
    BY <2>2 DEF IsTotals
  <2> QED BY <2>3
<1> HIDE DEF N
<1>3. N = Nat
  BY <1>1, <1>2, SetInduction DEF N
<1> QED BY <1>3 DEF N

LEMMA TotalsAre ==
  ASSUME NEW S, NEW f \in Seq(S)
  PROVE  /\ Totals(f)[0] = 0
         /\ \A i \in 1 .. Len(f) : Totals(f)[i] = Totals(f)[i - 1] + f[i]
<1> DEFINE n == Len(f)
<1>1. n \in Nat
  BY LenProperties
<1>2. \E g : g = [i \in 0 .. n |-> IF i = 0 THEN 0 ELSE g[i - 1] + f[i]]
  BY <1>1, TotalsExist DEF IsTotals
<1>3. Totals(f) = CHOOSE g : g = [i \in 0 .. n |-> IF i = 0 THEN 0 ELSE g[i - 1] + f[i]]
  BY DEF Totals
<1>4. Totals(f) = [i \in 0 .. n |-> IF i = 0 THEN 0 ELSE Totals(f)[i - 1] + f[i]]
  BY <1>2, <1>3
<1> HIDE DEF n
<1>5. Totals(f)[0] = 0
  BY <1>1, <1>4
<1>6. ASSUME NEW i \in 1 .. n PROVE Totals(f)[i] = Totals(f)[i - 1] + f[i]
  <2>1. i \in 0 .. n /\ i # 0
    BY <1>1
  <2> QED BY <1>4, <2>1
<1> QED BY <1>5, <1>6 DEF n

(* A total that is bounded step by step is bounded: with g growing by at   *)
(* least f[i] at each i, the total of f is no more than the growth of g.   *)
LEMMA TotalIsBounded ==
  ASSUME NEW f \in Seq(Int), NEW g \in [0 .. Len(f) -> Int],
         \A i \in 1 .. Len(f) : f[i] <= g[i] - g[i - 1]
  PROVE  Total(f) \in Int /\ Total(f) <= g[Len(f)] - g[0]
<1> DEFINE n == Len(f)
           N == {i \in Nat : i <= n => Totals(f)[i] \in Int /\ Totals(f)[i] <= g[i] - g[0]}
<1>1. n \in Nat /\ \A i \in 1 .. n : f[i] \in Int
  BY LenProperties
<1>2. g[0] \in Int /\ 0 \in N
  BY <1>1, TotalsAre
<1>3. ASSUME NEW i \in N PROVE i + 1 \in N
  <2>1. CASE i + 1 <= n
    <3>1. i \in Nat /\ i \in 0 .. n /\ i + 1 \in 1 .. n /\ i + 1 \in 0 .. n /\ (i + 1) - 1 = i
      BY <1>1, <2>1
    <3>2. Totals(f)[i] \in Int /\ Totals(f)[i] <= g[i] - g[0]
      BY <1>1, <3>1
    <3>3. Totals(f)[i + 1] = Totals(f)[i] + f[i + 1]
      BY <3>1, TotalsAre
    <3>4. g[i] \in Int /\ g[i + 1] \in Int /\ f[i + 1] \in Int /\ f[i + 1] <= g[i + 1] - g[i]
      BY <1>1, <3>1
    <3>5. Totals(f)[i + 1] \in Int /\ Totals(f)[i + 1] <= g[i + 1] - g[0]
      <4> DEFINE t == Totals(f)[i]
                 d == f[i + 1]
                 a == g[0]
                 b == g[i]
                 c == g[i + 1]
      <4>1. a \in Int /\ b \in Int /\ c \in Int /\ d \in Int /\ t \in Int /\ t <= b - a /\ d <= c - b
        BY <1>2, <3>2, <3>4
      <4> HIDE DEF t, d, a, b, c
      <4>2. t + d \in Int /\ t + d <= c - a
        BY <4>1
      <4> QED BY <3>3, <4>2 DEF t, d, a, c
    <3> QED BY <3>1, <3>5
  <2>2. CASE ~ (i + 1 <= n)
    BY <2>2
  <2> QED BY <2>1, <2>2
<1>4. N = Nat
  BY <1>2, <1>3, SetInduction
<1>5. n \in N
  BY <1>1, <1>4
<1> QED BY <1>1, <1>5 DEF Total

LEMMA TotalIsInt ==
  ASSUME NEW f \in Seq(Int)
  PROVE  Total(f) \in Int
<1>1. Len(f) \in Nat /\ \A i \in 1 .. Len(f) : f[i] \in Int
  BY LenProperties
<1> DEFINE N == {i \in Nat : i <= Len(f) => Totals(f)[i] \in Int}
<1>2. 0 \in N
  BY TotalsAre
<1>3. ASSUME NEW i \in N PROVE i + 1 \in N
  <2>1. CASE i + 1 <= Len(f)
    <3>1. i \in Nat /\ i <= Len(f) /\ i + 1 \in 1 .. Len(f) /\ (i + 1) - 1 = i
      BY <1>1, <2>1
    <3>2. Totals(f)[i] \in Int /\ f[i + 1] \in Int
      BY <1>1, <3>1
    <3>3. Totals(f)[i + 1] = Totals(f)[i] + f[i + 1]
      BY <3>1, TotalsAre
    <3> QED BY <3>1, <3>2, <3>3
  <2>2. CASE ~ (i + 1 <= Len(f))
    BY <2>2
  <2> QED BY <2>1, <2>2
<1>4. N = Nat
  BY <1>2, <1>3, SetInduction
<1> QED BY <1>1, <1>4 DEF Total

-----------------------------------------------------------------------------
(* Dividing rounds down: a product over a factor that it does not exceed,  *)
(* and a larger product over the same divisor.                             *)
LEMMA DivIs ==
  ASSUME NEW a \in Int, NEW k \in Nat, k > 0
  PROVE  a \div k \in Int /\ k * (a \div k) <= a /\ a < k * (a \div k) + k
  OBVIOUS

LEMMA TimesGrows ==
  ASSUME NEW k \in Nat, NEW x \in Int, NEW y \in Int, x <= y
  PROVE  k * x <= k * y
<1>1. y - x \in Nat
  OBVIOUS
<1>2. k * (y - x) \in Nat
  BY <1>1
<1> QED BY <1>2

LEMMA DivGrows ==
  ASSUME NEW a \in Int, NEW b \in Int, NEW k \in Nat, k > 0, a <= b
  PROVE  a \div k <= b \div k
<1> DEFINE p == a \div k
           q == b \div k
<1>1. /\ p \in Int /\ k * p <= a
      /\ q \in Int /\ b < k * q + k
  BY DivIs
<1> HIDE DEF p, q
<1>2. CASE q + 1 <= p
  <2>1. k * (q + 1) <= k * p
    BY <1>1, <1>2, TimesGrows
  <2>2. k * (q + 1) = k * q + k
    BY <1>1
  <2> QED BY <1>1, <2>1, <2>2
<1>3. CASE p <= q
  BY <1>3 DEF p, q
<1> QED BY <1>1, <1>2, <1>3

LEMMA DivOfTimes ==
  ASSUME NEW d \in Int, NEW k \in Nat, k > 0
  PROVE  (k * d) \div k = d
<1> DEFINE q == (k * d) \div k
<1>1. q \in Int /\ k * q <= k * d /\ k * d < k * q + k
  BY DivIs
<1> HIDE DEF q
<1>2. CASE q + 1 <= d
  <2>1. k * (q + 1) <= k * d
    BY <1>1, <1>2, TimesGrows
  <2> QED BY <1>1, <2>1
<1>3. CASE d + 1 <= q
  <2>1. k * (d + 1) <= k * q
    BY <1>1, <1>3, TimesGrows
  <2> QED BY <1>1, <2>1
<1>4. CASE q = d
  BY <1>4 DEF q
<1> QED BY <1>1, <1>2, <1>3, <1>4

(* What is read between two readings lies between them and grows with time. *)
LEMMA BetweenIsBetween ==
  ASSUME NEW e0 \in Int, NEW e1 \in Int, e0 <= e1,
         NEW k \in Nat, k > 0, NEW t \in Nat, t <= k
  PROVE  /\ Between(e0, e1, t, k) \in Int
         /\ e0 <= Between(e0, e1, t, k) /\ Between(e0, e1, t, k) <= e1
<1> DEFINE d == e1 - e0
<1>1. d \in Nat
  OBVIOUS
<1> HIDE DEF d
<1>2. t * d \in Nat /\ t * d <= k * d
  <2>1. d * t <= d * k
    BY <1>1, TimesGrows
  <2>2. d * t = t * d /\ d * k = k * d
    BY <1>1
  <2> QED BY <1>1, <2>1, <2>2
<1>3. (t * d) \div k <= (k * d) \div k
  BY <1>1, <1>2, DivGrows
<1>4. (k * 0) \div k <= (t * d) \div k
  BY <1>1, <1>2, DivGrows
<1>5. (t * d) \div k \in Int /\ (t * d) \div k <= d /\ 0 <= (t * d) \div k
  <2>1. (t * d) \div k \in Int
    BY <1>2, DivIs
  <2>2. (k * d) \div k = d /\ (k * 0) \div k = 0
    BY <1>1, DivOfTimes
  <2> QED BY <1>3, <1>4, <2>1, <2>2
<1> QED BY <1>5 DEF Between, d

LEMMA BetweenGrows ==
  ASSUME NEW e0 \in Int, NEW e1 \in Int, e0 <= e1,
         NEW k \in Nat, k > 0, NEW t \in Nat, NEW u \in Nat, t <= u
  PROVE  Between(e0, e1, t, k) <= Between(e0, e1, u, k)
<1> DEFINE d == e1 - e0
<1>1. d \in Nat
  OBVIOUS
<1> HIDE DEF d
<1>2. t * d \in Int /\ u * d \in Int /\ t * d <= u * d
  <2>1. d * t <= d * u
    BY <1>1, TimesGrows
  <2>2. d * t = t * d /\ d * u = u * d
    BY <1>1
  <2> QED BY <1>1, <2>1, <2>2
<1>3. (t * d) \div k <= (u * d) \div k
  BY <1>2, DivGrows
<1>4. (t * d) \div k \in Int /\ (u * d) \div k \in Int
  BY <1>2, DivIs
<1> QED BY <1>3, <1>4 DEF Between, d

-----------------------------------------------------------------------------
(* The readings of the counter.                                            *)
LEMMA ReadingsTyped ==
  ASSUME RowTypeOK
  PROVE  /\ Len(samples) \in Nat /\ DOMAIN samples = 1 .. Len(samples)
         /\ \A i \in DOMAIN samples : samples[i] \in Sample
         /\ \A i \in DOMAIN samples : samples[i].ts \in Nat
         /\ Readings \subseteq 1 .. Len(samples)
         /\ \A i \in Readings : samples[i].energy \in Nat
<1>1. samples \in Seq(Sample)
  BY DEF RowTypeOK
<1>2. Len(samples) \in Nat /\ DOMAIN samples = 1 .. Len(samples) /\ samples \in [1 .. Len(samples) -> Sample]
  BY <1>1, LenProperties
<1>3. \A i \in DOMAIN samples : samples[i] \in Sample
  BY <1>2
<1>4. \A i \in DOMAIN samples : samples[i].ts \in Nat /\ samples[i].energy \in Nat \cup {Nil}
  BY <1>3 DEF Sample
<1> QED BY <1>2, <1>3, <1>4 DEF Readings

(* The readings rise, when the counter has not started again.              *)
Rises == \A i, j \in Readings : i < j => samples[i].energy <= samples[j].energy
Metered == RowTypeOK /\ Sampled /\ Rises

LEMMA FirstAndLast ==
  ASSUME Metered, Readings # {}
  PROVE  /\ Min(Readings) \in Readings /\ Max(Readings) \in Readings
         /\ \A i \in Readings : /\ samples[Min(Readings)].energy <= samples[i].energy
                                /\ samples[i].energy <= samples[Max(Readings)].energy
<1> DEFINE f == Min(Readings)
           l == Max(Readings)
<1>1. Len(samples) \in Nat /\ Readings \subseteq 1 .. Len(samples) /\ \A i \in Readings : samples[i].energy \in Nat
  BY ReadingsTyped DEF Metered
<1>2. Readings \subseteq Nat /\ Readings \subseteq 0 .. Len(samples)
  BY <1>1
<1>3. f \in Readings /\ \A i \in Readings : f <= i
  BY <1>2, MinOf
<1>4. l \in Readings /\ \A i \in Readings : i <= l
  BY <1>1, <1>2, MaxOf
<1> HIDE DEF f, l
<1>5. ASSUME NEW i \in Readings
      PROVE  samples[f].energy <= samples[i].energy /\ samples[i].energy <= samples[l].energy
  <2>1. f \in Nat /\ i \in Nat /\ l \in Nat /\ f <= i /\ i <= l
    BY <1>2, <1>3, <1>4
  <2>2. samples[f].energy <= samples[i].energy
    BY <1>1, <1>3, <2>1 DEF Metered, Rises
  <2>3. samples[i].energy <= samples[l].energy
    BY <1>1, <1>4, <2>1 DEF Metered, Rises
  <2> QED BY <2>2, <2>3
<1> QED BY <1>3, <1>4, <1>5 DEF f, l

(* The readings next to a time: one index, or two that follow each other.  *)
Lo(t) == Max(ReadBefore(t))
Hi(t) == Min(ReadAfter(t))
Inside(t) == ReadBefore(t) # {} /\ ReadAfter(t) # {}

LEMMA NextTo ==
  ASSUME RowTypeOK, Sampled, NEW t \in Nat, Inside(t)
  PROVE  /\ Lo(t) \in Readings /\ Hi(t) \in Readings /\ Lo(t) <= Hi(t)
         /\ samples[Lo(t)].ts <= t /\ t <= samples[Hi(t)].ts
         /\ \A i \in Readings : samples[i].ts <= t => i <= Lo(t)
         /\ \A i \in Readings : t <= samples[i].ts => Hi(t) <= i
<1>1. /\ Len(samples) \in Nat /\ Readings \subseteq 1 .. Len(samples)
      /\ DOMAIN samples = 1 .. Len(samples)
      /\ \A i \in Readings : i \in Nat /\ i \in DOMAIN samples /\ samples[i].ts \in Nat
  <2>1. /\ Len(samples) \in Nat /\ Readings \subseteq 1 .. Len(samples)
        /\ DOMAIN samples = 1 .. Len(samples)
        /\ \A i \in DOMAIN samples : samples[i].ts \in Nat
    BY ReadingsTyped
  <2> QED BY <2>1
<1>2. ReadBefore(t) \subseteq 0 .. Len(samples) /\ ReadAfter(t) \subseteq Nat
  <2>1. ReadBefore(t) \subseteq Readings /\ ReadAfter(t) \subseteq Readings
    BY DEF ReadBefore, ReadAfter
  <2> QED BY <1>1, <2>1
<1>3. Lo(t) \in ReadBefore(t) /\ \A i \in ReadBefore(t) : i <= Lo(t)
  BY <1>1, <1>2, MaxOf DEF Lo, Inside
<1>4. Hi(t) \in ReadAfter(t) /\ \A i \in ReadAfter(t) : Hi(t) <= i
  BY <1>2, MinOf DEF Hi, Inside
<1>5. /\ Lo(t) \in Readings /\ samples[Lo(t)].ts <= t
      /\ Hi(t) \in Readings /\ samples[Hi(t)].ts >= t
  BY <1>3, <1>4 DEF ReadBefore, ReadAfter
<1>6. /\ Lo(t) \in Nat /\ Hi(t) \in Nat /\ samples[Lo(t)].ts \in Nat /\ samples[Hi(t)].ts \in Nat
      /\ Lo(t) \in DOMAIN samples /\ Hi(t) \in DOMAIN samples
  BY <1>1, <1>5
<1>7. Lo(t) <= Hi(t)
  <2>1. CASE Hi(t) < Lo(t)
    <3>1. samples[Hi(t)].ts < samples[Lo(t)].ts
      BY <1>6, <2>1 DEF Sampled
    <3> QED BY <1>5, <1>6, <3>1
  <2> QED BY <1>6, <2>1
<1>8. t <= samples[Hi(t)].ts
  BY <1>5, <1>6
<1>9. ASSUME NEW i \in Readings
      PROVE  (samples[i].ts <= t => i <= Lo(t)) /\ (t <= samples[i].ts => Hi(t) <= i)
  <2>1. samples[i].ts \in Nat
    BY <1>1
  <2>2. samples[i].ts <= t => i \in ReadBefore(t)
    BY DEF ReadBefore
  <2>3. t <= samples[i].ts => i \in ReadAfter(t)
    BY <2>1 DEF ReadAfter
  <2> QED BY <1>3, <1>4, <2>2, <2>3
<1> QED BY <1>5, <1>7, <1>8, <1>9

LEMMA InterpolateIs ==
  ASSUME RowTypeOK, Sampled, NEW t \in Nat, Inside(t)
  PROVE  /\ Lo(t) = Hi(t) => Interpolate(t) = samples[Lo(t)].energy
         /\ Lo(t) # Hi(t) =>
              /\ Interpolate(t) = Between(samples[Lo(t)].energy, samples[Hi(t)].energy,
                                          t - samples[Lo(t)].ts, samples[Hi(t)].ts - samples[Lo(t)].ts)
              /\ samples[Hi(t)].ts - samples[Lo(t)].ts \in Nat
              /\ samples[Hi(t)].ts - samples[Lo(t)].ts > 0
              /\ t - samples[Lo(t)].ts \in Nat
              /\ t - samples[Lo(t)].ts <= samples[Hi(t)].ts - samples[Lo(t)].ts
<1>1. /\ Lo(t) \in Readings /\ Hi(t) \in Readings /\ Lo(t) <= Hi(t)
      /\ samples[Lo(t)].ts <= t /\ t <= samples[Hi(t)].ts
  BY NextTo
<1>2. /\ Lo(t) \in Nat /\ Hi(t) \in Nat /\ samples[Lo(t)].ts \in Nat /\ samples[Hi(t)].ts \in Nat
      /\ Lo(t) \in DOMAIN samples /\ Hi(t) \in DOMAIN samples
  BY <1>1, ReadingsTyped
<1>3. ASSUME Lo(t) # Hi(t) PROVE samples[Lo(t)].ts < samples[Hi(t)].ts
  BY <1>1, <1>2, <1>3 DEF Sampled
<1>4. Interpolate(t) = IF Lo(t) = Hi(t) THEN samples[Lo(t)].energy
                       ELSE Between(samples[Lo(t)].energy, samples[Hi(t)].energy,
                                    t - samples[Lo(t)].ts, samples[Hi(t)].ts - samples[Lo(t)].ts)
  BY DEF Interpolate, Inside, Lo, Hi
<1> QED BY <1>1, <1>2, <1>3, <1>4

LEMMA InterpolateLies ==
  ASSUME Metered, NEW t \in Nat, Inside(t)
  PROVE  /\ Interpolate(t) \in Nat
         /\ samples[Lo(t)].energy <= Interpolate(t) /\ Interpolate(t) <= samples[Hi(t)].energy
<1>1. Lo(t) \in Readings /\ Hi(t) \in Readings /\ Lo(t) <= Hi(t)
  BY NextTo DEF Metered
<1>2. /\ samples[Lo(t)].energy \in Nat /\ samples[Hi(t)].energy \in Nat
      /\ Lo(t) \in Nat /\ Hi(t) \in Nat
  BY <1>1, ReadingsTyped DEF Metered
<1>3. CASE Lo(t) = Hi(t)
  BY <1>2, <1>3, InterpolateIs DEF Metered
<1>4. CASE Lo(t) # Hi(t)
  <2>1. samples[Lo(t)].energy <= samples[Hi(t)].energy
    BY <1>1, <1>2, <1>4 DEF Metered, Rises
  <2>2. /\ Interpolate(t) \in Int
        /\ samples[Lo(t)].energy <= Interpolate(t) /\ Interpolate(t) <= samples[Hi(t)].energy
    <3> DEFINE e0 == samples[Lo(t)].energy
               e1 == samples[Hi(t)].energy
               k == samples[Hi(t)].ts - samples[Lo(t)].ts
               x == t - samples[Lo(t)].ts
    <3>1. Interpolate(t) = Between(e0, e1, x, k) /\ k \in Nat /\ k > 0 /\ x \in Nat /\ x <= k
      BY <1>4, InterpolateIs DEF Metered
    <3>2. e0 \in Int /\ e1 \in Int /\ e0 <= e1
      BY <1>2, <2>1
    <3> HIDE DEF e0, e1, k, x
    <3>3. Between(e0, e1, x, k) \in Int /\ e0 <= Between(e0, e1, x, k) /\ Between(e0, e1, x, k) <= e1
      BY <3>1, <3>2, BetweenIsBetween
    <3> QED BY <3>1, <3>3 DEF e0, e1
  <2> QED BY <1>2, <2>2
<1> QED BY <1>3, <1>4

LEMMA InterpolateGrows ==
  ASSUME Metered, NEW t \in Nat, NEW u \in Nat, t <= u, Inside(t), Inside(u)
  PROVE  Interpolate(t) <= Interpolate(u)
<1>1. /\ Lo(t) \in Readings /\ Hi(t) \in Readings /\ Lo(t) <= Hi(t)
      /\ Lo(u) \in Readings /\ Hi(u) \in Readings /\ Lo(u) <= Hi(u)
      /\ samples[Lo(t)].ts <= t /\ t <= samples[Hi(t)].ts
      /\ samples[Lo(u)].ts <= u /\ u <= samples[Hi(u)].ts
  BY NextTo DEF Metered
<1>2. ASSUME NEW i \in Readings PROVE i \in Nat /\ samples[i].ts \in Nat /\ samples[i].energy \in Nat
  BY ReadingsTyped DEF Metered
<1>3. Interpolate(t) \in Nat /\ Interpolate(u) \in Nat
  BY InterpolateLies
<1>4. CASE Hi(t) <= Lo(u)
  <2>1. samples[Hi(t)].energy <= samples[Lo(u)].energy
    BY <1>1, <1>2, <1>4 DEF Metered, Rises
  <2>2. Interpolate(t) <= samples[Hi(t)].energy /\ samples[Lo(u)].energy <= Interpolate(u)
    BY InterpolateLies
  <2>3. samples[Hi(t)].energy \in Nat /\ samples[Lo(u)].energy \in Nat
    BY <1>1, <1>2
  <2> QED BY <1>3, <2>1, <2>2, <2>3
<1>5. CASE Lo(u) < Hi(t)
  <2>1. Lo(u) = Lo(t)
    <3>1. Lo(t) <= Lo(u)
      <4>1. samples[Lo(t)].ts <= u
        BY <1>1, <1>2
      <4> QED BY <1>1, <4>1, NextTo DEF Metered
    <3>2. samples[Lo(u)].ts <= t
      <4>1. ~ (Hi(t) <= Lo(u))
        BY <1>1, <1>2, <1>5
      <4>2. ~ (t <= samples[Lo(u)].ts)
        BY <1>1, <4>1, NextTo DEF Metered
      <4> QED BY <1>1, <1>2, <4>2
    <3>3. Lo(u) <= Lo(t)
      BY <1>1, <3>2, NextTo DEF Metered
    <3> QED BY <1>1, <1>2, <3>1, <3>3
  <2>2. Hi(u) = Hi(t)
    <3>1. Hi(t) <= Hi(u)
      <4>1. t <= samples[Hi(u)].ts
        BY <1>1, <1>2
      <4> QED BY <1>1, <4>1, NextTo DEF Metered
    <3>2. u <= samples[Hi(t)].ts
      <4>1. ~ (Hi(t) <= Lo(u))
        BY <1>1, <1>2, <1>5
      <4>2. ~ (samples[Hi(t)].ts <= u)
        BY <1>1, <4>1, NextTo DEF Metered
      <4> QED BY <1>1, <1>2, <4>2
    <3>3. Hi(u) <= Hi(t)
      BY <1>1, <3>2, NextTo DEF Metered
    <3> QED BY <1>1, <1>2, <3>1, <3>3
  <2> DEFINE e0 == samples[Lo(t)].energy
             e1 == samples[Hi(t)].energy
             k == samples[Hi(t)].ts - samples[Lo(t)].ts
             x == t - samples[Lo(t)].ts
             y == u - samples[Lo(t)].ts
  <2>3. Lo(t) # Hi(t) /\ Lo(t) < Hi(t)
    BY <1>1, <1>2, <1>5, <2>1
  <2>4. Interpolate(t) = Between(e0, e1, x, k) /\ k \in Nat /\ k > 0 /\ x \in Nat
    BY <2>3, InterpolateIs DEF Metered
  <2>5. Interpolate(u) = Between(e0, e1, y, k) /\ y \in Nat
    BY <2>1, <2>2, <2>3, InterpolateIs DEF Metered
  <2>6. e0 \in Int /\ e1 \in Int /\ e0 <= e1
    BY <1>1, <1>2, <2>3 DEF Metered, Rises
  <2>7. x <= y
    BY <1>1, <1>2
  <2> HIDE DEF e0, e1, k, x, y
  <2> QED BY <2>4, <2>5, <2>6, <2>7, BetweenGrows
<1> QED BY <1>1, <1>2, <1>4, <1>5

(* What the counter has shown by a time, if nothing was drawn before the   *)
(* first reading and nothing after the last.                               *)
Level(t) ==
  IF ReadBefore(t) = {} THEN samples[Min(Readings)].energy
  ELSE IF ReadAfter(t) = {} THEN samples[Max(Readings)].energy
  ELSE Interpolate(t)

LEMMA LevelLies ==
  ASSUME Metered, Readings # {}, NEW t \in Nat
  PROVE  /\ Level(t) \in Nat
         /\ samples[Min(Readings)].energy <= Level(t) /\ Level(t) <= samples[Max(Readings)].energy
<1>1. /\ Min(Readings) \in Readings /\ Max(Readings) \in Readings
      /\ \A i \in Readings : /\ samples[Min(Readings)].energy <= samples[i].energy
                             /\ samples[i].energy <= samples[Max(Readings)].energy
  BY FirstAndLast
<1>2. \A i \in Readings : samples[i].energy \in Nat
  BY ReadingsTyped DEF Metered
<1>3. CASE Inside(t)
  <2>1. Level(t) = Interpolate(t)
    BY <1>3 DEF Level, Inside
  <2>2. /\ Interpolate(t) \in Nat /\ Lo(t) \in Readings /\ Hi(t) \in Readings
        /\ samples[Lo(t)].energy <= Interpolate(t) /\ Interpolate(t) <= samples[Hi(t)].energy
    BY <1>3, InterpolateLies, NextTo DEF Metered
  <2>3. /\ samples[Min(Readings)].energy <= samples[Lo(t)].energy
        /\ samples[Hi(t)].energy <= samples[Max(Readings)].energy
    BY <1>1, <2>2
  <2>4. /\ samples[Min(Readings)].energy \in Nat /\ samples[Lo(t)].energy \in Nat
        /\ samples[Max(Readings)].energy \in Nat /\ samples[Hi(t)].energy \in Nat
    BY <1>1, <1>2, <2>2
  <2> QED BY <2>1, <2>2, <2>3, <2>4
<1>4. CASE ~ Inside(t)
  <2>1. Level(t) \in {samples[Min(Readings)].energy, samples[Max(Readings)].energy}
    BY <1>4 DEF Level, Inside
  <2>2. samples[Min(Readings)].energy <= samples[Max(Readings)].energy
    BY <1>1
  <2>3. samples[Min(Readings)].energy \in Nat /\ samples[Max(Readings)].energy \in Nat
    BY <1>1, <1>2
  <2> QED BY <2>1, <2>2, <2>3
<1> QED BY <1>3, <1>4

LEMMA LevelGrows ==
  ASSUME Metered, Readings # {}, NEW t \in Nat, NEW u \in Nat, t <= u
  PROVE  Level(t) <= Level(u)
<1>1. \A i \in Readings : samples[i].ts \in Nat
  BY ReadingsTyped DEF Metered, Readings
<1>2. ReadBefore(t) \subseteq ReadBefore(u)
  <2>1. ASSUME NEW i \in Readings, samples[i].ts <= t PROVE samples[i].ts <= u
    BY <1>1, <2>1
  <2> QED BY <2>1 DEF ReadBefore
<1>3. ReadAfter(u) \subseteq ReadAfter(t)
  <2>1. ASSUME NEW i \in Readings, samples[i].ts >= u PROVE samples[i].ts >= t
    BY <1>1, <2>1
  <2> QED BY <2>1 DEF ReadAfter
<1>4. CASE ReadBefore(t) = {}
  BY <1>4, LevelLies DEF Level
<1>5. CASE ReadBefore(t) # {} /\ ReadAfter(u) = {}
  <2>1. Level(u) = samples[Max(Readings)].energy
    BY <1>2, <1>5 DEF Level
  <2> QED BY <2>1, LevelLies
<1>6. CASE ReadBefore(t) # {} /\ ReadAfter(u) # {}
  <2>1. Inside(t) /\ Inside(u)
    BY <1>2, <1>3, <1>6 DEF Inside
  <2>2. Level(t) = Interpolate(t) /\ Level(u) = Interpolate(u)
    BY <2>1 DEF Level, Inside
  <2> QED BY <2>1, <2>2, InterpolateGrows
<1> QED BY <1>4, <1>5, <1>6

(* The energy of an item, where it is known, is what the counter has risen *)
(* by while it was under way.                                              *)
LEMMA ItemWithin ==
  ASSUME Metered, Readings # {}, NEW it, it.start \in Nat, it.end \in Nat, it.start <= it.end
  PROVE  Known(ItemEnergy(it)) \in Int /\ Known(ItemEnergy(it)) <= Level(it.end) - Level(it.start)
<1> DEFINE from == Interpolate(it.start)
           to == Interpolate(it.end)
<1>1. Level(it.start) \in Nat /\ Level(it.end) \in Nat /\ Level(it.start) <= Level(it.end)
  BY LevelLies, LevelGrows
<1>2. ItemEnergy(it) = IF \/ ~ TwoReadings \/ from = Nil \/ to = Nil \/ to < from
                         THEN Nil ELSE to - from
  BY DEF ItemEnergy
<1>3. CASE ItemEnergy(it) = Nil
  <2>1. Known(ItemEnergy(it)) = 0
    BY <1>3 DEF Known
  <2> QED BY <1>1, <2>1
<1>4. CASE ItemEnergy(it) # Nil
  <2>1. from # Nil /\ to # Nil /\ ItemEnergy(it) = to - from
    BY <1>2, <1>4
  <2>2. Inside(it.start) /\ Inside(it.end)
    BY <2>1 DEF Interpolate, Inside
  <2>3. from = Level(it.start) /\ to = Level(it.end)
    BY <2>2 DEF Level, Inside
  <2>4. Known(ItemEnergy(it)) = to - from
    BY <1>4, <2>1 DEF Known
  <2> HIDE DEF from, to
  <2> QED BY <1>1, <2>3, <2>4
<1> QED BY <1>3, <1>4

LEMMA ItemsTyped ==
  ASSUME RowTypeOK, OneByOne
  PROVE  /\ Len(items) \in Nat /\ DOMAIN items = 1 .. Len(items)
         /\ \A i \in DOMAIN items : /\ items[i] \in Item
                                    /\ items[i].start \in Nat /\ items[i].end \in Nat
                                    /\ items[i].at \in Seq(Nat)
<1>1. items \in Seq(Item)
  BY DEF RowTypeOK
<1>2. Len(items) \in Nat /\ DOMAIN items = 1 .. Len(items) /\ items \in [1 .. Len(items) -> Item]
  BY <1>1, LenProperties
<1>3. ASSUME NEW i \in DOMAIN items
      PROVE  items[i] \in Item /\ items[i].start \in Nat /\ items[i].end \in Nat /\ items[i].at \in Seq(Nat)
  <2>1. items[i] \in Item
    BY <1>2
  <2>2. items[i].start \in Nat /\ items[i].end \in Nat \cup {Nil} /\ items[i].at \in Seq(Nat)
    BY <2>1 DEF Item
  <2>3. items[i].start < items[i].end
    BY DEF OneByOne
  <2> QED BY <2>1, <2>2, <2>3 DEF Nil
<1> QED BY <1>2, <1>3

(* The items come one after the other, so what they have together is no    *)
(* more than what lies between the first reading and the last.             *)
LEMMA ItemsWithin ==
  ASSUME Metered, OneByOne, Readings # {}
  PROVE  Total([i \in DOMAIN items |-> Known(ItemEnergy(items[i]))])
           <= samples[Max(Readings)].energy - samples[Min(Readings)].energy
<1> DEFINE n == Len(items)
           f == [i \in DOMAIN items |-> Known(ItemEnergy(items[i]))]
           first == samples[Min(Readings)].energy
           last == samples[Max(Readings)].energy
           g == [i \in 0 .. n |-> IF i = 0 THEN first ELSE Level(items[i].end)]
<1>1. /\ n \in Nat /\ DOMAIN items = 1 .. n
      /\ \A i \in 1 .. n : items[i].start \in Nat /\ items[i].end \in Nat
  BY ItemsTyped DEF Metered
<1>2. first \in Nat /\ last \in Nat /\ first <= last
  BY FirstAndLast, ReadingsTyped DEF Metered
<1>3. ASSUME NEW i \in 1 .. n
      PROVE  /\ Level(items[i].start) \in Nat /\ Level(items[i].end) \in Nat
             /\ first <= Level(items[i].start) /\ Level(items[i].end) <= last
             /\ Known(ItemEnergy(items[i])) \in Int
             /\ Known(ItemEnergy(items[i])) <= Level(items[i].end) - Level(items[i].start)
  <2>1. items[i].start \in Nat /\ items[i].end \in Nat
    BY <1>1
  <2>2. items[i].start < items[i].end
    BY <1>1 DEF OneByOne
  <2>3. items[i].start <= items[i].end
    BY <2>1, <2>2
  <2> QED BY <2>1, <2>3, ItemWithin, LevelLies
<1>4. f \in [1 .. n -> Int]
  BY <1>1, <1>3
<1>5. f \in Seq(Int) /\ Len(f) = n
  BY <1>1, <1>4, SeqOf
<1>6. g \in [0 .. n -> Int]
  <2>1. ASSUME NEW i \in 0 .. n PROVE (IF i = 0 THEN first ELSE Level(items[i].end)) \in Int
    <3>1. CASE i = 0
      BY <1>2, <3>1
    <3>2. CASE i # 0
      <4>1. i \in 1 .. n
        BY <1>1, <3>2
      <4>2. Level(items[i].end) \in Int
        BY <1>3, <4>1
      <4> QED BY <3>2, <4>2
    <3> QED BY <3>1, <3>2
  <2> QED BY <2>1
<1>7. ASSUME NEW i \in 1 .. n PROVE f[i] <= g[i] - g[i - 1]
  <2>1. i \in 0 .. n /\ i # 0 /\ i - 1 \in 0 .. n
    BY <1>1
  <2>2. f[i] = Known(ItemEnergy(items[i])) /\ g[i] = Level(items[i].end)
    BY <1>1, <2>1
  <2>3. g[i - 1] \in Int /\ g[i - 1] <= Level(items[i].start)
    <3>1. CASE i = 1
      <4>1. g[i - 1] = first
        BY <2>1, <3>1
      <4> QED BY <1>2, <1>3, <4>1
    <3>2. CASE i # 1
      <4>1. i - 1 \in 1 .. n /\ i - 1 < i
        BY <1>1, <3>2
      <4>2. items[i - 1].end <= items[i].start
        BY <1>1, <4>1 DEF OneByOne
      <4>3. Level(items[i - 1].end) <= Level(items[i].start)
        BY <1>1, <4>1, <4>2, LevelGrows
      <4>4. g[i - 1] = Level(items[i - 1].end)
        BY <2>1, <4>1
      <4>5. Level(items[i - 1].end) \in Nat
        BY <1>3, <4>1
      <4> QED BY <4>3, <4>4, <4>5
    <3> QED BY <3>1, <3>2
  <2> HIDE DEF f, g
  <2> QED BY <1>3, <2>2, <2>3
<1>8. g[0] = first /\ g[n] \in Int /\ g[n] <= last
  <2>1. 0 \in 0 .. n /\ n \in 0 .. n
    BY <1>1
  <2>2. CASE n = 0
    BY <1>2, <2>1, <2>2
  <2>3. CASE n # 0
    <3>1. n \in 1 .. n /\ g[n] = Level(items[n].end)
      BY <1>1, <2>1, <2>3
    <3> QED BY <1>3, <2>1, <3>1
  <2> QED BY <2>2, <2>3
<1> HIDE DEF f, g, first, last, n
<1>9. Total(f) \in Int /\ Total(f) <= g[Len(f)] - g[0]
  BY <1>5, <1>6, <1>7, TotalIsBounded
<1>10. Total(f) <= last - first
  BY <1>2, <1>5, <1>8, <1>9
<1> QED BY <1>10 DEF f, first, last

-----------------------------------------------------------------------------
(* What each part of the invariant says of the row that is computed.       *)
LEMMA CounterWithinDraw ==
  ASSUME RowTypeOK, Counted
  PROVE  CounterEnergy \in Int /\ CounterEnergy <= drawn
<1> DEFINE f == Min(Readings)
           l == Max(Readings)
<1>1. /\ Len(samples) \in Nat /\ Readings \subseteq 1 .. Len(samples)
      /\ \A i \in Readings : samples[i].energy \in Nat
  BY ReadingsTyped
<1>2. drawn \in Nat
  BY DEF RowTypeOK
<1>3. CASE TwoReadings
  <2>1. Readings # {} /\ Readings \subseteq Nat /\ Readings \subseteq 0 .. Len(samples)
    BY <1>1, <1>3 DEF TwoReadings
  <2>2. f \in Readings /\ \A i \in Readings : f <= i
    BY <2>1, MinOf
  <2>3. l \in Readings
    BY <1>1, <2>1, MaxOf
  <2>4. samples[l].energy <= samples[f].energy + drawn
    <3>1. f \in Nat /\ l \in Nat /\ f <= l
      BY <2>1, <2>2, <2>3
    <3>2. CASE f = l
      <4>1. samples[f].energy \in Nat
        BY <1>1, <2>2
      <4> HIDE DEF f, l
      <4> QED BY <1>2, <3>2, <4>1
    <3>3. CASE f < l
      BY <2>2, <2>3, <3>3 DEF Counted, Spread
    <3> QED BY <3>1, <3>2, <3>3
  <2>5. CounterEnergy = IF samples[l].energy - samples[f].energy < 0 THEN Nil
                        ELSE samples[l].energy - samples[f].energy
    BY <1>3 DEF CounterEnergy
  <2> HIDE DEF f, l
  <2>6. samples[l].energy \in Nat /\ samples[f].energy \in Nat
    BY <1>1, <2>2, <2>3
  <2> QED BY <1>2, <2>4, <2>5, <2>6 DEF Nil
<1>4. CASE ~ TwoReadings
  BY <1>2, <1>4 DEF CounterEnergy, Nil
<1> QED BY <1>3, <1>4

LEMMA IntegralIsInt ==
  ASSUME RowTypeOK
  PROVE  Integral2 \in Int
<1> DEFINE n == Len(samples)
           area(i) == (samples[i].power + samples[i + 1].power) * (samples[i + 1].ts - samples[i].ts)
           f == [i \in 1 .. n - 1 |-> area(i)]
<1>1. /\ n \in Nat /\ DOMAIN samples = 1 .. n
      /\ \A i \in DOMAIN samples : samples[i] \in Sample
  BY ReadingsTyped
<1>2. ASSUME NEW i \in 1 .. n PROVE samples[i].power \in Int /\ samples[i].ts \in Int
  <2>1. samples[i].power \in {Nil, Idle, Busy} /\ samples[i].ts \in Nat
    BY <1>1 DEF Sample
  <2>2. Nil \in Int /\ Idle \in Nat /\ Busy \in Nat
    BY RowNumbersAssumption DEF Nil
  <2> QED BY <2>1, <2>2
<1>3. ASSUME NEW i \in 1 .. n - 1 PROVE area(i) \in Int
  <2>1. i \in 1 .. n /\ i + 1 \in 1 .. n
    BY <1>1
  <2>2. /\ samples[i].power \in Int /\ samples[i].ts \in Int
        /\ samples[i + 1].power \in Int /\ samples[i + 1].ts \in Int
    BY <1>2, <2>1
  <2> QED BY <2>2
<1> HIDE DEF area
<1>4. f \in [1 .. n - 1 -> Int]
  BY <1>3
<1>5. f \in Seq(Int)
  <2>1. CASE n = 0
    <3>1. f \in [1 .. 0 -> Int]
      BY <1>4, <2>1
    <3> QED BY <3>1, SeqOf
  <2>2. CASE n # 0
    <3>1. n - 1 \in Nat
      BY <1>1, <2>2
    <3> QED BY <1>4, <3>1, SeqOf
  <2> QED BY <2>1, <2>2
<1> HIDE DEF f
<1>6. Total(f) \in Int
  BY <1>5, TotalIsInt
<1> QED BY <1>6 DEF Integral2, f, area

(* The time to the first piece and the gaps end with the last piece.       *)
LEMMA LatencyWithin ==
  ASSUME NEW it \in Item, it.end \in Nat, InTime(it, it.end)
  PROVE  (IF it.at = << >> THEN 0 ELSE it.at[1] - it.start) + Total(Gaps(it)) <= it.end - it.start
<1> DEFINE at == it.at
           n == Len(at)
<1>1. /\ it.start \in Nat /\ it.end \in Nat /\ it.start <= it.end
      /\ \A k \in DOMAIN at : at[k] <= it.end
  BY DEF Item, InTime
<1>2. at \in Seq(Nat)
  BY DEF Item
<1>3. n \in Nat /\ DOMAIN at = 1 .. n /\ \A k \in 1 .. n : at[k] \in Nat
  BY <1>2, LenProperties
<1>4. Gaps(it) = [i \in 1 .. n - 1 |-> at[i + 1] - at[i]]
  BY DEF Gaps
<1> HIDE DEF at, n
<1>5. CASE n = 0
  <2>1. at = << >>
    BY <1>2, <1>5, EmptySeq DEF n
  <2>2. Gaps(it) \in [1 .. 0 -> Int]
    BY <1>4, <1>5
  <2>3. Gaps(it) \in Seq(Int) /\ Len(Gaps(it)) = 0
    BY <2>2, SeqOf
  <2>4. Total(Gaps(it)) = 0
    BY <2>3, TotalsAre DEF Total
  <2> QED BY <1>1, <2>1, <2>4 DEF at
<1>6. CASE n # 0
  <2> DEFINE m == n - 1
             g == [i \in 0 .. m |-> at[i + 1]]
  <2>1. m \in Nat /\ at # << >>
    <3>1. Len(<< >>) = 0
      OBVIOUS
    <3> QED BY <1>3, <1>6, <3>1 DEF n
  <2>2. Gaps(it) \in [1 .. m -> Int]
    <3>1. ASSUME NEW i \in 1 .. m PROVE at[i + 1] - at[i] \in Int
      BY <1>3, <2>1, <3>1
    <3> QED BY <1>4, <3>1
  <2>3. Gaps(it) \in Seq(Int) /\ Len(Gaps(it)) = m
    BY <2>1, <2>2, SeqOf
  <2>4. g \in [0 .. m -> Int]
    <3>1. ASSUME NEW i \in 0 .. m PROVE at[i + 1] \in Int
      BY <1>3, <2>1, <3>1
    <3> QED BY <3>1
  <2>5. ASSUME NEW i \in 1 .. m PROVE Gaps(it)[i] <= g[i] - g[i - 1]
    <3>1. i \in 0 .. m /\ i - 1 \in 0 .. m /\ (i - 1) + 1 = i
      BY <2>1
    <3>2. g[i] = at[i + 1] /\ g[i - 1] = at[i]
      BY <3>1
    <3>3. Gaps(it)[i] = at[i + 1] - at[i] /\ at[i + 1] \in Nat /\ at[i] \in Nat
      BY <1>3, <1>4, <2>1
    <3> QED BY <3>2, <3>3
  <2>6. g[0] = at[1] /\ g[m] = at[n]
    BY <1>3, <2>1
  <2> HIDE DEF g, m
  <2>7. Total(Gaps(it)) \in Int /\ Total(Gaps(it)) <= g[m] - g[0]
    BY <2>3, <2>4, <2>5, TotalIsBounded
  <2>8. at[1] \in Nat /\ at[n] \in Nat /\ at[n] <= it.end
    BY <1>1, <1>3, <1>6
  <2>9. Total(Gaps(it)) <= it.end - at[1]
    <3> DEFINE total == Total(Gaps(it))
               first == at[1]
               last == at[n]
               end == it.end
    <3>1. total \in Int /\ total <= last - first /\ first \in Nat /\ last \in Nat /\ last <= end /\ end \in Nat
      BY <1>1, <2>6, <2>7, <2>8
    <3> HIDE DEF total, first, last, end
    <3>2. total <= end - first
      BY <3>1
    <3> QED BY <3>2 DEF total, first, end
  <2>10. (at[1] - it.start) + Total(Gaps(it)) <= it.end - it.start
    <3> DEFINE total == Total(Gaps(it))
               first == at[1]
               start == it.start
               end == it.end
    <3>1. total \in Int /\ total <= end - first /\ first \in Nat /\ start \in Nat /\ end \in Nat
      BY <1>1, <2>7, <2>8, <2>9
    <3> HIDE DEF total, first, start, end
    <3>2. (first - start) + total <= end - start
      BY <3>1
    <3> QED BY <3>2 DEF total, first, start, end
  <2> QED BY <2>1, <2>10 DEF at
<1> QED BY <1>5, <1>6

(* Read from the pieces of a stream or from the message they make, an      *)
(* answer is the same.                                                     *)
LEMMA ReadAlike ==
  ASSUME NEW pieces \in Seq(Pieces)
  PROVE  StreamedText(pieces) = MessageText(pieces)
<1> DEFINE Kept(channel) == {j \in {i \in DOMAIN pieces : pieces[i][1] = channel} : pieces[j][2] # "blank"}
<1>1. \A i \in DOMAIN pieces : pieces[i] \in Pieces
  BY LenProperties
<1>2. ASSUME NEW channel \in {"content", "reasoning"}
      PROVE  Words(pieces, channel) <=> Kept(channel) # {}
  <2>1. ASSUME NEW i \in DOMAIN pieces
        PROVE  pieces[i] = <<channel, "word">> <=> pieces[i][1] = channel /\ pieces[i][2] # "blank"
    BY <1>1 DEF Pieces
  <2> QED BY <2>1 DEF Words
<1>3. MessageText(pieces) = IF Kept("content") # {} THEN "content"
                            ELSE IF Kept("reasoning") # {} THEN "reasoning" ELSE ""
  BY DEF MessageText
<1> HIDE DEF Kept
<1> QED BY <1>2, <1>3 DEF StreamedText

-----------------------------------------------------------------------------
(* The invariant holds initially.                                          *)
LEMMA RowInvInitially == RowInit => RowInv
<1> SUFFICES ASSUME RowInit PROVE RowInv
  OBVIOUS
<1>1. /\ now = 0 /\ drawn = 0 /\ samples = << >> /\ items = << >> /\ item = NoItem /\ row = NoRow
      /\ phase = "start" /\ fate = "none" /\ faults = 0 /\ streaming_used = TRUE
      /\ meter \in Meters /\ base = IF meter = "apple" THEN 0 ELSE Before
  BY DEF RowInit
<1>2. DOMAIN samples = {} /\ DOMAIN items = {} /\ DOMAIN NoItem.at = {} /\ NoItem.start = 0
  <2>1. NoItem.at = << >> /\ NoItem.start = 0
    BY DEF NoItem
  <2>2. DOMAIN << >> = {}
    OBVIOUS
  <2> QED BY <1>1, <2>1, <2>2
<1>3. Readings = {}
  BY <1>2 DEF Readings
<1>4. Before \in Nat /\ MaxFaults \in Nat
  BY RowNumbersAssumption
<1>5. RowTypeOK
  <2>1. samples \in Seq(Sample) /\ items \in Seq(Item)
    BY <1>1
  <2>2. << >> \in Seq(Pieces) /\ << >> \in Seq(Nat) /\ << >> \in Seq(Int) /\ << >> \in Seq(Seq(Int))
    OBVIOUS
  <2>3. NoItem \in Item
    BY <2>2 DEF NoItem, Item
  <2>4. NoRow \in [counter : Int, integral2 : Int, energy : Seq(Int), ttft : Seq(Int), gaps : Seq(Seq(Int))]
    BY <2>2 DEF NoRow, Nil
  <2>5. base \in Int /\ drawn + base >= 0
    BY <1>1, <1>4
  <2> QED BY <1>1, <1>4, <2>1, <2>3, <2>4, <2>5 DEF RowTypeOK
<1>6. Sampled
  BY <1>2 DEF Sampled
<1>7. Counted
  BY <1>1, <1>3, <1>4 DEF Counted, StuckReads, Floor, Spread, Rising
<1>8. OneByOne
  BY <1>1, <1>2 DEF OneByOne, InTime
<1>9. Answers
  BY <1>1, <1>2 DEF Answers, StreamedAsPlain
<1>10. RowIsComputed
  BY <1>1 DEF RowIsComputed
<1> QED BY <1>5, <1>6, <1>7, <1>8, <1>9, <1>10 DEF RowInv

(* The three kinds of steps: of the sampler and the card while a row is    *)
(* measured, of the client, and of what is made of it all.                 *)
CardStep == Start \/ SampleNvml \/ SampleApple \/ Reload \/ Sleep
ClientStep == Request \/ Chunk \/ StreamEnds \/ StreamFails \/ PlainEnds
RowStep == Compute \/ Export

LEMMA RowCases ==
  ASSUME [RowNext]_rowVars
  PROVE  CardStep \/ ClientStep \/ RowStep \/ UNCHANGED rowVars
  BY DEF RowNext, CardStep, ClientStep, RowStep

(* What the steps of the card leave alone.                                 *)
LEMMA CardStepIs ==
  ASSUME RowTypeOK, CardStep
  PROVE  /\ meter' = meter /\ items' = items /\ streaming_used' = streaming_used
         /\ row' = row /\ fate' = fate
         /\ phase \in {"start", "item", "stream", "plain"}
         /\ \/ phase' = phase /\ item' = item
            \/ phase = "start" /\ phase' = "stream" /\ item' = [NoItem EXCEPT !.start = now]
         /\ faults' \in 0 .. MaxFaults
         /\ now' \in Nat /\ now <= now'
         /\ drawn' \in Nat /\ drawn <= drawn'
<1>1. now \in Nat /\ drawn \in Nat /\ faults \in 0 .. MaxFaults
  BY DEF RowTypeOK
<1>2. Busy \in Nat /\ Idle \in Nat /\ Nap \in Nat /\ MaxFaults \in Nat /\ Draw \in Nat
  BY RowNumbersAssumption DEF Draw
<1>3. Fault \/ NoFault => faults' \in 0 .. MaxFaults
  BY <1>1, <1>2 DEF Fault, NoFault
<1>4. CASE Start
  BY <1>1, <1>2, <1>3, <1>4 DEF Start
<1>5. CASE SampleNvml
  BY <1>1, <1>2, <1>3, <1>5 DEF SampleNvml, Tick, Measuring
<1>6. CASE SampleApple
  BY <1>1, <1>2, <1>3, <1>6 DEF SampleApple, Tick, Measuring
<1>7. CASE Reload
  BY <1>1, <1>3, <1>7 DEF Reload, Measuring
<1>8. CASE Sleep
  BY <1>1, <1>2, <1>3, <1>8 DEF Sleep, Measuring
<1> QED BY <1>4, <1>5, <1>6, <1>7, <1>8 DEF CardStep

(* The counter never shows less than nothing.                              *)
LEMMA CounterShows ==
  ASSUME RowTypeOK, CardStep
  PROVE  /\ base' \in Int /\ drawn' + base' >= 0
         /\ Energy(drawn' + base') \in Nat \cup {Nil}
<1> DEFINE d == drawn'
           b == base'
<1>1. drawn \in Nat /\ base \in Int /\ drawn + base >= 0
  BY DEF RowTypeOK
<1>2. d \in Nat /\ drawn <= d
  BY CardStepIs
<1>3. Draw \in Int
  BY RowNumbersAssumption DEF Draw
<1>4. \/ b = base
      \/ d = drawn + Draw /\ b = base - Draw
      \/ d = drawn /\ b = - drawn
  BY DEF CardStep, Start, SampleNvml, SampleApple, Reload, Sleep, Tick
<1>5. meter \in {"nvml", "no counter", "stuck counter", "apple"}
  BY MetersAssumption DEF RowTypeOK
<1> HIDE DEF d, b
<1>6. b \in Int /\ d + b \in Nat /\ d + b >= 0
  BY <1>1, <1>2, <1>3, <1>4
<1>7. Energy(d + b) \in Nat \cup {Nil}
  BY <1>5, <1>6 DEF Energy
<1> QED BY <1>6, <1>7 DEF d, b

(* The four things that can happen to the samples and to the counter: a   *)
(* sample of this very time, with a reading of this counter or with none;  *)
(* none, or a counter that starts again.                                   *)
TakesOne(power, energy) ==
  /\ samples' = Append(samples, [ts |-> now', power |-> power, energy |-> energy])
  /\ now < now' /\ power \in {Nil, Idle, Busy} /\ energy \in Nat \cup {Nil}
CounterMoves == base' = base /\ drawn <= drawn'
CounterLags == meter = "apple" /\ base' <= base /\ base' + drawn' = base + drawn

LEMMA CardEffect ==
  ASSUME RowTypeOK, CardStep
  PROVE  \/ \E power, energy : /\ TakesOne(power, energy) /\ CounterMoves
                               /\ energy \in {Nil, Energy(drawn' + base')}
         \/ \E power : TakesOne(power, Nil) /\ CounterLags
         \/ samples' = samples /\ CounterMoves
         \/ samples' = samples /\ drawn' = drawn /\ meter = "nvml" /\ base' = - drawn /\ base' # base
<1>1. now \in Nat /\ drawn \in Nat /\ base \in Int
  BY DEF RowTypeOK
<1>2. Busy \in Nat /\ Idle \in Nat /\ Draw \in Nat /\ Draw \in {Nil, Idle, Busy} /\ Nil \in {Nil, Idle, Busy}
  BY RowNumbersAssumption DEF Draw
<1>3. meter' = meter
  BY CardStepIs
<1>4. Energy(drawn' + base') \in Nat \cup {Nil} /\ Nil \in Nat \cup {Nil}
  BY CounterShows
<1>5. CASE Start
  <2>1. CASE meter = "apple"
    BY <1>1, <1>5, <2>1 DEF Start, CounterMoves
  <2>2. CASE meter # "apple"
    <3>1. TakesOne(Busy, Energy(drawn' + base')) /\ CounterMoves
      <4>1. base' = base /\ Takes(Busy, Energy(drawn' + base)) /\ now' = now + 1 /\ drawn' = drawn + Busy
        BY <1>5, <2>2 DEF Start
      <4> QED BY <1>1, <1>2, <1>4, <4>1 DEF Takes, TakesOne, CounterMoves
    <3> QED BY <3>1
  <2> QED BY <2>1, <2>2
<1>6. CASE SampleNvml
  <2>1. now < now' /\ base' = base /\ CounterMoves
    BY <1>1, <1>2, <1>6 DEF SampleNvml, Tick, CounterMoves
  <2>2. \/ Takes(Draw, Energy(drawn' + base)) \/ Takes(Draw, Nil)
        \/ Takes(Nil, Energy(drawn' + base)) \/ samples' = samples
    BY <1>6 DEF SampleNvml
  <2>3. ASSUME NEW power \in {Nil, Idle, Busy}, NEW energy \in {Nil, Energy(drawn' + base')},
               Takes(power, energy)
        PROVE  \E p, e : TakesOne(p, e) /\ CounterMoves /\ e \in {Nil, Energy(drawn' + base')}
    <3>1. TakesOne(power, energy)
      BY <1>4, <2>1, <2>3 DEF Takes, TakesOne
    <3> QED BY <2>1, <3>1
  <2> QED BY <1>2, <1>4, <2>1, <2>2, <2>3
<1>7. CASE SampleApple
  <2>1. now < now' /\ drawn' = drawn + Draw /\ meter = "apple"
    BY <1>1, <1>7 DEF SampleApple, Tick
  <2>2. CASE Takes(Draw, Energy(drawn' + base)) /\ base' = base
    <3>1. TakesOne(Draw, Energy(drawn' + base')) /\ CounterMoves
      BY <1>1, <1>2, <1>4, <2>1, <2>2 DEF Takes, TakesOne, CounterMoves
    <3> QED BY <3>1
  <2>3. CASE Takes(Nil, Nil) /\ base' = base - Draw
    <3>1. TakesOne(Nil, Nil) /\ CounterLags
      BY <1>1, <1>2, <1>4, <2>1, <2>3 DEF Takes, TakesOne, CounterLags
    <3> QED BY <3>1
  <2> QED BY <1>7, <2>2, <2>3 DEF SampleApple
<1>8. CASE Reload
  BY <1>8 DEF Reload
<1>9. CASE Sleep
  BY <1>1, <1>9 DEF Sleep, CounterMoves
<1> QED BY <1>5, <1>6, <1>7, <1>8, <1>9 DEF CardStep

-----------------------------------------------------------------------------
(* One more sample, and one more answer, as sequences.                     *)
LEMMA OneMore ==
  ASSUME NEW S, NEW s \in Seq(S), NEW e \in S
  PROVE  /\ Append(s, e) \in Seq(S) /\ Len(s) \in Nat /\ Len(Append(s, e)) = Len(s) + 1
         /\ DOMAIN s = 1 .. Len(s) /\ DOMAIN Append(s, e) = 1 .. Len(s) + 1
         /\ \A i \in 1 .. Len(s) : Append(s, e)[i] = s[i]
         /\ Append(s, e)[Len(s) + 1] = e
  BY AppendProperties, LenProperties

(* What a step of the card does to the readings: they stay, and one of     *)
(* this time may follow them all.                                          *)
LEMMA ReadingsOfOneMore ==
  ASSUME RowTypeOK, NEW power, NEW energy, TakesOne(power, energy), now' \in Nat
  PROVE  /\ samples' \in Seq(Sample) /\ Len(samples) \in Nat
         /\ DOMAIN samples = 1 .. Len(samples) /\ DOMAIN samples' = 1 .. Len(samples) + 1
         /\ \A i \in DOMAIN samples : samples'[i] = samples[i]
         /\ samples'[Len(samples) + 1] = [ts |-> now', power |-> power, energy |-> energy]
         /\ Readings' = IF energy = Nil THEN Readings ELSE Readings \cup {Len(samples) + 1}
<1> DEFINE new == [ts |-> now', power |-> power, energy |-> energy]
<1>1. new \in Sample /\ new.energy = energy
  BY DEF TakesOne, Sample
<1>2. samples \in Seq(Sample) /\ samples' = Append(samples, new)
  BY DEF RowTypeOK, TakesOne
<1> HIDE DEF new
<1>3. /\ samples' \in Seq(Sample) /\ Len(samples) \in Nat
      /\ DOMAIN samples = 1 .. Len(samples) /\ DOMAIN samples' = 1 .. Len(samples) + 1
      /\ \A i \in DOMAIN samples : samples'[i] = samples[i]
      /\ samples'[Len(samples) + 1] = new
  BY <1>1, <1>2, OneMore
<1>4. Readings' = {i \in DOMAIN samples' : samples'[i].energy # Nil}
  BY DEF Readings
<1>5. ASSUME NEW i
      PROVE  i \in Readings' <=> i \in (IF energy = Nil THEN Readings ELSE Readings \cup {Len(samples) + 1})
  <2>1. i \in 1 .. Len(samples) + 1 <=> i \in 1 .. Len(samples) \/ i = Len(samples) + 1
    BY <1>3
  <2>2. Len(samples) + 1 \notin 1 .. Len(samples)
    BY <1>3
  <2>3. CASE i = Len(samples) + 1
    BY <1>1, <1>3, <1>4, <2>1, <2>2, <2>3 DEF Readings
  <2>4. CASE i # Len(samples) + 1
    BY <1>3, <1>4, <2>1, <2>4 DEF Readings
  <2> QED BY <2>3, <2>4
<1>6. Readings' = IF energy = Nil THEN Readings ELSE Readings \cup {Len(samples) + 1}
  BY <1>5
<1> QED BY <1>3, <1>6 DEF new

LEMMA SampledStep ==
  ASSUME RowInv, CardStep
  PROVE  Sampled'
<1>1. RowTypeOK /\ Sampled
  BY DEF RowInv
<1>2. now \in Nat /\ now' \in Nat /\ now <= now'
  BY <1>1, CardStepIs DEF RowTypeOK
<1>3. CASE samples' = samples
  <2>1. \A i \in DOMAIN samples : samples[i].ts \in Nat
    BY <1>1, ReadingsTyped
  <2> QED BY <1>1, <1>2, <1>3, <2>1 DEF Sampled
<1>4. ASSUME NEW power, NEW energy, TakesOne(power, energy) PROVE Sampled'
  <2> DEFINE n == Len(samples)
             new == [ts |-> now', power |-> power, energy |-> energy]
  <2>1. /\ n \in Nat /\ DOMAIN samples = 1 .. n
        /\ \A i \in DOMAIN samples : samples[i].ts \in Nat
    BY <1>1, ReadingsTyped
  <2>2. now < now' /\ new.ts = now'
    BY <1>4 DEF TakesOne
  <2>3. /\ DOMAIN samples' = 1 .. n + 1 /\ \A i \in 1 .. n : samples'[i] = samples[i]
        /\ samples'[n + 1] = new
    BY <1>1, <1>2, <1>4, <2>1, ReadingsOfOneMore
  <2> HIDE DEF n, new
  <2>4. \A i \in 1 .. n + 1 : samples'[i].ts <= now'
    <3>1. ASSUME NEW i \in 1 .. n PROVE samples'[i].ts <= now'
      <4>1. samples[i].ts \in Nat /\ samples[i].ts <= now
        BY <1>1, <2>1 DEF Sampled
      <4> QED BY <1>2, <2>3, <4>1
    <3> QED BY <1>2, <2>1, <2>2, <2>3, <3>1
  <2>5. ASSUME NEW i \in 1 .. n + 1, NEW j \in 1 .. n + 1, i < j
        PROVE  samples'[i].ts < samples'[j].ts
    <3>1. i \in 1 .. n
      BY <2>1, <2>5
    <3>2. samples'[i] = samples[i] /\ samples[i].ts \in Nat /\ samples[i].ts <= now
      BY <1>1, <2>1, <2>3, <3>1 DEF Sampled
    <3>3. CASE j = n + 1
      <4>1. samples'[j].ts = now'
        BY <2>2, <2>3, <3>3
      <4> QED BY <1>2, <2>2, <3>2, <4>1
    <3>4. CASE j \in 1 .. n
      BY <1>1, <2>1, <2>3, <2>5, <3>1, <3>2, <3>4 DEF Sampled
    <3> QED BY <2>1, <3>3, <3>4
  <2> QED BY <2>3, <2>4, <2>5 DEF Sampled
<1> QED BY <1>1, <1>3, <1>4, CardEffect

(* The readings stay what they were, and the counter goes on, loses a      *)
(* window, or starts again.                                                *)
Restarts == drawn' = drawn /\ meter = "nvml" /\ base' = - drawn /\ base' # base

LEMMA CountedKept ==
  ASSUME RowInv, CardStep, Readings' = Readings,
         \A i \in Readings : samples'[i].energy = samples[i].energy,
         CounterMoves \/ CounterLags \/ Restarts
  PROVE  Counted'
<1> DEFINE d == drawn'
           b == base'
           E(i) == samples[i].energy
<1>1. RowTypeOK /\ Counted
  BY DEF RowInv
<1>2. drawn \in Nat /\ base \in Int /\ drawn + base >= 0 /\ Before \in Nat
  BY <1>1, RowNumbersAssumption DEF RowTypeOK
<1>3. d \in Nat /\ b \in Int /\ drawn <= d /\ meter' = meter
  BY <1>1, CardStepIs, CounterShows
<1>4. \A i \in Readings : E(i) \in Nat
  BY <1>1, ReadingsTyped
<1>5. \/ b = base
      \/ meter = "apple" /\ b <= base /\ b + d = base + drawn
      \/ d = drawn /\ meter = "nvml" /\ b = - drawn /\ b # base
  BY DEF CounterMoves, CounterLags, Restarts
<1>6. /\ meter = "nvml" => base <= Before
      /\ Moving => \A i \in Readings : base <= E(i)
      /\ \A i, j \in Readings : i < j => E(j) <= E(i) + drawn
      /\ Steady => /\ \A i, j \in Readings : i < j => E(i) <= E(j)
                   /\ Moving => \A i \in Readings : E(i) <= drawn + base
  BY <1>1 DEF Counted, Floor, Spread, Rising
<1>7. Steady' <=> (meter = "nvml" => b = Before)
  BY <1>3 DEF Steady
<1> HIDE DEF d, b, E
<1>8. b <= base
  BY <1>2, <1>3, <1>5
<1>9. (meter = "nvml" => b = Before) => Steady /\ drawn + base <= d + b
  BY <1>2, <1>3, <1>5, <1>6, <1>8 DEF Steady
<1>10. meter = "nvml" => b <= Before
  BY <1>2, <1>3, <1>6, <1>8
<1>11. Moving => \A i \in Readings : b <= E(i)
  BY <1>2, <1>3, <1>4, <1>6, <1>8
<1>12. \A i, j \in Readings : i < j => E(j) <= E(i) + d
  BY <1>2, <1>3, <1>4, <1>6
<1>13. (meter = "nvml" => b = Before) =>
         /\ \A i, j \in Readings : i < j => E(i) <= E(j)
         /\ Moving => \A i \in Readings : E(i) <= d + b
  BY <1>2, <1>3, <1>4, <1>6, <1>9
<1>14. StuckReads'
  BY <1>1, <1>3 DEF Counted, StuckReads
<1>15. Moving' = Moving
  BY <1>3 DEF Moving
<1>16. Floor' /\ Spread'
  BY <1>11, <1>12, <1>15 DEF Floor, Spread, d, b, E
<1>17. Rising'
  BY <1>7, <1>13, <1>15 DEF Rising, d, b, E
<1>18. (meter' = "no counter" => Readings' = {}) /\ (meter' = "nvml" => base' <= Before)
  BY <1>1, <1>3, <1>10 DEF Counted, b
<1> QED BY <1>14, <1>16, <1>17, <1>18 DEF Counted

(* A reading more, of the counter as it stands.                            *)
LEMMA CountedMore ==
  ASSUME RowInv, CardStep, NEW power, NEW energy, TakesOne(power, energy), CounterMoves,
         energy = Energy(drawn' + base'), energy # Nil
  PROVE  Counted'
<1> DEFINE d == drawn'
           b == base'
           n == Len(samples)
           R == Readings'
           E(i) == samples[i].energy
           F(i) == samples'[i].energy
<1>1. RowTypeOK /\ Counted
  BY DEF RowInv
<1>2. drawn \in Nat /\ base \in Int /\ drawn + base >= 0 /\ n \in Nat
  BY <1>1, ReadingsTyped DEF RowTypeOK
<1>3. d \in Nat /\ drawn <= d /\ meter' = meter /\ now' \in Nat /\ b = base
  BY <1>1, CardStepIs DEF CounterMoves
<1>4. \A i \in Readings : E(i) \in Nat /\ i \in 1 .. n
  BY <1>1, ReadingsTyped
<1>5. R = Readings \cup {n + 1} /\ F(n + 1) = energy /\ \A i \in Readings : F(i) = E(i)
  <2>1. /\ DOMAIN samples = 1 .. n
        /\ \A i \in DOMAIN samples : samples'[i] = samples[i]
        /\ samples'[n + 1] = [ts |-> now', power |-> power, energy |-> energy]
        /\ R = Readings \cup {n + 1}
    BY <1>1, <1>3, ReadingsOfOneMore
  <2>2. \A i \in Readings : samples'[i] = samples[i]
    BY <1>4, <2>1
  <2> QED BY <2>1, <2>2
<1>6. energy \in Nat /\ (Moving => energy = d + b) /\ (meter = "stuck counter" => energy = 0)
      /\ meter # "no counter" /\ (Moving \/ meter = "stuck counter")
  <2>1. meter \in {"nvml", "no counter", "stuck counter", "apple"}
    BY <1>1, MetersAssumption DEF RowTypeOK
  <2>2. energy \in Nat
    BY DEF TakesOne
  <2>3. energy = Energy(d + b)
    OBVIOUS
  <2> HIDE DEF d, b
  <2> QED BY <2>1, <2>2, <2>3 DEF Energy, Moving
<1>7. /\ meter = "nvml" => base <= Before
      /\ StuckReads
      /\ Moving => \A i \in Readings : base <= E(i)
      /\ \A i, j \in Readings : i < j => E(j) <= E(i) + drawn
      /\ Steady => /\ \A i, j \in Readings : i < j => E(i) <= E(j)
                   /\ Moving => \A i \in Readings : E(i) <= drawn + base
  BY <1>1 DEF Counted, Floor, Spread, Rising
<1>8. meter = "stuck counter" => \A i \in Readings : E(i) = 0
  BY <1>7 DEF StuckReads
<1>9. Steady' = Steady /\ Moving' = Moving
  BY <1>3 DEF Steady, Moving
<1> HIDE DEF d, b, n, R, E, F
<1>10. \A i, j \in R : i < j => i \in Readings /\ (j \in Readings \/ j = n + 1)
  BY <1>2, <1>4, <1>5
<1>11. ASSUME NEW i \in R PROVE F(i) \in Nat /\ (meter = "stuck counter" => F(i) = 0)
  BY <1>4, <1>5, <1>6, <1>8
<1>12. ASSUME Moving, NEW i \in R PROVE b <= F(i) /\ (Steady => F(i) <= d + b)
  <2>1. CASE i \in Readings
    <3>1. F(i) = E(i) /\ E(i) \in Nat /\ base <= E(i)
      BY <1>4, <1>5, <1>7, <1>12, <2>1
    <3>2. CASE Steady
      <4>1. E(i) <= drawn + base
        BY <1>7, <1>12, <2>1, <3>2
      <4>2. F(i) <= d + b
        BY <1>2, <1>3, <3>1, <4>1
      <4> QED BY <1>3, <3>1, <4>2
    <3> QED BY <1>3, <3>1, <3>2
  <2>2. CASE i = n + 1
    <3>1. F(i) = energy /\ energy = d + b
      BY <1>5, <1>6, <1>12, <2>2
    <3>2. b <= d + b /\ d + b <= d + b
      BY <1>2, <1>3
    <3> QED BY <3>1, <3>2
  <2> QED BY <1>5, <2>1, <2>2
<1>13. ASSUME NEW i \in R, NEW j \in R, i < j
       PROVE  F(j) <= F(i) + d /\ (Steady => F(i) <= F(j))
  <2>1. i \in Readings /\ F(i) = E(i) /\ E(i) \in Nat
    BY <1>4, <1>5, <1>10, <1>13
  <2>2. CASE j \in Readings
    <3>1. F(j) = E(j) /\ E(j) \in Nat /\ E(j) <= E(i) + drawn /\ (Steady => E(i) <= E(j))
      BY <1>4, <1>5, <1>7, <1>13, <2>1, <2>2
    <3>2. F(j) <= F(i) + d
      BY <1>2, <1>3, <2>1, <3>1
    <3> QED BY <2>1, <3>1, <3>2
  <2>3. CASE j = n + 1
    <3>1. F(j) = energy
      BY <1>5, <2>3
    <3>2. CASE Moving
      <4>1. energy = d + b /\ base <= E(i) /\ (Steady => E(i) <= drawn + base)
        BY <1>6, <1>7, <2>1, <3>2
      <4>2. d + b <= E(i) + d
        BY <1>2, <1>3, <2>1, <4>1
      <4>3. E(i) <= drawn + base => E(i) <= d + b
        BY <1>2, <1>3, <2>1
      <4> QED BY <2>1, <3>1, <4>1, <4>2, <4>3
    <3>3. CASE meter = "stuck counter"
      <4>1. F(j) = 0 /\ F(i) = 0
        BY <1>6, <1>8, <2>1, <3>1, <3>3
      <4>2. 0 <= 0 + d /\ 0 <= 0
        BY <1>3
      <4> QED BY <4>1, <4>2
    <3> QED BY <1>6, <3>2, <3>3
  <2> QED BY <1>10, <1>13, <2>2, <2>3
<1>14. StuckReads' /\ Floor' /\ Spread'
  BY <1>3, <1>9, <1>11, <1>12, <1>13 DEF StuckReads, Floor, Spread, d, b, R, F
<1>15. Rising'
  BY <1>9, <1>12, <1>13 DEF Rising, d, b, R, F
<1>16. (meter' = "no counter" => Readings' = {}) /\ (meter' = "nvml" => base' <= Before)
  BY <1>3, <1>6, <1>7 DEF b
<1> QED BY <1>14, <1>15, <1>16 DEF Counted

LEMMA CountedStep ==
  ASSUME RowInv, CardStep
  PROVE  Counted'
<1>1. RowTypeOK /\ now' \in Nat
  BY CardStepIs DEF RowInv
<1>2. ASSUME NEW power, TakesOne(power, Nil), CounterMoves \/ CounterLags
      PROVE  Counted'
  <2>1. /\ \A i \in DOMAIN samples : samples'[i] = samples[i]
        /\ Readings' = Readings
    BY <1>1, <1>2, ReadingsOfOneMore
  <2>2. \A i \in Readings : samples'[i].energy = samples[i].energy
    BY <2>1 DEF Readings
  <2> QED BY <1>2, <2>1, <2>2, CountedKept
<1>3. ASSUME samples' = samples, CounterMoves \/ Restarts
      PROVE  Counted'
  <2>1. Readings' = Readings
    BY <1>3 DEF Readings
  <2> QED BY <1>3, <2>1, CountedKept
<1>4. ASSUME NEW power, NEW energy, TakesOne(power, energy), CounterMoves,
             energy \in {Nil, Energy(drawn' + base')}
      PROVE  Counted'
  BY <1>2, <1>4, CountedMore
<1> QED BY <1>1, <1>2, <1>3, <1>4, CardEffect DEF Restarts

-----------------------------------------------------------------------------
(* A request that has just been made, streamed or not.                     *)
Asked(mode, t) == [mode |-> mode, start |-> t, end |-> Nil, pieces |-> << >>, at |-> << >>,
                   tokens |-> 0, text |-> ""]

LEMMA JustAsked ==
  ASSUME NEW mode \in {"stream", "plain"}, NEW t \in Nat
  PROVE  /\ Asked(mode, t) \in Item
         /\ Asked(mode, t).mode = mode /\ Asked(mode, t).start = t /\ DOMAIN Asked(mode, t).at = {}
<1>1. << >> \in Seq(Pieces) /\ << >> \in Seq(Nat) /\ DOMAIN << >> = {}
  OBVIOUS
<1>2. Asked(mode, t) \in Item
  BY <1>1 DEF Item, Asked
<1>3. Asked(mode, t).mode = mode /\ Asked(mode, t).start = t /\ Asked(mode, t).at = << >>
  BY DEF Asked
<1> QED BY <1>1, <1>2, <1>3

LEMMA JustStreamed ==
  ASSUME NEW t \in Nat, NEW request, request = [NoItem EXCEPT !.start = t]
  PROVE  request = Asked("stream", t)
  BY DEF NoItem, Asked

LEMMA JustPlain ==
  ASSUME NEW t \in Nat, NEW request, request = [NoItem EXCEPT !.mode = "plain", !.start = t]
  PROVE  request = Asked("plain", t)
  BY DEF NoItem, Asked

(* What is known of the times of an item, and of those answered.           *)
LEMMA TimesTyped ==
  ASSUME RowTypeOK
  PROVE  /\ now \in Nat /\ item.start \in Nat /\ item.at \in Seq(Nat)
         /\ \A k \in DOMAIN item.at : item.at[k] \in Nat
         /\ \A i \in DOMAIN items : items[i].start \in Nat
<1>1. now \in Nat /\ item \in Item
  BY DEF RowTypeOK
<1>2. item.start \in Nat /\ item.at \in Seq(Nat)
  BY <1>1 DEF Item
<1>3. DOMAIN item.at = 1 .. Len(item.at) /\ \A k \in 1 .. Len(item.at) : item.at[k] \in Nat
  BY <1>2, ElementOfSeq, LenProperties
<1>4. \A i \in DOMAIN items : items[i] \in Item
  BY ElementOfSeq, LenProperties DEF RowTypeOK
<1>5. \A i \in DOMAIN items : items[i].start \in Nat
  BY <1>4 DEF Item
<1> QED BY <1>1, <1>2, <1>3, <1>5

LEMMA OneByOneEnds ==
  ASSUME RowTypeOK, OneByOne, NEW i \in DOMAIN items
  PROVE  items[i].end \in Nat /\ items[i].end <= now /\ items[i].start < items[i].end
<1>1. items[i] \in Item
  BY ElementOfSeq, LenProperties DEF RowTypeOK
<1>2. items[i].end \in Nat \cup {Nil} /\ items[i].start \in Nat
  BY <1>1 DEF Item
<1>3. items[i].start < items[i].end /\ items[i].end <= now
  BY DEF OneByOne
<1> QED BY <1>2, <1>3 DEF Nil

LEMMA TypeOfCardStep ==
  ASSUME RowInv, CardStep
  PROVE  RowTypeOK'
<1>1. RowTypeOK
  BY DEF RowInv
<1>2. now \in Nat
  BY <1>1 DEF RowTypeOK
<1>3. samples' \in Seq(Sample)
  <2>1. CASE samples' = samples
    BY <1>1, <2>1 DEF RowTypeOK
  <2>2. ASSUME NEW power, NEW energy, TakesOne(power, energy) PROVE samples' \in Seq(Sample)
    BY <1>1, <2>2, CardStepIs, ReadingsOfOneMore
  <2> QED BY <1>1, <2>1, <2>2, CardEffect
<1>4. item' \in Item /\ phase' \in {"start", "item", "stream", "plain", "compute", "export", "over"}
  <2>1. [NoItem EXCEPT !.start = now] \in Item
    <3>1. [NoItem EXCEPT !.start = now] = Asked("stream", now)
      BY <1>2, JustStreamed
    <3> QED BY <1>2, <3>1, JustAsked
  <2> QED BY <1>1, <2>1, CardStepIs DEF RowTypeOK
<1>5. now' \in Nat /\ drawn' \in Nat /\ faults' \in 0 .. MaxFaults
  BY <1>1, CardStepIs
<1>6. base' \in Int /\ drawn' + base' >= 0
  BY <1>1, CounterShows
<1>7. /\ meter' \in Meters /\ items' \in Seq(Item) /\ streaming_used' \in BOOLEAN
      /\ row' \in [counter : Int, integral2 : Int, energy : Seq(Int), ttft : Seq(Int), gaps : Seq(Seq(Int))]
      /\ fate' \in {"none", "no row", "raised", "held", "sent"}
  BY <1>1, CardStepIs DEF RowTypeOK
<1> QED BY <1>3, <1>4, <1>5, <1>6, <1>7 DEF RowTypeOK

LEMMA OneByOneOfCardStep ==
  ASSUME RowInv, CardStep
  PROVE  OneByOne'
<1>1. RowTypeOK /\ OneByOne
  BY DEF RowInv
<1>2. now \in Nat /\ now' \in Nat /\ now <= now' /\ items' = items
  BY <1>1, CardStepIs DEF RowTypeOK
<1>3. \A i \in DOMAIN items : InTime(items[i], items[i].end) /\ items[i].start < items[i].end /\ items[i].end <= now'
  <2>1. ASSUME NEW i \in DOMAIN items PROVE items[i].end <= now'
    BY <1>1, <1>2, OneByOneEnds
  <2> QED BY <1>1, <2>1 DEF OneByOne
<1>4. \A i, j \in DOMAIN items : i < j => items[i].end <= items[j].start
  BY <1>1 DEF OneByOne
<1>5. InTime(item', now') /\ (phase' \in {"stream", "plain"} => \A i \in DOMAIN items : items[i].end <= item'.start)
  <2>1. CASE phase' = phase /\ item' = item
    <3>1. item.start <= now /\ item.start \in Nat
      BY <1>1, TimesTyped DEF OneByOne, InTime
    <3>2. ASSUME NEW k \in DOMAIN item.at PROVE item.at[k] <= now'
      <4>1. item.at[k] \in Nat /\ item.at[k] <= now
        BY <1>1, TimesTyped DEF OneByOne, InTime
      <4> QED BY <1>2, <4>1
    <3>3. item.start <= now'
      BY <1>2, <3>1
    <3>4. phase \in {"stream", "plain"} => \A i \in DOMAIN items : items[i].end <= item.start
      BY <1>1 DEF OneByOne
    <3> QED BY <2>1, <3>2, <3>3, <3>4 DEF InTime
  <2>2. CASE item' = [NoItem EXCEPT !.start = now]
    <3>1. item'.start = now /\ DOMAIN item'.at = {}
      <4>1. item' = Asked("stream", now)
        BY <1>2, <2>2, JustStreamed
      <4> QED BY <1>2, <4>1, JustAsked
    <3>2. \A i \in DOMAIN items : items[i].end <= now
      BY <1>1 DEF OneByOne
    <3> QED BY <1>2, <3>1, <3>2 DEF InTime
  <2> QED BY <1>1, <2>1, <2>2, CardStepIs
<1> QED BY <1>2, <1>3, <1>4, <1>5 DEF OneByOne, InTime

LEMMA CardStepKeeps ==
  ASSUME RowInv, CardStep
  PROVE  RowInv'
<1>1. RowTypeOK /\ Answers /\ RowIsComputed
  BY DEF RowInv
<1>2. /\ items' = items /\ streaming_used' = streaming_used /\ row' = row /\ fate' = fate
      /\ phase \in {"start", "item", "stream", "plain"}
      /\ \/ phase' = phase /\ item' = item
         \/ phase = "start" /\ phase' = "stream" /\ item' = [NoItem EXCEPT !.start = now]
  BY <1>1, CardStepIs
<1>3. Answers'
  <2>1. CASE phase' = phase /\ item' = item
    BY <1>1, <1>2, <2>1 DEF Answers, StreamedAsPlain
  <2>2. CASE phase' = "stream" /\ item' = [NoItem EXCEPT !.start = now]
    <3>1. item'.mode = "stream"
      <4>1. now \in Nat /\ item' = Asked("stream", now)
        BY <1>1, <2>2, JustStreamed DEF RowTypeOK
      <4> QED BY <4>1, JustAsked
    <3> QED BY <1>1, <1>2, <2>2, <3>1 DEF Answers, StreamedAsPlain
  <2> QED BY <1>2, <2>1, <2>2
<1>4. RowIsComputed'
  <2>1. row = NoRow /\ fate = "none" /\ phase' \in {"start", "item", "stream", "plain"}
    BY <1>1, <1>2 DEF RowIsComputed
  <2> QED BY <1>2, <2>1 DEF RowIsComputed
<1>5. Sampled' /\ Counted'
  BY SampledStep, CountedStep
<1>6. RowTypeOK' /\ OneByOne'
  BY TypeOfCardStep, OneByOneOfCardStep
<1> QED BY <1>3, <1>4, <1>5, <1>6 DEF RowInv

-----------------------------------------------------------------------------
(* What the steps of the client leave alone, and what keeps the samples as *)
(* they are.                                                               *)
LEMMA ClientStepIs ==
  ASSUME RowInv, ClientStep
  PROVE  /\ UNCHANGED <<meter, now, drawn, base, samples, row, fate>>
         /\ phase \in {"item", "stream", "plain"}
         /\ faults' \in 0 .. MaxFaults
         /\ Sampled' /\ Counted'
<1>1. RowTypeOK /\ Sampled /\ Counted
  BY DEF RowInv
<1>2. /\ UNCHANGED <<meter, now, drawn, base, samples, row, fate>>
      /\ phase \in {"item", "stream", "plain"} /\ (Fault \/ NoFault)
  BY DEF ClientStep, Request, Chunk, StreamEnds, StreamFails, PlainEnds
<1>3. faults \in 0 .. MaxFaults /\ MaxFaults \in Nat
  BY <1>1, RowNumbersAssumption DEF RowTypeOK
<1>4. faults' \in 0 .. MaxFaults
  BY <1>2, <1>3 DEF Fault, NoFault
<1>5. Readings' = Readings
  BY <1>2 DEF Readings
<1>6. Moving' = Moving /\ Steady' = Steady
  BY <1>2 DEF Moving, Steady
<1>7. Sampled' /\ Counted'
  BY <1>1, <1>2, <1>5, <1>6 DEF Sampled, Counted, StuckReads, Floor, Spread, Rising
<1> QED BY <1>2, <1>4, <1>7

(* Asking, for the first time or again.                                    *)
LEMMA AskKeeps ==
  ASSUME RowInv, ClientStep, NEW mode \in {"stream", "plain"}, item' = Asked(mode, now), items' = items,
         phase' = mode, streaming_used' \in BOOLEAN, streaming_used' => streaming_used,
         mode = "plain" => ~ streaming_used'
  PROVE  /\ phase' \in {"stream", "plain"} /\ item' \in Item /\ items' \in Seq(Item)
         /\ streaming_used' \in BOOLEAN /\ OneByOne' /\ Answers'
<1>1. RowTypeOK /\ OneByOne /\ Answers /\ now \in Nat /\ now' = now
  BY ClientStepIs DEF RowInv, RowTypeOK
<1>2. item' \in Item /\ item'.mode = mode /\ item'.start = now /\ DOMAIN item'.at = {}
  BY <1>1, JustAsked
<1>3. \A i \in DOMAIN items : items[i].end <= now
  BY <1>1 DEF OneByOne
<1>4. OneByOne'
  BY <1>1, <1>2, <1>3 DEF OneByOne, InTime
<1>5. Answers'
  BY <1>1, <1>2 DEF Answers, StreamedAsPlain
<1> QED BY <1>1, <1>2, <1>4, <1>5 DEF RowTypeOK

(* An answer is filed, and its request is over.                            *)
LEMMA AnswerKeeps ==
  ASSUME RowInv, ClientStep, phase \in {"stream", "plain"}, item.start < now, streaming_used' = streaming_used,
         NEW answer \in Item, Answered(answer),
         answer.start = item.start, answer.at = item.at, answer.end = now,
         streaming_used => answer.mode = "stream", answer.text = MessageText(answer.pieces)
  PROVE  /\ phase' \in {"item", "compute"} /\ item' \in Item /\ items' \in Seq(Item)
         /\ streaming_used' \in BOOLEAN /\ OneByOne' /\ Answers'
<1> DEFINE n == Len(items)
<1>1. RowTypeOK /\ OneByOne /\ Answers /\ now \in Nat /\ now' = now
  BY ClientStepIs DEF RowInv, RowTypeOK
<1>2. items \in Seq(Item) /\ items' = Append(items, answer) /\ item' = NoItem /\ phase' \in {"item", "compute"}
  BY <1>1 DEF RowTypeOK, Answered
<1>3. /\ items' \in Seq(Item) /\ n \in Nat /\ DOMAIN items = 1 .. n /\ DOMAIN items' = 1 .. n + 1
      /\ \A i \in 1 .. n : items'[i] = items[i]
      /\ items'[n + 1] = answer
  BY <1>2, OneMore
<1>4. item' \in Item /\ item'.start = 0 /\ DOMAIN item'.at = {}
  <2>1. << >> \in Seq(Pieces) /\ << >> \in Seq(Nat) /\ DOMAIN << >> = {}
    OBVIOUS
  <2>2. NoItem \in Item
    BY <2>1 DEF NoItem, Item
  <2> QED BY <1>2, <2>1, <2>2 DEF NoItem
<1>5. InTime(item, now) /\ \A i \in 1 .. n : items[i].end <= item.start
  BY <1>1, <1>3 DEF OneByOne
<1> HIDE DEF n
<1>6. \A i \in 1 .. n + 1 : /\ InTime(items'[i], items'[i].end)
                            /\ items'[i].start < items'[i].end /\ items'[i].end <= now
  <2>1. ASSUME NEW i \in 1 .. n
        PROVE  /\ InTime(items'[i], items'[i].end)
               /\ items'[i].start < items'[i].end /\ items'[i].end <= now
    BY <1>1, <1>3 DEF OneByOne
  <2>2. InTime(answer, answer.end) /\ answer.start < answer.end /\ answer.end <= now
    BY <1>1, <1>5 DEF InTime
  <2>3. \A i \in 1 .. n + 1 : i \in 1 .. n \/ i = n + 1
    BY <1>3
  <2> QED BY <1>3, <2>1, <2>2, <2>3
<1>7. \A i, j \in 1 .. n + 1 : i < j => items'[i].end <= items'[j].start
  <2> SUFFICES ASSUME NEW i \in 1 .. n + 1, NEW j \in 1 .. n + 1, i < j
               PROVE  items'[i].end <= items'[j].start
    OBVIOUS
  <2>1. i \in 1 .. n /\ (j \in 1 .. n \/ j = n + 1)
    BY <1>3
  <2>2. CASE j \in 1 .. n
    BY <1>1, <1>3, <2>1, <2>2 DEF OneByOne
  <2>3. CASE j = n + 1
    BY <1>3, <1>5, <2>1, <2>3
  <2> QED BY <2>1, <2>2, <2>3
<1>8. OneByOne'
  <2>1. item'.start <= now
    BY <1>1, <1>4
  <2> QED BY <1>1, <1>2, <1>3, <1>4, <1>6, <1>7, <2>1 DEF OneByOne, InTime
<1>9. Answers'
  <2>1. \A i \in 1 .. n + 1 : i \in 1 .. n \/ i = n + 1
    BY <1>3
  <2>2. \A i \in 1 .. n + 1 : items'[i].text = MessageText(items'[i].pieces)
    BY <1>1, <1>3, <2>1 DEF Answers, StreamedAsPlain
  <2>3. streaming_used => \A i \in 1 .. n + 1 : items'[i].mode = "stream"
    BY <1>1, <1>3, <2>1 DEF Answers
  <2> QED BY <1>2, <1>3, <2>2, <2>3 DEF Answers, StreamedAsPlain
<1> QED BY <1>1, <1>2, <1>3, <1>4, <1>8, <1>9 DEF RowTypeOK

(* A chunk: one more piece, which has arrived now.                         *)
LEMMA ChunkKeeps ==
  ASSUME RowInv, ClientStep, Chunk
  PROVE  /\ phase' = "stream" /\ item' \in Item /\ items' \in Seq(Item)
         /\ streaming_used' \in BOOLEAN /\ OneByOne' /\ Answers'
<1>1. RowTypeOK /\ OneByOne /\ Answers /\ now \in Nat /\ now' = now /\ item \in Item
  BY ClientStepIs DEF RowInv, RowTypeOK
<1>2. /\ phase = "stream" /\ phase' = "stream" /\ items' = items /\ streaming_used' = streaming_used
  BY DEF Chunk
<1>3. PICK p \in Pieces : item' = [item EXCEPT !.pieces = Append(@, p), !.at = Append(@, now)]
  BY DEF Chunk
<1>4. item.pieces \in Seq(Pieces) /\ item.at \in Seq(Nat)
  BY <1>1 DEF Item
<1>5. Append(item.pieces, p) \in Seq(Pieces)
  BY <1>4, OneMore
<1>6. /\ Append(item.at, now) \in Seq(Nat) /\ Len(item.at) \in Nat
      /\ DOMAIN item.at = 1 .. Len(item.at) /\ DOMAIN Append(item.at, now) = 1 .. Len(item.at) + 1
      /\ \A k \in 1 .. Len(item.at) : Append(item.at, now)[k] = item.at[k]
      /\ Append(item.at, now)[Len(item.at) + 1] = now
  BY <1>1, <1>4, OneMore
<1>7. /\ item' \in Item /\ item'.start = item.start /\ item'.mode = item.mode
      /\ item'.at = Append(item.at, now)
  BY <1>1, <1>3, <1>5, <1>6 DEF Item
<1>8. InTime(item', now)
  <2>1. item.start <= now /\ \A k \in 1 .. Len(item.at) : item.at[k] <= now
    BY <1>1, <1>6 DEF OneByOne, InTime
  <2>2. \A k \in 1 .. Len(item.at) + 1 : k \in 1 .. Len(item.at) \/ k = Len(item.at) + 1
    BY <1>6
  <2>3. now <= now
    BY <1>1
  <2> QED BY <1>6, <1>7, <2>1, <2>2, <2>3 DEF InTime
<1>9. OneByOne'
  BY <1>1, <1>2, <1>7, <1>8 DEF OneByOne, InTime
<1>10. Answers'
  BY <1>1, <1>2, <1>7 DEF Answers, StreamedAsPlain
<1> QED BY <1>1, <1>2, <1>7, <1>9, <1>10 DEF RowTypeOK

(* What any of the client's steps does to the items.                       *)
LEMMA ClientStepOfItems ==
  ASSUME RowInv, ClientStep
  PROVE  /\ phase' \in {"item", "stream", "plain", "compute"}
         /\ item' \in Item /\ items' \in Seq(Item)
         /\ streaming_used' \in BOOLEAN /\ OneByOne' /\ Answers'
<1>1. RowTypeOK /\ Answers /\ RowIsComputed /\ item \in Item /\ now \in Nat
  BY DEF RowInv, RowTypeOK
<1>2. /\ item.pieces \in Seq(Pieces) /\ item.at \in Seq(Nat) /\ item.start \in Nat
      /\ Len(item.pieces) \in Nat
  <2>1. item.pieces \in Seq(Pieces) /\ item.at \in Seq(Nat) /\ item.start \in Nat
    BY <1>1 DEF Item
  <2> QED BY <2>1, LenProperties
<1>3. CASE Request
  <2>1. phase' = "stream" /\ items' = items /\ item' = Asked("stream", now) /\ streaming_used' = streaming_used
    BY <1>1, <1>3, JustStreamed DEF Request
  <2>2. streaming_used \in BOOLEAN
    BY <1>1 DEF RowTypeOK
  <2> QED BY <2>1, <2>2, AskKeeps
<1>4. CASE StreamFails
  <2>1. phase' = "plain" /\ items' = items /\ item' = Asked("plain", now) /\ streaming_used' = FALSE
    BY <1>1, <1>4, JustPlain DEF StreamFails
  <2> QED BY <2>1, AskKeeps
<1>5. CASE Chunk
  BY <1>5, ChunkKeeps
<1>6. CASE StreamEnds
  <2>1. /\ phase = "stream" /\ item.start < now /\ streaming_used' = streaming_used
    BY <1>1, <1>2, <1>6 DEF StreamEnds
  <2>2. PICK usage \in BOOLEAN :
          Answered([item EXCEPT !.end = now, !.text = StreamedText(item.pieces),
                                !.tokens = IF usage THEN Len(item.pieces) ELSE 0])
    BY <1>6 DEF StreamEnds
  <2> DEFINE answer == [item EXCEPT !.end = now, !.text = StreamedText(item.pieces),
                                    !.tokens = IF usage THEN Len(item.pieces) ELSE 0]
  <2>3. StreamedText(item.pieces) = MessageText(item.pieces) /\ StreamedText(item.pieces) \in {"", "content", "reasoning"}
    BY <1>2, ReadAlike DEF StreamedText
  <2>4. (IF usage THEN Len(item.pieces) ELSE 0) \in Nat
    BY <1>2
  <2>5. /\ answer \in Item /\ answer.start = item.start /\ answer.at = item.at /\ answer.end = now
        /\ answer.mode = item.mode /\ answer.pieces = item.pieces /\ answer.text = StreamedText(item.pieces)
    BY <1>1, <2>3, <2>4 DEF Item
  <2>6. item.mode = "stream"
    BY <1>1, <2>1 DEF Answers
  <2> HIDE DEF answer
  <2>7. Answered(answer)
    BY <2>2 DEF answer
  <2> QED BY <2>1, <2>3, <2>5, <2>6, <2>7, AnswerKeeps
<1>7. CASE PlainEnds
  <2>1. phase = "plain" /\ item.start < now /\ streaming_used' = streaming_used
    BY <1>1, <1>2, <1>7 DEF PlainEnds
  <2>2. PICK p \in Pieces :
          Answered([item EXCEPT !.end = now, !.pieces = <<p>>, !.text = MessageText(<<p>>), !.tokens = 1])
    BY <1>7 DEF PlainEnds
  <2> DEFINE answer == [item EXCEPT !.end = now, !.pieces = <<p>>, !.text = MessageText(<<p>>), !.tokens = 1]
  <2>3. <<p>> \in Seq(Pieces)
    OBVIOUS
  <2>4. MessageText(<<p>>) \in {"", "content", "reasoning"}
    BY DEF MessageText
  <2>5. /\ answer \in Item /\ answer.start = item.start /\ answer.at = item.at /\ answer.end = now
        /\ answer.pieces = <<p>> /\ answer.text = MessageText(<<p>>)
    BY <1>1, <2>3, <2>4 DEF Item
  <2>6. ~ streaming_used
    BY <1>1, <2>1 DEF Answers
  <2> HIDE DEF answer
  <2>7. Answered(answer)
    BY <2>2 DEF answer
  <2> QED BY <2>1, <2>5, <2>6, <2>7, AnswerKeeps
<1> QED BY <1>3, <1>4, <1>5, <1>6, <1>7 DEF ClientStep

LEMMA ClientStepKeeps ==
  ASSUME RowInv, ClientStep
  PROVE  RowInv'
<1>1. RowTypeOK /\ RowIsComputed
  BY DEF RowInv
<1>2. /\ phase' \in {"item", "stream", "plain", "compute"}
      /\ item' \in Item /\ items' \in Seq(Item)
      /\ streaming_used' \in BOOLEAN /\ OneByOne' /\ Answers'
  BY ClientStepOfItems
<1>3. /\ UNCHANGED <<meter, now, drawn, base, samples, row, fate>> /\ faults' \in 0 .. MaxFaults
      /\ phase \in {"item", "stream", "plain"} /\ Sampled' /\ Counted'
  BY ClientStepIs
<1>4. RowTypeOK'
  BY <1>1, <1>2, <1>3 DEF RowTypeOK
<1>5. RowIsComputed'
  <2>1. row' = NoRow /\ fate' = "none"
    BY <1>1, <1>3 DEF RowIsComputed
  <2> QED BY <1>2, <2>1 DEF RowIsComputed
<1> QED BY <1>2, <1>3, <1>4, <1>5 DEF RowInv

-----------------------------------------------------------------------------
(* What is computed is of the type of a row, whatever the counter did.     *)
LEMMA ItemEnergyIsInt ==
  ASSUME RowTypeOK, Sampled, NEW it, it.start \in Nat, it.end \in Nat
  PROVE  ItemEnergy(it) \in Int
<1>1. ASSUME NEW t \in Nat PROVE Interpolate(t) \in Int
  <2>1. CASE ~ Inside(t)
    BY <2>1 DEF Interpolate, Inside, Nil
  <2>2. CASE Inside(t)
    <3> DEFINE e0 == samples[Lo(t)].energy
               e1 == samples[Hi(t)].energy
               k == samples[Hi(t)].ts - samples[Lo(t)].ts
               x == t - samples[Lo(t)].ts
    <3>1. e0 \in Nat /\ e1 \in Nat
      BY <2>2, NextTo, ReadingsTyped
    <3>2. CASE Lo(t) = Hi(t)
      BY <2>2, <3>1, <3>2, InterpolateIs
    <3>3. CASE Lo(t) # Hi(t)
      <4>1. Interpolate(t) = Between(e0, e1, x, k) /\ k \in Nat /\ k > 0 /\ x \in Nat
        BY <2>2, <3>3, InterpolateIs
      <4> HIDE DEF e0, e1, k, x
      <4>2. x * (e1 - e0) \in Int
        BY <3>1, <4>1
      <4>3. (x * (e1 - e0)) \div k \in Int
        BY <4>1, <4>2, DivIs
      <4> QED BY <3>1, <4>1, <4>3 DEF Between
    <3> QED BY <3>2, <3>3
  <2> QED BY <2>1, <2>2
<1>2. Interpolate(it.start) \in Int /\ Interpolate(it.end) \in Int
  BY <1>1
<1> DEFINE from == Interpolate(it.start)
           to == Interpolate(it.end)
<1>3. ItemEnergy(it) = Nil \/ ItemEnergy(it) = to - from
  BY DEF ItemEnergy
<1> HIDE DEF from, to
<1>4. from \in Int /\ to \in Int
  BY <1>2 DEF from, to
<1> QED BY <1>3, <1>4 DEF Nil

LEMMA GapsTyped ==
  ASSUME NEW it, it.at \in Seq(Nat)
  PROVE  Gaps(it) \in Seq(Int)
<1> DEFINE at == it.at
           n == Len(at)
<1>1. at \in Seq(Nat)
  OBVIOUS
<1>2. n \in Nat /\ \A k \in 1 .. n : at[k] \in Nat
  BY <1>1, LenProperties
<1>3. Gaps(it) = [i \in 1 .. n - 1 |-> at[i + 1] - at[i]]
  BY DEF Gaps
<1> HIDE DEF at, n
<1>4. ASSUME NEW i \in 1 .. n - 1 PROVE at[i + 1] - at[i] \in Int
  <2>1. i \in 1 .. n /\ i + 1 \in 1 .. n
    BY <1>2
  <2> QED BY <1>2, <2>1
<1>5. Gaps(it) \in [1 .. n - 1 -> Int]
  BY <1>3, <1>4
<1>6. CASE n = 0
  <2>1. Gaps(it) \in [1 .. 0 -> Int]
    <3>1. 1 .. n - 1 = 1 .. 0
      BY <1>6
    <3> QED BY <1>5, <3>1
  <2> QED BY <2>1, SeqOf
<1>7. CASE n # 0
  <2>1. n - 1 \in Nat
    BY <1>2, <1>7
  <2> QED BY <1>5, <2>1, SeqOf
<1> QED BY <1>6, <1>7

LEMMA ComputedTyped ==
  ASSUME RowTypeOK, Sampled, Counted, OneByOne
  PROVE  Computed \in [counter : Int, integral2 : Int, energy : Seq(Int), ttft : Seq(Int), gaps : Seq(Seq(Int))]
<1> DEFINE n == Len(items)
           energy == [i \in DOMAIN items |-> ItemEnergy(items[i])]
           gaps == [i \in DOMAIN items |-> Gaps(items[i])]
<1>1. /\ n \in Nat /\ DOMAIN items = 1 .. n
      /\ \A i \in 1 .. n : /\ items[i].start \in Nat /\ items[i].end \in Nat
                           /\ items[i].at \in Seq(Nat)
  BY ItemsTyped
<1>2. energy \in Seq(Int)
  <2>1. \A i \in 1 .. n : ItemEnergy(items[i]) \in Int
    BY <1>1, ItemEnergyIsInt
  <2>2. energy \in [1 .. n -> Int]
    BY <1>1, <2>1
  <2> QED BY <1>1, <2>2, SeqOf
<1>3. Ttfts \in Seq(Int)
  <2>1. ASSUME NEW i \in 1 .. n
        PROVE  (IF items[i].at = << >> THEN 0 ELSE items[i].at[1] - items[i].start) \in Int
    <3>1. CASE items[i].at = << >>
      BY <3>1
    <3>2. CASE items[i].at # << >>
      <4>1. items[i].at \in Seq(Nat) /\ items[i].start \in Nat
        BY <1>1
      <4>2. Len(items[i].at) \in Nat /\ Len(items[i].at) # 0
        BY <3>2, <4>1, EmptySeq, LenProperties
      <4>3. 1 \in 1 .. Len(items[i].at)
        BY <4>2
      <4>4. items[i].at[1] \in Nat
        BY <4>1, <4>3, ElementOfSeq
      <4> QED BY <3>2, <4>1, <4>4
    <3> QED BY <3>1, <3>2
  <2>2. Ttfts \in [1 .. n -> Int]
    BY <1>1, <2>1 DEF Ttfts
  <2> QED BY <1>1, <2>2, SeqOf
<1>4. gaps \in Seq(Seq(Int))
  <2>1. \A i \in 1 .. n : Gaps(items[i]) \in Seq(Int)
    BY <1>1, GapsTyped
  <2>2. gaps \in [1 .. n -> Seq(Int)]
    BY <1>1, <2>1
  <2> QED BY <1>1, <2>2, SeqOf
<1>5. CounterEnergy \in Int /\ Integral2 \in Int
  BY CounterWithinDraw, IntegralIsInt
<1>6. << >> \in Seq(Int) /\ << >> \in Seq(Seq(Int))
  OBVIOUS
<1>7. Computed = [counter |-> CounterEnergy, integral2 |-> Integral2, energy |-> energy,
                  ttft |-> IF streaming_used THEN Ttfts ELSE << >>,
                  gaps |-> IF streaming_used THEN gaps ELSE << >>]
  BY DEF Computed
<1> HIDE DEF energy, gaps
<1>8. (IF streaming_used THEN Ttfts ELSE << >>) \in Seq(Int) /\ (IF streaming_used THEN gaps ELSE << >>) \in Seq(Seq(Int))
  BY <1>3, <1>4, <1>6
<1> QED BY <1>2, <1>5, <1>7, <1>8

-----------------------------------------------------------------------------
(* A row stays what is computed: what it was computed from stays as it is. *)
LEMMA ComputedAgain ==
  ASSUME UNCHANGED <<samples, items, streaming_used>>
  PROVE  Computed' = Computed
<1>1. Readings' = Readings
  BY DEF Readings
<1>2. TwoReadings' = TwoReadings
  BY <1>1 DEF TwoReadings
<1>3. CounterEnergy' = CounterEnergy
  BY <1>1, <1>2 DEF CounterEnergy
<1>4. Integral2' = Integral2
  BY DEF Integral2
<1>5. ASSUME NEW CONSTANT t PROVE Interpolate(t)' = Interpolate(t)
  <2>1. ReadBefore(t)' = ReadBefore(t) /\ ReadAfter(t)' = ReadAfter(t)
    BY <1>1 DEF ReadBefore, ReadAfter
  <2> QED BY <2>1 DEF Interpolate
<1>6. [i \in DOMAIN items |-> ItemEnergy(items[i])]' = [i \in DOMAIN items |-> ItemEnergy(items[i])]
  <2>1. ASSUME NEW CONSTANT it PROVE ItemEnergy(it)' = ItemEnergy(it)
    BY <1>2, <1>5 DEF ItemEnergy
  <2> QED BY <2>1
<1>7. Ttfts' = Ttfts
  BY DEF Ttfts
<1> QED BY <1>3, <1>4, <1>6, <1>7 DEF Computed

LEMMA RowStepKeeps ==
  ASSUME RowInv, RowStep
  PROVE  RowInv'
<1>1. RowTypeOK /\ Sampled /\ Counted /\ OneByOne /\ Answers /\ RowIsComputed
  BY DEF RowInv
<1>2. /\ UNCHANGED <<meter, now, drawn, base, samples, item, items, streaming_used, faults>>
      /\ phase \in {"compute", "export"} /\ phase' \in {"export", "over"}
  BY DEF RowStep, Compute, Export, NoFault
<1>3. Readings' = Readings /\ Moving' = Moving /\ Steady' = Steady
  BY <1>2 DEF Readings, Moving, Steady
<1>4. Sampled' /\ Counted'
  BY <1>1, <1>2, <1>3 DEF Sampled, Counted, StuckReads, Floor, Spread, Rising
<1>5. OneByOne' /\ Answers'
  BY <1>1, <1>2 DEF OneByOne, InTime, Answers, StreamedAsPlain
<1>6. Computed' = Computed
  BY <1>2, ComputedAgain
<1>7. CASE Compute
  <2>1. row = NoRow /\ fate = "none"
    <3>1. phase = "compute"
      BY <1>7 DEF Compute
    <3> QED BY <1>1, <3>1 DEF RowIsComputed
  <2>2. \/ row' = row /\ fate' \in {"no row", "raised"} /\ phase' = "over"
        \/ row' = Computed /\ fate' = fate /\ phase' = "export"
    BY <1>7 DEF Compute
  <2>3. RowIsComputed'
    BY <1>6, <2>1, <2>2 DEF RowIsComputed
  <2>4. /\ row' \in [counter : Int, integral2 : Int, energy : Seq(Int), ttft : Seq(Int), gaps : Seq(Seq(Int))]
        /\ fate' \in {"none", "no row", "raised", "held", "sent"}
    <3>1. row \in [counter : Int, integral2 : Int, energy : Seq(Int), ttft : Seq(Int), gaps : Seq(Seq(Int))]
      BY <1>1 DEF RowTypeOK
    <3>2. Computed \in [counter : Int, integral2 : Int, energy : Seq(Int), ttft : Seq(Int), gaps : Seq(Seq(Int))]
      BY <1>1, ComputedTyped
    <3> QED BY <2>1, <2>2, <3>1, <3>2
  <2>5. RowTypeOK'
    BY <1>1, <1>2, <2>4 DEF RowTypeOK
  <2> QED BY <1>4, <1>5, <2>3, <2>5 DEF RowInv
<1>8. CASE Export
  <2>1. row' = row /\ fate' = (IF Gated(row) THEN "held" ELSE "sent") /\ phase = "export" /\ phase' = "over"
    BY <1>8 DEF Export
  <2>2. row' = NoRow \/ row' = Computed'
    BY <1>1, <1>6, <2>1 DEF RowIsComputed
  <2>3. fate' = "sent" => ~ Gated(row)
    BY <2>1
  <2>4. Gated(row)' <=> Gated(row)
    BY <2>1 DEF Gated
  <2>5. RowIsComputed'
    BY <2>1, <2>2, <2>3, <2>4 DEF RowIsComputed
  <2>6. RowTypeOK'
    BY <1>1, <1>2, <2>1 DEF RowTypeOK
  <2> QED BY <1>4, <1>5, <2>5, <2>6 DEF RowInv
<1> QED BY <1>7, <1>8 DEF RowStep

LEMMA RowStutters ==
  ASSUME RowInv, UNCHANGED rowVars
  PROVE  RowInv'
<1>1. RowTypeOK /\ Sampled /\ Counted /\ OneByOne /\ Answers /\ RowIsComputed
  BY DEF RowInv
<1>2. UNCHANGED <<meter, now, drawn, base, samples, phase, item, items, streaming_used, row, fate, faults>>
  BY DEF rowVars
<1>3. Readings' = Readings /\ Moving' = Moving /\ Steady' = Steady
  BY <1>2 DEF Readings, Moving, Steady
<1>4. Sampled' /\ Counted'
  BY <1>1, <1>2, <1>3 DEF Sampled, Counted, StuckReads, Floor, Spread, Rising
<1>5. OneByOne' /\ Answers'
  BY <1>1, <1>2 DEF OneByOne, InTime, Answers, StreamedAsPlain
<1>6. Computed' = Computed
  BY <1>2, ComputedAgain
<1>7. RowIsComputed'
  BY <1>1, <1>2, <1>6 DEF RowIsComputed, Gated
<1>8. RowTypeOK'
  BY <1>1, <1>2 DEF RowTypeOK
<1> QED BY <1>4, <1>5, <1>7, <1>8 DEF RowInv

LEMMA RowInvStep == RowInv /\ [RowNext]_rowVars => RowInv'
  BY RowCases, CardStepKeeps, ClientStepKeeps, RowStepKeeps, RowStutters

-----------------------------------------------------------------------------
LEMMA InvShares == RowInv => ItemsShareTheRow
<1> SUFFICES ASSUME RowInv PROVE ItemsShareTheRow
  OBVIOUS
<1>1. RowTypeOK /\ Sampled /\ Counted /\ OneByOne /\ (row = NoRow \/ row = Computed)
  BY DEF RowInv, RowIsComputed
<1>2. drawn \in Nat
  BY <1>1 DEF RowTypeOK
<1>3. CASE row = NoRow
  <2>1. row.counter = Nil
    BY <1>3 DEF NoRow
  <2> QED BY <1>2, <2>1 DEF ItemsShareTheRow, Nil
<1>4. CASE row = Computed
  <2>1. row.counter = CounterEnergy /\ row.energy = [i \in DOMAIN items |-> ItemEnergy(items[i])]
    BY <1>4 DEF Computed
  <2>2. row.counter <= drawn
    BY <1>1, <2>1, CounterWithinDraw
  <2>3. ASSUME row.counter # Nil, Steady
        PROVE  Total([i \in DOMAIN row.energy |-> Known(row.energy[i])]) <= row.counter
    <3>1. Metered
      BY <1>1, <2>3 DEF Metered, Rises, Counted, Rising
    <3>2. /\ TwoReadings
          /\ row.counter = samples[Max(Readings)].energy - samples[Min(Readings)].energy
      BY <2>1, <2>3 DEF CounterEnergy
    <3>3. Readings # {}
      BY <3>2 DEF TwoReadings
    <3>4. Total([i \in DOMAIN items |-> Known(ItemEnergy(items[i]))]) <= row.counter
      BY <1>1, <3>1, <3>2, <3>3, ItemsWithin
    <3>5. [i \in DOMAIN row.energy |-> Known(row.energy[i])] = [i \in DOMAIN items |-> Known(ItemEnergy(items[i]))]
      BY <2>1
    <3> QED BY <3>4, <3>5
  <2> QED BY <2>2, <2>3 DEF ItemsShareTheRow, Steady
<1> QED BY <1>1, <1>3, <1>4

LEMMA InvNotInflated == RowInv => SentNotInflated
<1> SUFFICES ASSUME RowInv, fate = "sent", row.counter > 0 PROVE 10 * row.integral2 <= 22 * drawn
  BY DEF SentNotInflated
<1> DEFINE c == row.counter
           i2 == row.integral2
<1>1. RowTypeOK /\ ItemsShareTheRow /\ ~ Gated(row)
  BY InvShares DEF RowInv, RowIsComputed
<1>2. drawn \in Nat /\ c \in Int /\ i2 \in Int
  BY <1>1 DEF RowTypeOK
<1>3. c <= drawn /\ c > 0
  BY <1>1 DEF ItemsShareTheRow
<1>4. ~ (Distance(i2, 2 * c) * 10 > 2 * c)
  BY <1>1, <1>3 DEF Gated
<1> HIDE DEF c, i2
<1>5. 10 * i2 <= 22 * c
  <2>1. CASE i2 < 2 * c
    BY <1>2, <1>3, <2>1
  <2>2. CASE ~ (i2 < 2 * c)
    <3>1. Distance(i2, 2 * c) = i2 - 2 * c
      BY <2>2 DEF Distance
    <3> QED BY <1>2, <1>4, <3>1
  <2> QED BY <2>1, <2>2
<1>6. 10 * i2 <= 22 * drawn
  BY <1>2, <1>3, <1>5
<1> QED BY <1>6 DEF i2

LEMMA InvMeasured == RowInv => LatencyIsMeasured
<1> SUFFICES ASSUME RowInv, NEW i \in DOMAIN row.ttft
             PROVE  /\ items[i].mode = "stream"
                    /\ row.ttft[i] + Total(row.gaps[i]) <= items[i].end - items[i].start
  BY DEF LatencyIsMeasured
<1>1. RowTypeOK /\ OneByOne /\ Answers /\ (row = NoRow \/ row = Computed)
  BY DEF RowInv, RowIsComputed
<1>2. DOMAIN << >> = {}
  OBVIOUS
<1>3. row = Computed /\ streaming_used
  <2>1. NoRow.ttft = << >>
    BY DEF NoRow
  <2>2. ~ streaming_used => Computed.ttft = << >>
    BY DEF Computed
  <2> QED BY <1>1, <1>2, <2>1, <2>2
<1>4. row.ttft = Ttfts /\ row.gaps = [j \in DOMAIN items |-> Gaps(items[j])]
  BY <1>3 DEF Computed
<1>5. /\ i \in DOMAIN items /\ row.gaps[i] = Gaps(items[i])
      /\ row.ttft[i] = IF items[i].at = << >> THEN 0 ELSE items[i].at[1] - items[i].start
  BY <1>4 DEF Ttfts
<1>6. items[i].mode = "stream"
  BY <1>1, <1>3, <1>5 DEF Answers
<1>7. items[i] \in Item /\ items[i].end \in Nat /\ InTime(items[i], items[i].end)
  BY <1>1, <1>5, ItemsTyped DEF OneByOne
<1>8. (IF items[i].at = << >> THEN 0 ELSE items[i].at[1] - items[i].start) + Total(Gaps(items[i]))
        <= items[i].end - items[i].start
  BY <1>7, LatencyWithin
<1> QED BY <1>5, <1>6, <1>8

(* The parts of a row's life are of their types: no counter, however it    *)
(* stands still, lags or starts again, and no split of an item's energy    *)
(* between two readings makes a row that is not one of numbers.            *)
THEOREM RowTyped == RowSpec => []RowTypeOK
<1>1. RowInv => RowTypeOK
  BY DEF RowInv
<1> QED BY <1>1, RowInvInitially, RowInvStep, PTL DEF RowSpec

(* By the counter a row costs no more than the card drew, and its items no *)
(* more together than the row, for any draw, any number of items and       *)
(* faults, and however their times fall between the readings.              *)
THEOREM ItemsShare == RowSpec => []ItemsShareTheRow
BY InvShares, RowInvInitially, RowInvStep, PTL DEF RowSpec

(* A row that leaves the box has not been inflated: the energy under its   *)
(* power samples is at most a tenth more than what the card drew.          *)
THEOREM NotInflated == RowSpec => []SentNotInflated
BY InvNotInflated, RowInvInitially, RowInvStep, PTL DEF RowSpec

(* Latencies are reported of what was really streamed, and the times of an *)
(* item fit into it.                                                       *)
THEOREM LatencyMeasured == RowSpec => []LatencyIsMeasured
BY InvMeasured, RowInvInitially, RowInvStep, PTL DEF RowSpec

(* An answer is scored alike whether it came in pieces or in one message.  *)
THEOREM ReadTheSame == RowSpec => []StreamedAsPlain
<1>1. RowInv => StreamedAsPlain
  BY DEF RowInv, Answers
<1> QED BY <1>1, RowInvInitially, RowInvStep, PTL DEF RowSpec
=============================================================================
