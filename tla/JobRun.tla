------------------------------- MODULE JobRun -------------------------------
(***************************************************************************)
(* One workflow of the catalog on its way: --check looks at its entry and  *)
(* at the schedule (cli.py run_check), then the executor looks it up, asks *)
(* its server, makes its history key and runs it (executor.py _execute).   *)
(* What JobAdapter says of an entry depends on the box, and the box may    *)
(* change before every step.                                               *)
(***************************************************************************)
EXTENDS JobAdapter, Sequences, SequencesExt

CONSTANTS
  MaxPlacements,           \* of the workflow, in a schedule
  Files,                   \* what the prompt file is
  Execs, Listings, Posts   \* how a process ends, and what a server answers

Boxes == [file : Files, exec : Execs, listing : Listings, post : Posts]

ASSUME BoxAssumption == Boxes \subseteq Box /\ MaxPlacements \in Nat

VARIABLES
  r,        \* the entry
  listed,   \* it stands under the id that the schedule has
  stage,
  found,    \* what the report counts as a problem
  exit,     \* of --check
  placed,   \* the placements of the workflow in the schedule that --check has seen
  key,      \* what the history key was made of
  payload,  \* the text that was sent
  outcome

runVars == <<r, listed, stage, found, exit, placed, key, payload, outcome>>

Texts == {"null", "command", "nothing", "prompt", "prompt_file", "messages"}

RunTypeOK ==
  /\ r \in Request /\ listed \in BOOLEAN
  /\ stage \in {"catalog", "auth", "schedule", "lookup", "preflight", "fingerprint", "run", "over"}
  /\ found \subseteq {"entry", "auth", "schedule", "unmatched"}
  /\ exit \in {"none", "0", "1", "2", "traceback"}
  /\ placed \in Seq({"infeasible", "window"})
  /\ key \in Texts /\ payload \in Texts
  /\ outcome \in {"none", "unknown_job", "unknown_framework", "preflight_failed", "rejected",
                  "crashes", "error", "success"}

RunInit ==
  /\ r \in Request /\ listed \in BOOLEAN
  /\ stage = "catalog" /\ found = {} /\ exit = "none" /\ placed = <<>>
  /\ key = "null" /\ payload = "null" /\ outcome = "none"

job == <<key, payload, outcome>>

(* _check_catalog: every entry is put to its adapter, and only an            *)
(* AdapterError is caught                                                   *)
CheckCatalog ==
  /\ stage = "catalog"
  /\ \E box \in Boxes :
       IF Fingerprinted(r, box) = "crashes"
         THEN stage' = "lookup" /\ exit' = "traceback" /\ UNCHANGED found
         ELSE /\ stage' = "auth" /\ UNCHANGED exit
              /\ found' = IF Fingerprinted(r, box) = "ok" THEN found ELSE found \cup {"entry"}
  /\ UNCHANGED <<r, listed, placed, job>>

Exits(problems) == stage' = "lookup" /\ exit' = IF problems = {} THEN "0" ELSE "1"

(* No URL, or _check_auth: a login *)
CheckAuth ==
  /\ stage = "auth"
  /\ \/ stage' = "lookup" /\ exit' = "2" /\ found' = found \cup {"auth"}
     \/ found' = found \cup {"auth"} /\ Exits(found')
     \/ stage' = "schedule" /\ UNCHANGED <<exit, found>>
  /\ UNCHANGED <<r, listed, placed, job>>

(* Mutant: of several placements of a workflow the first is looked at *)
CheckFirst ==
  /\ stage = "schedule"
  /\ \/ found' = found \cup {"schedule"} /\ UNCHANGED placed
     \/ /\ placed' \in SeqOf({"infeasible", "window"}, MaxPlacements)
        /\ found' = IF ~listed /\ placed' # <<>> /\ Head(placed') = "window"
                      THEN found \cup {"unmatched"} ELSE found
  /\ Exits(found')
  /\ UNCHANGED <<r, listed, job>>

(* _check_schedule: none, or one that places the workflow so often.          *)
(* _check_matching: the last placement of a workflow stands for all of them  *)
CheckSchedule ==
  /\ stage = "schedule"
  /\ \/ found' = found \cup {"schedule"} /\ UNCHANGED placed
     \/ /\ placed' \in SeqOf({"infeasible", "window"}, MaxPlacements)
        /\ found' = IF ~listed /\ placed' # <<>> /\ Last(placed') = "window"
                      THEN found \cup {"unmatched"} ELSE found
  /\ Exits(found')
  /\ UNCHANGED <<r, listed, job>>

-----------------------------------------------------------------------------
(* _execute of a placement of the workflow *)
checked == <<r, listed, found, exit, placed>>
Ends(how) == stage' = "over" /\ outcome' = how

Lookup ==
  /\ stage = "lookup"
  /\ IF ~listed THEN Ends("unknown_job")
     ELSE IF Adapter(r) = "unknown" THEN Ends("unknown_framework")
     ELSE stage' = "preflight" /\ UNCHANGED outcome
  /\ UNCHANGED <<checked, key, payload>>

Preflight ==
  /\ stage = "preflight"
  /\ \E box \in Boxes : IF Ready(r, box) THEN stage' = "fingerprint" /\ UNCHANGED outcome
                                         ELSE Ends("preflight_failed")
  /\ UNCHANGED <<checked, key, payload>>

(* Whatever fingerprint raises leaves the run without a key *)
Fingerprint ==
  /\ stage = "fingerprint" /\ stage' = "run"
  /\ \E box \in Boxes : key' = IF Fingerprinted(r, box) = "ok" THEN Keyed(r, box) ELSE "null"
  /\ UNCHANGED <<checked, payload, outcome>>

RunIt ==
  /\ stage = "run"
  /\ \E box \in Boxes :
       /\ Ends(Runs(r, box))
       /\ payload' = IF outcome' = "success" THEN Sent(r, box) ELSE "null"
  /\ UNCHANGED <<checked, key>>

RunNext == CheckCatalog \/ CheckAuth \/ CheckSchedule \/ Lookup \/ Preflight \/ Fingerprint \/ RunIt

RunSpec == RunInit /\ [][RunNext]_runVars

-----------------------------------------------------------------------------
(* --check and the run agree: a workflow that --check has found in order,    *)
(* the last placement of it in a window, is found under its id, its adapter  *)
(* is known and takes its entry, whatever has become of the server and of    *)
(* the files.  Left are a command without a program, a prompt file that      *)
(* cannot be read or is no text, and what process and server themselves do: *)
(* a crash is never the entry's.                                            *)
CheckedIsRun ==
  (exit = "0" /\ placed # <<>> /\ Last(placed) = "window") =>
    /\ outcome \notin {"unknown_job", "unknown_framework"}
    /\ outcome = "rejected" => IF Adapter(r) = "command" THEN r.command = "empty" ELSE ReadsFile(r)
    /\ outcome = "crashes" => Adapter(r) # "command" \/ r.command = "argv"

(* A run is filed under the text that was sent, or its length would count   *)
(* for another job's energy: unless the entry has both a prompt and          *)
(* messages, or its prompt file changed after the key was made, to no key at *)
(* all where it was no text then, and to an empty text where it was missing. *)
KeyOfWhatRan ==
  outcome = "success" =>
    \/ key = payload
    \/ r.messages # "none" /\ (r.prompt = "text" \/ r.prompt_file)
    \/ ReadsFile(r) /\ payload = "prompt_file" /\ key \in {"nothing", "null"}

=============================================================================
