-------------------------- MODULE JobCatalogProofs --------------------------
(***************************************************************************)
(* Proofs about JobCatalog for any number of registrars, edits, faults and *)
(* stamps.  The inductive invariant has four parts that do not need each   *)
(* other: what the watcher knows, what is true of the files as long as     *)
(* nobody is in anybody's way, who has had an answer, and who may have     *)
(* made the salt.                                                          *)
(***************************************************************************)
EXTENDS JobCatalog, JobRun, FiniteSetTheorems, TLAPS

(* The file as it stands was held; and the property of the watcher.        *)
Watched == WatchedIsTheFile /\ (Parses(file) => file.entries \in held)

(* A registrar has its answer when it is done with the file, not before.   *)
BeforeAnswer == {"idle", "create", "read", "open", "write", "replace"}
Unanswered == \A p \in Registrars : pc[p] \in BeforeAnswer => reply[p] = "none"

(* Who writes has something open.                                          *)
Opened == \A p \in Registrars : pc[p] \in {"write", "replace"} => fd[p] # "none"

(* One registrar at a time is between its read and its rename; until then  *)
(* the file is as it read it, and the temporary file is its own.           *)
OneAtATime == \A p, q \in Registrars : Busy(p) /\ Busy(q) => p = q
OnItsWay(p) ==
  /\ Busy(p) => doc[p] = file.entries
  /\ pc[p] \in {"write", "replace"} => fd[p] = "tmp"
  /\ pc[p] = "replace" => tmp.is = "whole" /\ tmp.entries = doc[p] \cup {p}

(* The file has the entries of those who were told of success, and all of  *)
(* them if it was not edited.                                              *)
Told(p) ==
  /\ p \in file.entries => reply[p] = "registered"
  /\ reply[p] = "registered" /\ edits = 0 => p \in file.entries /\ Parses(file)

Alone ==
  ~crowded =>
    /\ file.is # "half" /\ OneAtATime
    /\ \A p \in Registrars : OnItsWay(p) /\ Told(p)

(* Only who found no salt makes one, so a hash has the salt of such a one. *)
OneMaker ==
  /\ salt \in Registrars => salt \in saltless
  /\ sent \subseteq saltless
  /\ \A p \in Registrars : pc[p] \in {"salt", "register"} => p \in saltless

Typed == TypeOK /\ Opened
IInv == Typed /\ Watched /\ Unanswered /\ Alone /\ OneMaker

-----------------------------------------------------------------------------
(* The disjuncts of the next-state relation that are a registrar's *)
RegistrarStep(p) ==
  \/ Register(p) \/ Create(p) \/ Read(p) \/ Open(p) \/ Write(p) \/ Replace(p)
  \/ FindSalt(p) \/ MakeSalt(p) \/ Kill(p)

LEMMA NextCases ==
  ASSUME [Next]_vars
  PROVE  \/ \E p \in Registrars : RegistrarStep(p)
         \/ Edit \/ Tick \/ Stat \/ Refresh \/ Restart \/ UNCHANGED vars
  BY DEF Next, RegistrarStep

LEMMA Numbers ==
  MaxEdits \in Nat /\ MaxFaults \in Nat /\ MaxNow \in Nat /\ 1 <= MaxNow
<1>1. MaxEdits \in Nat /\ MaxFaults \in Nat
  BY NumbersAssumption
<1>2. MaxNow \in Nat /\ MaxNow # 0
  BY NumbersAssumption
<1> QED BY <1>1, <1>2

LEMMA TypeInitially == Init => TypeOK
<1> SUFFICES ASSUME Init PROVE TypeOK
  OBVIOUS
<1>1. MaxNow \in Nat /\ 1 \in 1 .. MaxNow /\ 1 \in 0 .. MaxNow /\ 0 \in 0 .. MaxNow
  BY Numbers
<1>2. file \in File /\ tmp \in File
  BY <1>1 DEF Init, File, NoFile, None, Ids
<1>3. file.stamp \in 0 .. MaxNow /\ file.entries \subseteq Ids
  BY <1>2 DEF File
<1>4. catalog \subseteq Ids /\ mtime \in 0 .. MaxNow /\ look \in -1 .. MaxNow
  BY <1>1, <1>3 DEF Init
<1>5. edits \in 0 .. MaxEdits /\ faults \in 0 .. MaxFaults
  BY Numbers DEF Init
<1> QED BY <1>1, <1>2, <1>4, <1>5 DEF Init, TypeOK

(* What becomes of the file, and what is held of it, keeps its type.       *)
LEMMA BecomesTyped ==
  ASSUME TypeOK, NEW f \in File, Becomes(f)
  PROVE  file' \in File /\ held' \subseteq SUBSET Ids /\ masked' \in BOOLEAN
<1>1. f.entries \subseteq Ids
  BY DEF File
<1>2. file' \in File /\ held' \subseteq SUBSET Ids
  BY <1>1 DEF Becomes, TypeOK
<1>3. masked' \in BOOLEAN
  BY DEF Becomes
<1> QED BY <1>2, <1>3

LEMMA GoesTyped ==
  ASSUME TypeOK, NEW p \in Registrars, NEW there, Goes(p, there),
         there \in {"idle", "create", "read", "open", "write", "replace", "node",
                    "salt", "register", "done"}
  PROVE  /\ pc' \in [Registrars -> {"idle", "create", "read", "open", "write", "replace",
                                    "node", "salt", "register", "done"}]
         /\ pc'[p] = there /\ \A q \in Registrars \ {p} : pc'[q] = pc[q]
  BY DEF Goes, TypeOK

LEMMA RepliesTyped ==
  ASSUME TypeOK, NEW p \in Registrars, NEW answer, Replies(p, answer),
         answer \in {"none", "registered", "refused", "not updated", "killed"}
  PROVE  /\ reply' \in [Registrars -> {"none", "registered", "refused", "not updated",
                                       "killed"}]
         /\ reply'[p] = answer /\ \A q \in Registrars \ {p} : reply'[q] = reply[q]
  BY DEF Replies, TypeOK

(* The numbers of a state, without the rest of its type.                   *)
LEMMA NumbersTyped ==
  ASSUME TypeOK
  PROVE  /\ now \in 1 .. MaxNow /\ now \in 0 .. MaxNow /\ 0 \in 0 .. MaxNow
         /\ mtime \in 0 .. MaxNow /\ mtime \in -1 .. MaxNow /\ look \in -1 .. MaxNow
         /\ look # -1 => look \in 0 .. MaxNow
         /\ file.stamp \in 0 .. MaxNow /\ file.stamp \in -1 .. MaxNow
         /\ faults \in 0 .. MaxFaults /\ edits \in 0 .. MaxEdits
<1>1. /\ now \in 1 .. MaxNow /\ mtime \in 0 .. MaxNow /\ look \in -1 .. MaxNow
      /\ faults \in 0 .. MaxFaults /\ edits \in 0 .. MaxEdits
  BY DEF TypeOK
<1>2. file.stamp \in 0 .. MaxNow
  BY DEF TypeOK, File
<1> QED BY <1>1, <1>2, Numbers

LEMMA WrittenTyped ==
  ASSUME TypeOK
  PROVE  /\ [is |-> "half", entries |-> {}, stamp |-> now] \in File /\ NoFile \in File
         /\ \A p \in Registrars : Document(p) \in File
<1>1. now \in 0 .. MaxNow /\ 0 \in 0 .. MaxNow
  BY NumbersTyped
<1>2. ASSUME NEW p \in Registrars PROVE doc[p] \cup {p} \subseteq Ids
  BY DEF TypeOK, Ids
<1> QED BY <1>1, <1>2 DEF File, NoFile, None, Document

LEMMA TypeOfRegistrar ==
  ASSUME TypeOK, Opened, NEW p \in Registrars, RegistrarStep(p)
  PROVE  TypeOK'
<1>1. CASE Register(p)
  BY <1>1, GoesTyped, RepliesTyped DEF Register, TypeOK, disk, daemon
<1>2. CASE Create(p)
  <2>1. faults' \in 0 .. MaxFaults
    BY <1>2, NumbersTyped, Numbers DEF Create
  <2> QED BY <1>2, <2>1, GoesTyped, RepliesTyped DEF Create, TypeOK, disk, daemon
<1>3. CASE Read(p)
  <2>1. file.entries \subseteq Ids
    BY DEF TypeOK, File
  <2>2. doc' \in [Registrars -> SUBSET Ids]
    BY <1>3, <2>1 DEF Read, TypeOK
  <2>3. crowded' \in BOOLEAN
    BY <1>3 DEF Read, TypeOK
  <2> QED BY <1>3, <2>2, <2>3, GoesTyped, RepliesTyped DEF Read, TypeOK, disk, daemon
<1>4. CASE Open(p)
  BY <1>4, GoesTyped, WrittenTyped DEF Open, TypeOK, daemon
<1>5. CASE Write(p)
  <2>1. file' \in File /\ held' \subseteq SUBSET Ids /\ masked' \in BOOLEAN /\ tmp' \in File
    <3>1. CASE fd[p] = "tmp"
      BY <1>5, <3>1, WrittenTyped DEF Write, TypeOK
    <3>2. CASE fd[p] = "file"
      BY <1>5, <3>2, WrittenTyped, BecomesTyped DEF Write, TypeOK
    <3>3. CASE fd[p] = "unlinked"
      BY <1>5, <3>3 DEF Write, TypeOK, disk
    <3>4. fd[p] \in {"tmp", "file", "unlinked"}
      BY <1>5 DEF Write, Opened, TypeOK
    <3> QED BY <3>1, <3>2, <3>3, <3>4
  <2> QED BY <1>5, <2>1, GoesTyped DEF Write, TypeOK, daemon
<1>6. CASE Replace(p)
  <2>1. CASE tmp = NoFile
    BY <1>6, <2>1, GoesTyped, RepliesTyped DEF Replace, TypeOK, disk, daemon
  <2>2. CASE tmp # NoFile
    <3>1. file' \in File /\ held' \subseteq SUBSET Ids /\ masked' \in BOOLEAN /\ tmp' \in File
      BY <1>6, <2>2, WrittenTyped, BecomesTyped DEF Replace, TypeOK
    <3>2. fd' \in [Registrars -> {"none", "tmp", "file", "unlinked"}]
      BY <1>6, <2>2 DEF Replace, TypeOK
    <3> QED BY <1>6, <2>2, <3>1, <3>2, GoesTyped, RepliesTyped DEF Replace, TypeOK, daemon
  <2> QED BY <2>1, <2>2
<1>7. CASE FindSalt(p)
  BY <1>7, GoesTyped DEF FindSalt, TypeOK, disk, daemon
<1>8. CASE MakeSalt(p)
  BY <1>8, GoesTyped DEF MakeSalt, TypeOK, disk, daemon
<1>9. CASE Kill(p)
  <2>1. faults' \in 0 .. MaxFaults
    BY <1>9, NumbersTyped, Numbers DEF Kill
  <2>2. (IF reply[p] = "none" THEN "killed" ELSE reply[p])
          \in {"none", "registered", "refused", "not updated", "killed"}
    BY DEF TypeOK
  <2> QED BY <1>9, <2>1, <2>2, GoesTyped, RepliesTyped DEF Kill, TypeOK, disk, daemon
<1> QED BY <1>1, <1>2, <1>3, <1>4, <1>5, <1>6, <1>7, <1>8, <1>9 DEF RegistrarStep

(* What an edit leaves is nothing, or a whole or mistyped document with    *)
(* the entries there were, and perhaps the one of its own.                 *)
LEMMA EditBecomes ==
  ASSUME TypeOK, Edit
  PROVE  \E f \in File :
           /\ Becomes(f)
           /\ f.is # "half" /\ f.entries \subseteq file.entries \cup {Hand}
<1>1. PICK f \in {NoFile} \cup [is : {"whole", "mistyped"}, stamp : {now},
                               entries : {file.entries, file.entries \cup {Hand}}] : Becomes(f)
  BY DEF Edit
<1>2. now \in 0 .. MaxNow /\ file.entries \subseteq Ids
  BY NumbersTyped DEF TypeOK, File
<1>3. file.entries \cup {Hand} \subseteq Ids
  BY <1>2 DEF Ids
<1>4. f \in File /\ f.is # "half" /\ f.entries \subseteq file.entries \cup {Hand}
  BY <1>1, <1>2, <1>3, WrittenTyped DEF File, NoFile
<1> QED BY <1>1, <1>4

LEMMA TypeOfEdit ==
  ASSUME TypeOK, Edit
  PROVE  TypeOK'
<1>3. file' \in File /\ held' \subseteq SUBSET Ids /\ masked' \in BOOLEAN
  BY EditBecomes, BecomesTyped
<1>4. edits' \in 0 .. MaxEdits
  BY NumbersTyped, Numbers DEF Edit
<1>5. fd' \in [Registrars -> {"none", "tmp", "file", "unlinked"}]
  <2>1. fd \in [Registrars -> {"none", "tmp", "file", "unlinked"}]
    BY DEF TypeOK
  <2> QED BY <2>1 DEF Edit
<1>6. crowded' \in BOOLEAN
  <2>1. crowded \in BOOLEAN /\ crowded' = (crowded \/ \E p \in Registrars : Busy(p))
    BY DEF Edit, TypeOK
  <2> QED BY <2>1
<1> QED BY <1>3, <1>4, <1>5, <1>6 DEF Edit, TypeOK, daemon

LEMMA TypeStep == Typed /\ [Next]_vars => TypeOK'
<1> SUFFICES ASSUME TypeOK, Opened, [Next]_vars PROVE TypeOK'
  BY DEF Typed
<1>f. file.stamp \in 0 .. MaxNow /\ file.entries \subseteq Ids /\ MaxNow \in Nat
  BY Numbers DEF TypeOK, File
<1>1. CASE Tick
  <2>1. now' \in 1 .. MaxNow
    BY <1>1, NumbersTyped, Numbers DEF Tick
  <2> QED BY <1>1, <2>1 DEF Tick, TypeOK, disk, registrars, daemon
<1>2. CASE Stat
  <2>1. look' \in -1 .. MaxNow
    BY <1>2, <1>f DEF Stat
  <2> QED BY <1>2, <2>1 DEF Stat, TypeOK, disk, registrars
<1>3. CASE Refresh
  <2>1. mtime' \in 0 .. MaxNow /\ look' \in -1 .. MaxNow
    BY <1>3, NumbersTyped, Numbers DEF Refresh
  <2>2. catalog' \subseteq Ids
    BY <1>3, <1>f DEF Refresh, TypeOK
  <2> QED BY <1>3, <2>1, <2>2 DEF Refresh, TypeOK, disk, registrars
<1>4. CASE Restart
  <2>1. mtime' \in 0 .. MaxNow /\ look' \in -1 .. MaxNow /\ faults' \in 0 .. MaxFaults
    BY <1>4, NumbersTyped, Numbers DEF Restart
  <2>2. catalog' \subseteq Ids
    BY <1>4, <1>f DEF Restart
  <2>3. held' \subseteq SUBSET Ids /\ masked' \in BOOLEAN
    BY <1>4, <2>2 DEF Restart, TypeOK
  <2> QED BY <1>4, <2>1, <2>2, <2>3 DEF Restart, TypeOK, registrars
<1>5. CASE UNCHANGED vars
  BY <1>5 DEF vars, TypeOK
<1> QED BY <1>1, <1>2, <1>3, <1>4, <1>5, NextCases, TypeOfRegistrar, TypeOfEdit

(* Where each step of a registrar begins and ends; nobody else moves.       *)
LEMMA Moves ==
  ASSUME TypeOK, NEW p \in Registrars
  PROVE  /\ Register(p) => pc[p] = "idle" /\ pc'[p] \in {"done", "create"}
         /\ Create(p) => pc[p] = "create" /\ pc'[p] \in {"done", "read"}
         /\ Read(p) => pc[p] = "read" /\ pc'[p] \in {"done", "open"}
         /\ Open(p) => pc[p] = "open" /\ pc'[p] = "write"
         /\ Write(p) => pc[p] = "write" /\ pc'[p] = "replace"
         /\ Replace(p) => pc[p] = "replace" /\ pc'[p] \in {"done", "node"}
         /\ FindSalt(p) => pc[p] = "node" /\ pc'[p] \in {"done", "salt"}
         /\ MakeSalt(p) => pc[p] \in {"salt", "register"} /\ pc'[p] \in {"register", "done"}
         /\ Kill(p) => pc'[p] = "done"
         /\ RegistrarStep(p) => \A q \in Registrars \ {p} : pc'[q] = pc[q]
<1>1. ASSUME NEW there, Goes(p, there)
      PROVE  pc'[p] = there /\ \A q \in Registrars \ {p} : pc'[q] = pc[q]
  BY <1>1 DEF Goes, TypeOK
<1>2. /\ Register(p) => pc[p] = "idle" /\ (Goes(p, "done") \/ Goes(p, "create"))
      /\ Create(p) => pc[p] = "create" /\ (Goes(p, "done") \/ Goes(p, "read"))
      /\ Read(p) => pc[p] = "read" /\ (Goes(p, "done") \/ Goes(p, "open"))
      /\ Open(p) => pc[p] = "open" /\ Goes(p, "write")
      /\ Write(p) => pc[p] = "write" /\ Goes(p, "replace")
      /\ Replace(p) => pc[p] = "replace" /\ (Goes(p, "done") \/ Goes(p, "node"))
      /\ FindSalt(p) => pc[p] = "node" /\ (Goes(p, "done") \/ Goes(p, "salt"))
      /\ MakeSalt(p) =>
           pc[p] \in {"salt", "register"} /\ (Goes(p, "register") \/ Goes(p, "done"))
      /\ Kill(p) => Goes(p, "done")
  BY DEF Register, Create, Read, Open, Write, Replace, FindSalt, MakeSalt, Kill
<1>3. RegistrarStep(p) => \E there : Goes(p, there)
  BY <1>2 DEF RegistrarStep
<1> QED BY <1>1, <1>2, <1>3

LEMMA OpenedStep == Typed /\ [Next]_vars => Opened'
<1> SUFFICES ASSUME TypeOK, Opened, [Next]_vars PROVE Opened'
  BY DEF Typed
<1>1. ASSUME NEW p \in Registrars, RegistrarStep(p) PROVE Opened'
  <2>1. CASE Register(p) \/ Create(p) \/ Read(p) \/ FindSalt(p) \/ MakeSalt(p)
    <3>1. fd' = fd
      BY <2>1 DEF Register, Create, Read, FindSalt, MakeSalt
    <3>2. pc'[p] \notin {"write", "replace"} /\ \A q \in Registrars \ {p} : pc'[q] = pc[q]
      BY <1>1, <2>1, Moves
    <3> QED BY <3>1, <3>2 DEF Opened
  <2>2. CASE Open(p)
    BY <2>2, GoesTyped DEF Open, Opened, TypeOK
  <2>3. CASE Write(p)
    BY <2>3, GoesTyped DEF Write, Opened, TypeOK
  <2>4. CASE Replace(p)
    <3>1. pc'[p] \notin {"write", "replace"} /\ \A q \in Registrars \ {p} : pc'[q] = pc[q]
      BY <1>1, <2>4, Moves
    <3>2. \A q \in Registrars : fd[q] # "none" => fd'[q] # "none"
      BY <2>4 DEF Replace, TypeOK
    <3> QED BY <3>1, <3>2 DEF Opened
  <2>5. CASE Kill(p)
    <3>1. pc'[p] = "done" /\ \A q \in Registrars \ {p} : pc'[q] = pc[q] /\ fd'[q] = fd[q]
      BY <1>1, <2>5, Moves DEF Kill, TypeOK
    <3> QED BY <3>1 DEF Opened
  <2> QED BY <1>1, <2>1, <2>2, <2>3, <2>4, <2>5 DEF RegistrarStep
<1>2. CASE Edit
  BY <1>2 DEF Edit, Opened, TypeOK
<1>3. CASE Tick \/ Stat \/ Refresh \/ Restart \/ UNCHANGED vars
  BY <1>3 DEF Tick, Stat, Refresh, Restart, vars, registrars, Opened
<1> QED BY <1>1, <1>2, <1>3, NextCases

LEMMA TypedInitially == Init => Typed
  BY TypeInitially DEF Typed, Opened, Init

LEMMA TypedStep == Typed /\ [Next]_vars => Typed'
  BY TypeStep, OpenedStep DEF Typed

(* Every step keeps each variable in its type, whatever the files hold and *)
(* wherever what was opened has been moved.                                *)
THEOREM TypeCorrect == Spec => []TypeOK
<1>1. Typed => TypeOK
  BY DEF Typed
<1> QED BY <1>1, TypedInitially, TypedStep, PTL DEF Spec

-----------------------------------------------------------------------------
(* What is written to the file is held from then on, and where it bears    *)
(* another stamp than the watcher knows, the watcher will look.            *)
LEMMA BecomesWatched ==
  ASSUME TypeOK, Watched, NEW f \in File, Becomes(f), UNCHANGED <<catalog, mtime, look>>
  PROVE  Watched'
<1>1. catalog' \in held' /\ (Parses(file') => file'.entries \in held')
  BY DEF Becomes, Watched, WatchedIsTheFile
<1>2. ~ masked' => file'.stamp # mtime'
  BY DEF Becomes
<1> QED BY <1>1, <1>2 DEF Watched, WatchedIsTheFile

LEMMA WatchedStep == Typed /\ Watched /\ [Next]_vars => Watched'
<1> SUFFICES ASSUME TypeOK, Watched, Typed, [Next]_vars PROVE Watched'
  BY DEF Typed
<1>1. CASE UNCHANGED <<disk, daemon>>
  BY <1>1 DEF disk, daemon, Watched, WatchedIsTheFile
<1>2. CASE \E f \in File : Becomes(f) /\ UNCHANGED <<catalog, mtime, look>>
  BY <1>2, BecomesWatched
<1>3. CASE tmp' \in File /\ UNCHANGED <<file, held, masked, catalog, mtime, look>>
  BY <1>3 DEF Watched, WatchedIsTheFile
<1>4. ASSUME NEW p \in Registrars, RegistrarStep(p) PROVE Watched'
  <2>1. CASE Register(p) \/ Create(p) \/ Read(p) \/ FindSalt(p) \/ MakeSalt(p) \/ Kill(p)
    BY <1>1, <2>1 DEF Register, Create, Read, FindSalt, MakeSalt, Kill
  <2>2. CASE Open(p)
    BY <1>3, <2>2, WrittenTyped DEF Open, daemon
  <2>3. CASE Write(p)
    <3>1. CASE fd[p] = "tmp"
      BY <1>3, <2>3, <3>1, WrittenTyped DEF Write, daemon
    <3>2. CASE fd[p] = "file"
      BY <1>2, <2>3, <3>2, WrittenTyped DEF Write, daemon
    <3>3. CASE fd[p] = "unlinked"
      BY <1>1, <2>3, <3>3 DEF Write
    <3>4. fd[p] \in {"tmp", "file", "unlinked"}
      BY <2>3 DEF Write, Typed, Opened, TypeOK
    <3> QED BY <3>1, <3>2, <3>3, <3>4
  <2>4. CASE Replace(p)
    <3>1. CASE tmp = NoFile
      BY <1>1, <2>4, <3>1 DEF Replace
    <3>2. CASE tmp # NoFile
      BY <1>2, <2>4, <3>2 DEF Replace, TypeOK, daemon
    <3> QED BY <3>1, <3>2
  <2> QED BY <1>4, <2>1, <2>2, <2>3, <2>4 DEF RegistrarStep
<1>5. CASE Edit
  <2>1. \E f \in File : Becomes(f)
    BY <1>5, EditBecomes
  <2> QED BY <1>2, <1>5, <2>1 DEF Edit, daemon
<1>6. CASE Tick
  BY <1>1, <1>6 DEF Tick
<1>7. CASE Stat
  BY <1>7, NumbersTyped, Numbers DEF Stat, disk, Watched, WatchedIsTheFile
<1>8. CASE Refresh
  <2>1. catalog' \in held'
    BY <1>8 DEF Refresh, disk, Watched, WatchedIsTheFile
  <2>2. Parses(file') => catalog' = file'.entries /\ file'.entries \in held'
    BY <1>8 DEF Refresh, disk, Watched
  <2> QED BY <2>1, <2>2 DEF Watched, WatchedIsTheFile
<1>9. CASE Restart
  BY <1>9 DEF Restart, Watched, WatchedIsTheFile
<1>10. CASE UNCHANGED vars
  BY <1>1, <1>10 DEF vars, disk, daemon
<1> QED BY <1>4, <1>5, <1>6, <1>7, <1>8, <1>9, <1>10, NextCases

LEMMA WatchedInitially == Init => Watched
  BY DEF Init, Watched, WatchedIsTheFile

(* However the file is written, moved, edited and mistyped, and wherever   *)
(* between its two looks the watcher is overtaken: it runs from what has   *)
(* been in the file as a whole, and from what is there now unless a change *)
(* bore a stamp it had seen.                                               *)
THEOREM TheWatcherHasTheFile == Spec => []WatchedIsTheFile
<1>1. Typed /\ Watched /\ [Next]_vars => (Typed /\ Watched)'
  BY TypedStep, WatchedStep
<1>2. Init => Typed /\ Watched
  BY TypedInitially, WatchedInitially
<1>3. Watched => WatchedIsTheFile
  BY DEF Watched
<1> QED BY <1>1, <1>2, <1>3, PTL DEF Spec

-----------------------------------------------------------------------------
LEMMA OneMakerStep == Typed /\ OneMaker /\ [Next]_vars => OneMaker'
<1> SUFFICES ASSUME TypeOK, OneMaker, [Next]_vars PROVE OneMaker'
  BY DEF Typed
<1>1. ASSUME NEW p \in Registrars, RegistrarStep(p) PROVE OneMaker'
  <2>o. \A q \in Registrars \ {p} : pc'[q] = pc[q]
    BY <1>1, Moves
  <2>1. CASE UNCHANGED <<salt, sent, saltless>> /\ pc'[p] \notin {"salt", "register"}
    BY <2>o, <2>1 DEF OneMaker
  <2>2. CASE Register(p) \/ Create(p) \/ Read(p) \/ Open(p) \/ Write(p) \/ Replace(p) \/ Kill(p)
    <3>1. UNCHANGED <<salt, sent, saltless>>
      BY <2>2 DEF Register, Create, Read, Open, Write, Replace, Kill
    <3>2. pc'[p] \notin {"salt", "register"}
      BY <1>1, <2>2, Moves
    <3> QED BY <2>1, <3>1, <3>2
  <2>3. CASE FindSalt(p)
    <3>1. CASE Goes(p, "done") /\ UNCHANGED <<salt, sent, saltless>>
      BY <2>1, <3>1, GoesTyped
    <3>2. CASE /\ Goes(p, "salt") /\ saltless' = saltless \cup {p}
               /\ UNCHANGED <<salt, sent>>
      BY <2>o, <3>2 DEF OneMaker
    <3>3. CASE /\ salt \in Registrars /\ Goes(p, "done")
               /\ sent' = sent \cup {salt} /\ UNCHANGED <<salt, saltless>>
      BY <2>o, <3>3, GoesTyped DEF OneMaker
    <3> QED BY <2>3, <3>1, <3>2, <3>3 DEF FindSalt
  <2>4. CASE MakeSalt(p)
    <3>1. p \in saltless /\ saltless' = saltless
      BY <2>4 DEF MakeSalt, OneMaker
    <3>2. salt' \in {"empty", p} /\ sent' \subseteq sent \cup {p}
      BY <2>4 DEF MakeSalt
    <3>3. "empty" \notin Registrars
      BY RegistrarsAssumption
    <3> QED BY <2>o, <3>1, <3>2, <3>3 DEF OneMaker
  <2> QED BY <1>1, <2>2, <2>3, <2>4 DEF RegistrarStep
<1>2. CASE Edit \/ Tick \/ Stat \/ Refresh \/ Restart \/ UNCHANGED vars
  BY <1>2 DEF Edit, Tick, Stat, Refresh, Restart, vars, registrars, OneMaker
<1> QED BY <1>1, <1>2, NextCases

LEMMA OneMakerInitially == Init => OneMaker
<1>1. "missing" \notin Registrars
  BY RegistrarsAssumption
<1> QED BY <1>1 DEF Init, OneMaker

(* Whoever sends a hash sends it of a salt that a process made which had   *)
(* found none: with one such process the box has one identity, also when   *)
(* it is killed between emptying the file and writing it.                  *)
THEOREM TheBoxHasOneIdentity == Spec => []OneIdentity
<1>1. ASSUME TypeOK, OneMaker PROVE OneIdentity
  <2>1. IsFiniteSet(saltless)
    BY <1>1, RegistrarsAssumption, FS_Subset DEF TypeOK
  <2>2. IsFiniteSet(sent) /\ Cardinality(sent) <= Cardinality(saltless)
    BY <1>1, <2>1, FS_Subset DEF OneMaker
  <2>3. Cardinality(sent) \in Nat /\ Cardinality(saltless) \in Nat
    BY <2>1, <2>2, FS_CardinalityType
  <2> QED BY <2>2, <2>3 DEF OneIdentity
<1>2. Typed /\ OneMaker /\ [Next]_vars => (Typed /\ OneMaker)'
  BY TypedStep, OneMakerStep
<1>3. Init => Typed /\ OneMaker
  BY TypedInitially, OneMakerInitially
<1>4. Typed /\ OneMaker => OneIdentity
  BY <1>1 DEF Typed
<1> QED BY <1>2, <1>3, <1>4, PTL DEF Spec

-----------------------------------------------------------------------------
LEMMA UnansweredStep == Typed /\ Unanswered /\ [Next]_vars => Unanswered'
<1> SUFFICES ASSUME TypeOK, Unanswered, [Next]_vars PROVE Unanswered'
  BY DEF Typed
<1>1. ASSUME NEW p \in Registrars, RegistrarStep(p) PROVE Unanswered'
  <2>o. \A q \in Registrars \ {p} : pc'[q] = pc[q] /\ reply'[q] = reply[q]
    <3>1. reply' = reply \/ \E answer : Replies(p, answer)
      BY <1>1 DEF RegistrarStep, Register, Create, Read, Open, Write, Replace, FindSalt,
                  MakeSalt, Kill
    <3>2. \A q \in Registrars \ {p} : reply'[q] = reply[q]
      BY <3>1 DEF Replies, TypeOK
    <3> QED BY <1>1, <3>2, Moves
  <2>1. CASE pc'[p] \notin BeforeAnswer
    BY <2>o, <2>1 DEF Unanswered
  <2>2. CASE pc[p] \in BeforeAnswer /\ reply'[p] = reply[p]
    BY <2>o, <2>2 DEF Unanswered
  <2>3. CASE Open(p) \/ Write(p)
    BY <1>1, <2>2, <2>3, Moves DEF Open, Write, BeforeAnswer
  <2>4. CASE Replace(p) \/ FindSalt(p) \/ MakeSalt(p) \/ Kill(p)
    BY <1>1, <2>1, <2>4, Moves DEF BeforeAnswer
  <2>5. CASE Register(p) \/ Create(p) \/ Read(p)
    <3>1. pc[p] \in BeforeAnswer
      BY <1>1, <2>5, Moves DEF BeforeAnswer
    <3>2. Goes(p, "done") \/ reply' = reply
      BY <2>5 DEF Register, Create, Read
    <3>3. Goes(p, "done") => pc'[p] \notin BeforeAnswer
      BY GoesTyped DEF BeforeAnswer
    <3> QED BY <2>1, <2>2, <3>1, <3>2, <3>3
  <2> QED BY <1>1, <2>3, <2>4, <2>5 DEF RegistrarStep
<1>2. CASE Edit \/ Tick \/ Stat \/ Refresh \/ Restart \/ UNCHANGED vars
  BY <1>2 DEF Edit, Tick, Stat, Refresh, Restart, vars, registrars, Unanswered
<1> QED BY <1>1, <1>2, NextCases

(* A step of one that neither begins to be busy nor writes anything, and   *)
(* who was told of success before it or will not be.                       *)
LEMMA QuietAlone ==
  ASSUME Typed, Alone, NEW p \in Registrars, RegistrarStep(p),
         UNCHANGED <<file, tmp, doc, edits>>, fd' = fd \/ ~ Busy(p)',
         \A q \in Registrars \ {p} : fd'[q] = fd[q],
         crowded' = crowded, Busy(p)' => Busy(p) /\ pc'[p] = pc[p],
         reply'[p] = "registered" <=> reply[p] = "registered",
         \A q \in Registrars \ {p} : reply'[q] = reply[q]
  PROVE  Alone'
<1> SUFFICES ASSUME ~ crowded PROVE Alone'
  BY DEF Alone
<1>1. \A q \in Registrars \ {p} : pc'[q] = pc[q]
  BY Moves DEF Typed
<1>2. file.is # "half" /\ OneAtATime /\ \A q \in Registrars : OnItsWay(q) /\ Told(q)
  BY DEF Alone
<1>3. OneAtATime'
  BY <1>1, <1>2 DEF OneAtATime, Busy
<1>4. \A q \in Registrars : OnItsWay(q)'
  BY <1>1, <1>2 DEF OnItsWay, Busy
<1>5. \A q \in Registrars : Told(q)'
  BY <1>2 DEF Told
<1> QED BY <1>2, <1>3, <1>4, <1>5 DEF Alone

(* While nobody is in anybody's way, who is busy is the only one that is,  *)
(* and what is done to the temporary file concerns it alone.               *)
LEMMA BusyAlone ==
  ASSUME TypeOK, Alone, NEW p \in Registrars, RegistrarStep(p), Busy(p), ~ crowded
  PROVE  /\ \A q \in Registrars \ {p} : ~ Busy(q) /\ ~ Busy(q)'
         /\ \A q \in Registrars \ {p} : OnItsWay(q)'
         /\ OneAtATime'
<1>1. \A q \in Registrars \ {p} : pc'[q] = pc[q] /\ ~ Busy(q)
  BY Moves DEF Alone, OneAtATime
<1>2. \A q \in Registrars \ {p} : ~ Busy(q)'
  BY <1>1 DEF Busy
<1> QED BY <1>1, <1>2 DEF Busy, OnItsWay, OneAtATime

LEMMA ReadAlone ==
  ASSUME Typed, Unanswered, Alone, NEW p \in Registrars, Read(p)
  PROVE  Alone'
<1> SUFFICES ASSUME ~ crowded' PROVE Alone'
  BY DEF Alone
<1>t. TypeOK /\ RegistrarStep(p) /\ pc[p] = "read"
  BY DEF Typed, RegistrarStep, Read
<1>1. ~ crowded /\ \A q \in Registrars \ {p} : ~ Busy(q) /\ pc'[q] = pc[q]
  BY <1>t, Moves DEF Read
<1>2. file.is # "half" /\ \A q \in Registrars : Told(q)
  BY <1>1 DEF Alone
<1>3. UNCHANGED <<file, tmp, edits, fd>>
  BY DEF Read, disk
<1>4. /\ \A q \in Registrars \ {p} : ~ Busy(q)' /\ OnItsWay(q)'
      /\ OneAtATime'
  BY <1>1 DEF Busy, OnItsWay, OneAtATime
<1>5. CASE file.is \in {"missing", "whole"}
  <2>1. doc'[p] = file.entries /\ pc'[p] = "open" /\ reply' = reply
    BY <1>t, <1>5, GoesTyped DEF Read, TypeOK
  <2>2. OnItsWay(p)'
    BY <1>3, <2>1 DEF OnItsWay
  <2>3. \A q \in Registrars : Told(q)'
    BY <1>2, <1>3, <2>1 DEF Told
  <2> QED BY <1>2, <1>3, <1>4, <2>2, <2>3 DEF Alone
<1>6. CASE file.is \notin {"missing", "whole"}
  <2>1. pc'[p] = "done" /\ Replies(p, "not updated") /\ doc' = doc
    BY <1>t, <1>6, GoesTyped DEF Read
  <2>2. OnItsWay(p)'
    BY <2>1 DEF OnItsWay, Busy
  <2>3. reply'[p] = "not updated" /\ \A q \in Registrars \ {p} : reply'[q] = reply[q]
    BY <1>t, <2>1, RepliesTyped
  <2>4. ASSUME NEW q \in Registrars PROVE Told(q)'
    <3>1. reply[p] = "none"
      BY <1>t DEF Unanswered, BeforeAnswer
    <3>2. p \notin file.entries
      BY <1>2, <3>1 DEF Told
    <3> QED BY <1>2, <1>3, <2>3, <3>2 DEF Told
  <2> QED BY <1>2, <1>3, <1>4, <2>2, <2>4 DEF Alone
<1> QED BY <1>5, <1>6

LEMMA OpenAlone ==
  ASSUME Typed, Alone, NEW p \in Registrars, Open(p)
  PROVE  Alone'
<1> SUFFICES ASSUME ~ crowded' PROVE Alone'
  BY DEF Alone
<1>t. /\ TypeOK /\ RegistrarStep(p) /\ Busy(p) /\ ~ crowded
      /\ pc'[p] = "write" /\ UNCHANGED <<file, doc, reply, edits>>
  BY GoesTyped DEF Typed, RegistrarStep, Open, Busy
<1>1. file.is # "half" /\ \A q \in Registrars : OnItsWay(q) /\ Told(q)
  BY <1>t DEF Alone
<1>2. OnItsWay(p)'
  BY <1>t, <1>1 DEF OnItsWay, Open, Busy, TypeOK
<1>3. \A q \in Registrars : Told(q)'
  BY <1>t, <1>1 DEF Told
<1> QED BY <1>t, <1>1, <1>2, <1>3, BusyAlone DEF Alone

LEMMA WriteAlone ==
  ASSUME Typed, Alone, NEW p \in Registrars, Write(p)
  PROVE  Alone'
<1> SUFFICES ASSUME ~ crowded' PROVE Alone'
  BY DEF Alone
<1>t. /\ TypeOK /\ RegistrarStep(p) /\ Busy(p) /\ ~ crowded
      /\ pc[p] = "write" /\ pc'[p] = "replace" /\ UNCHANGED <<fd, doc, reply, edits>>
  BY GoesTyped DEF Typed, RegistrarStep, Write, Busy
<1>1. file.is # "half" /\ \A q \in Registrars : OnItsWay(q) /\ Told(q)
  BY <1>t DEF Alone
<1>2. fd[p] = "tmp" /\ doc[p] = file.entries
  BY <1>t, <1>1 DEF OnItsWay
<1>3. tmp' = Document(p) /\ file' = file
  BY <1>2 DEF Write
<1>4. OnItsWay(p)'
  BY <1>t, <1>2, <1>3 DEF OnItsWay, Document
<1>5. \A q \in Registrars : Told(q)'
  BY <1>t, <1>1, <1>3 DEF Told
<1> QED BY <1>t, <1>1, <1>3, <1>4, <1>5, BusyAlone DEF Alone

(* The rename: the entries the file had, and the one of who writes.        *)
LEMMA ReplaceEffect ==
  ASSUME Typed, Alone, NEW p \in Registrars, Replace(p), ~ crowded
  PROVE  /\ file'.is = "whole" /\ file'.entries = file.entries \cup {p}
         /\ reply'[p] = "registered" /\ \A q \in Registrars \ {p} : reply'[q] = reply[q]
         /\ pc'[p] = "node" /\ doc' = doc
<1>t. TypeOK /\ Busy(p) /\ pc[p] = "replace" /\ OnItsWay(p)
  BY DEF Typed, Replace, Busy, Alone
<1>1. tmp.is = "whole" /\ tmp.entries = file.entries \cup {p}
  BY <1>t DEF OnItsWay
<1>2. tmp # NoFile
  BY <1>1 DEF NoFile
<1>3. file' = tmp /\ Goes(p, "node") /\ Replies(p, "registered") /\ doc' = doc
  BY <1>2 DEF Replace, Becomes
<1> QED BY <1>t, <1>1, <1>3, GoesTyped, RepliesTyped

LEMMA ReplaceAlone ==
  ASSUME Typed, Alone, NEW p \in Registrars, Replace(p)
  PROVE  Alone'
<1> SUFFICES ASSUME ~ crowded' PROVE Alone'
  BY DEF Alone
<1>t. TypeOK /\ RegistrarStep(p) /\ Busy(p) /\ ~ crowded /\ edits' = edits
  BY DEF Typed, RegistrarStep, Replace, Busy
<1>1. \A q \in Registrars : OnItsWay(q) /\ Told(q)
  BY <1>t DEF Alone
<1>2. OnItsWay(p)'
  BY <1>t, ReplaceEffect DEF OnItsWay, Busy
<1>3. Parses(file')
  BY <1>t, ReplaceEffect DEF Parses
<1>4. ASSUME NEW q \in Registrars PROVE Told(q)'
  <2>1. CASE q = p
    BY <1>t, <1>3, <2>1, ReplaceEffect DEF Told
  <2>2. CASE q # p
    BY <1>t, <1>1, <1>3, <2>2, ReplaceEffect DEF Told
  <2> QED BY <2>1, <2>2
<1> QED BY <1>t, <1>2, <1>4, BusyAlone, ReplaceEffect DEF Alone

LEMMA EditAlone ==
  ASSUME Typed, Alone, Edit
  PROVE  Alone'
<1> SUFFICES ASSUME ~ crowded' PROVE Alone'
  BY DEF Alone
<1>1. /\ ~ crowded /\ \A q \in Registrars : ~ Busy(q)
      /\ edits' = edits + 1 /\ UNCHANGED <<pc, reply>>
  BY DEF Edit
<1>2. \A q \in Registrars : Told(q)
  BY <1>1 DEF Alone
<1>3. edits \in Nat
  BY NumbersTyped, Numbers DEF Typed
<1>4. PICK f \in File : Becomes(f) /\ f.is # "half" /\ f.entries \subseteq file.entries \cup {Hand}
  BY EditBecomes DEF Typed
<1>5. file'.is # "half" /\ \A q \in Registrars : q \in file'.entries => q \in file.entries
  BY <1>4, RegistrarsAssumption DEF Becomes
<1>6. edits' # 0
  BY <1>1, <1>3
<1>7. \A q \in Registrars : ~ Busy(q)' /\ OnItsWay(q)'
  BY <1>1 DEF Busy, OnItsWay
<1>8. \A q \in Registrars : Told(q)'
  BY <1>1, <1>2, <1>5, <1>6 DEF Told
<1> QED BY <1>5, <1>7, <1>8 DEF Alone, OneAtATime

LEMMA AloneStep == Typed /\ Unanswered /\ Alone /\ [Next]_vars => Alone'
<1> SUFFICES ASSUME Typed, Unanswered, Alone, [Next]_vars PROVE Alone'
  OBVIOUS
<1>t. TypeOK
  BY DEF Typed
<1>1. ASSUME NEW p \in Registrars, RegistrarStep(p) PROVE Alone'
  <2>1. CASE Register(p) \/ Create(p)
    <3>1. UNCHANGED <<file, tmp, doc, edits, fd, crowded>>
      BY <2>1 DEF Register, Create, disk
    <3>2. pc'[p] \in {"done", "create", "read"} /\ reply[p] = "none"
      BY <1>t, <1>1, <2>1, Moves DEF Unanswered, BeforeAnswer
    <3>3. reply' = reply \/ Replies(p, "refused")
      BY <2>1 DEF Register, Create
    <3>4. reply'[p] # "registered" /\ \A q \in Registrars \ {p} : reply'[q] = reply[q]
      <4>1. CASE reply' = reply
        BY <3>2, <4>1
      <4>2. CASE Replies(p, "refused")
        BY <1>t, <4>2, RepliesTyped
      <4> QED BY <3>3, <4>1, <4>2
    <3> QED BY <1>1, <3>1, <3>2, <3>4, QuietAlone DEF Busy
  <2>2. CASE FindSalt(p) \/ MakeSalt(p)
    <3>1. UNCHANGED <<file, tmp, doc, edits, fd, crowded, reply>>
      BY <2>2 DEF FindSalt, MakeSalt, disk
    <3>2. pc'[p] \in {"done", "salt", "register"}
      BY <1>t, <1>1, <2>2, Moves
    <3> QED BY <1>1, <3>1, <3>2, QuietAlone DEF Busy
  <2>3. CASE Kill(p)
    <3>1. UNCHANGED <<file, tmp, doc, edits, crowded>> /\ pc'[p] = "done"
      BY <1>t, <1>1, <2>3, Moves DEF Kill, disk
    <3>2. \A q \in Registrars \ {p} : fd'[q] = fd[q]
      BY <1>t, <2>3 DEF Kill, TypeOK
    <3>3. Replies(p, IF reply[p] = "none" THEN "killed" ELSE reply[p])
      BY <2>3 DEF Kill
    <3>4. /\ reply'[p] = "registered" <=> reply[p] = "registered"
          /\ \A q \in Registrars \ {p} : reply'[q] = reply[q]
      BY <1>t, <3>3 DEF Replies, TypeOK
    <3> QED BY <1>1, <3>1, <3>2, <3>4, QuietAlone DEF Busy
  <2> QED BY <1>1, <2>1, <2>2, <2>3, ReadAlone, OpenAlone, WriteAlone, ReplaceAlone
          DEF RegistrarStep
<1>2. CASE Tick \/ Stat \/ Refresh \/ Restart \/ UNCHANGED vars
  BY <1>2 DEF Tick, Stat, Refresh, Restart, vars, disk, registrars, Alone, OneAtATime, OnItsWay,
              Told, Busy
<1> QED BY <1>1, <1>2, EditAlone, NextCases

LEMMA AloneInitially == Init => Unanswered /\ Alone
<1> SUFFICES ASSUME Init PROVE Unanswered /\ Alone
  OBVIOUS
<1>1. file.is # "half" /\ file.entries \subseteq {Hand}
  BY DEF Init, NoFile
<1>2. Hand \notin Registrars
  BY RegistrarsAssumption
<1>3. \A p \in Registrars : pc[p] = "idle" /\ reply[p] = "none"
  BY DEF Init
<1> QED BY <1>1, <1>2, <1>3 DEF Unanswered, Alone, OneAtATime, OnItsWay, Told, Busy

LEMMA InvInitially == Init => IInv
  BY TypedInitially, WatchedInitially, AloneInitially, OneMakerInitially DEF IInv

LEMMA InvStep == IInv /\ [Next]_vars => IInv'
  BY TypedStep, WatchedStep, UnansweredStep, AloneStep, OneMakerStep DEF IInv

(* With a registrar at a time, whoever was told of success is in the file, *)
(* whoever was told of none is not, and nobody reads half a document,      *)
(* wherever one of them was killed and whatever it left half written.      *)
THEOREM RegistrationIsKept == Spec => []RegisteredAlone
<1>1. ASSUME IInv PROVE RegisteredAlone
  BY <1>1 DEF IInv, Alone, Told, RegisteredAlone
<1> QED BY <1>1, InvInitially, InvStep, PTL DEF Spec

(* A registration never drops what an operator wrote into the file: each   *)
(* change of it but an edit leaves the entry made by hand.                 *)
THEOREM HandsOff == Spec => HandWrittenStays
<1>1. ASSUME IInv, [Next]_vars, Hand \in file.entries, ~ crowded', edits' = edits
      PROVE  Hand \in file'.entries
  <2>t. Typed /\ TypeOK /\ Alone
    BY <1>1 DEF IInv, Typed
  <2>1. ASSUME NEW p \in Registrars, RegistrarStep(p) PROVE Hand \in file'.entries
    <3>1. CASE Write(p)
      <4>1. ~ crowded /\ pc[p] = "write"
        BY <1>1, <3>1 DEF Write
      <4>2. fd[p] = "tmp"
        BY <2>t, <4>1 DEF Alone, OnItsWay
      <4> QED BY <1>1, <3>1, <4>2 DEF Write
    <3>2. CASE Replace(p)
      BY <1>1, <2>t, <3>2, ReplaceEffect DEF Replace
    <3>3. CASE ~ Write(p) /\ ~ Replace(p)
      BY <1>1, <2>1, <3>3 DEF RegistrarStep, Register, Create, Read, Open, FindSalt, MakeSalt,
                              Kill, disk
    <3> QED BY <3>1, <3>2, <3>3
  <2>2. CASE Edit
    <3>1. edits \in Nat /\ edits' = edits + 1
      BY <2>t, <2>2, NumbersTyped, Numbers DEF Edit
    <3> QED BY <1>1, <3>1
  <2>3. CASE Tick \/ Stat \/ Refresh \/ Restart \/ UNCHANGED vars
    BY <1>1, <2>3 DEF Tick, Stat, Refresh, Restart, vars, disk
  <2> QED BY <1>1, <2>1, <2>2, <2>3, NextCases
<1> QED BY <1>1, InvInitially, InvStep, PTL DEF Spec, HandWrittenStays

-----------------------------------------------------------------------------
(* JobRun: one workflow of the catalog, from --check to its run.  What the *)
(* check has found so far is what there is: with nothing found the entry   *)
(* is in order, and an exit of zero is of a schedule that was read.        *)
BeforeSchedule == {"auth", "schedule"}
PlacedLast == placed # << >> /\ Last(placed) = "window"
NothingFound ==
  /\ stage \in BeforeSchedule /\ found = {} => Shape(r) = "ok"
  /\ exit = "0" => Shape(r) = "ok" /\ (PlacedLast => listed)
  /\ stage \in {"catalog"} \cup BeforeSchedule => exit = "none"

(* How a run came to its end says what was wrong with the entry.           *)
Rejects(q) ==
  IF Adapter(q) = "command" THEN q.command = "empty" ELSE ReadsFile(q)
EndTellsWhy ==
  /\ stage # "over" => outcome = "none"
  /\ outcome = "unknown_job" => ~ listed
  /\ outcome = "unknown_framework" => Adapter(r) = "unknown"
  /\ outcome = "rejected" => Shape(r) # "ok" \/ Rejects(r)
  /\ outcome = "crashes" => Shape(r) # "ok" \/ Adapter(r) # "command" \/ r.command = "argv"

(* The key is of what a box had when it was made, and the text of what a   *)
(* box had when it was sent; the box may have changed in between.          *)
KeyIsOfABox ==
  \E box \in Boxes : key = IF Fingerprinted(r, box) = "ok" THEN Keyed(r, box) ELSE "null"
TextIsOfABox == \E box \in Boxes : payload = Sent(r, box) /\ Runs(r, box) = "success"
KeyAndText ==
  /\ stage = "run" => KeyIsOfABox
  /\ outcome = "success" => Shape(r) = "ok" /\ KeyIsOfABox /\ TextIsOfABox

RunInv == RunTypeOK /\ NothingFound /\ EndTellsWhy /\ KeyAndText

(* What each adapter makes of an entry and a box is one of a few words.    *)
LEMMA PromptIsText ==
  ASSUME NEW q \in Request, NEW b \in Box
  PROVE  Prompt(q, b) \in {"prompt", "prompt_file", "nothing", "unreadable", "undecodable"}
<1>1. b.file \in {"text", "missing", "garbled"}
  BY DEF Box
<1> QED BY <1>1 DEF Prompt, FileText

LEMMA KeyedIsText ==
  ASSUME NEW q \in Request, NEW b \in Box, Fingerprinted(q, b) = "ok"
  PROVE  Keyed(q, b) \in Texts
  BY PromptIsText DEF Keyed, Fingerprinted, Texts

LEMMA OkHasAdapter ==
  ASSUME NEW q \in Request, Shape(q) = "ok"
  PROVE  Adapter(q) \in {"command", "ollama", "openai"}
  BY DEF Shape, Adapter, Request

LEMMA SentIsText ==
  ASSUME NEW q \in Request, NEW b \in Box, Shape(q) = "ok"
  PROVE  Sent(q, b) \in Texts \cup {"unreadable", "undecodable"}
  BY OkHasAdapter, PromptIsText DEF Sent, OllamaSent, OpenAISent, Messages, Texts

(* Only a prompt file cannot be read, or is no text.                       *)
LEMMA UnreadIsAFile ==
  ASSUME NEW q \in Request, NEW b \in Box, Shape(q) = "ok", Adapter(q) # "command",
         Sent(q, b) \in {"unreadable", "undecodable"}
  PROVE  ReadsFile(q)
<1>1. Prompt(q, b) \in {"unreadable", "undecodable"}
  BY OkHasAdapter DEF Sent, OllamaSent, OpenAISent, Messages, Request
<1> QED BY <1>1 DEF Prompt

(* A run that succeeds is of an entry that is in order, and of a text that *)
(* could be read; one that is rejected, or crashes, tells what it met.     *)
LEMMA RunsOutcome ==
  ASSUME NEW q \in Request, NEW b \in Box
  PROVE  /\ Runs(q, b) \in {"rejected", "crashes", "error", "success"}
         /\ Runs(q, b) = "success" =>
              /\ Shape(q) = "ok"
              /\ Adapter(q) = "command" \/ Sent(q, b) \notin {"unreadable", "undecodable"}
<1>1. Shape(q) \in {"rejected", "crashes", "ok"}
  BY DEF Shape
<1>2. CommandRuns(q, b) \in {"rejected", "crashes", "error", "success"}
  BY DEF CommandRuns
<1>3. ServerRuns(q, b) \in {"rejected", "crashes", "error", "success"}
  BY DEF ServerRuns
<1>4. ServerRuns(q, b) = "success" => Sent(q, b) \notin {"unreadable", "undecodable"}
  BY DEF ServerRuns
<1> QED BY <1>1, <1>2, <1>3, <1>4 DEF Runs

LEMMA RejectedFor ==
  ASSUME NEW q \in Request, NEW b \in Box, Runs(q, b) = "rejected", Shape(q) = "ok"
  PROVE  Rejects(q)
<1>1. CASE Adapter(q) = "command"
  BY <1>1 DEF Runs, CommandRuns, Rejects
<1>2. CASE Adapter(q) # "command"
  <2>1. Sent(q, b) = "unreadable"
    BY <1>2 DEF Runs, ServerRuns
  <2> QED BY <1>2, <2>1, UnreadIsAFile DEF Rejects
<1> QED BY <1>1, <1>2

LEMMA CrashesFor ==
  ASSUME NEW q \in Request, NEW b \in Box, Runs(q, b) = "crashes", Shape(q) = "ok",
         Adapter(q) = "command"
  PROVE  q.command = "argv"
<1>1. q.command \in {"none", "argv", "empty", "unquoted", "wrong"}
  BY DEF Request
<1>2. q.command \notin {"none", "unquoted", "wrong"}
  BY DEF Shape, Requires
<1>3. q.command # "empty"
  BY DEF Runs, CommandRuns
<1> QED BY <1>1, <1>2, <1>3

(* The text that goes into the key is the one that is sent, but for the    *)
(* entries that have two texts and the files that come and go.             *)
LEMMA KeyMeetsText ==
  ASSUME NEW q \in Request, NEW b \in Box, NEW c \in Box, Shape(q) = "ok",
         Adapter(q) = "command" \/ Sent(q, c) \notin {"unreadable", "undecodable"}
  PROVE  LET k == IF Fingerprinted(q, b) = "ok" THEN Keyed(q, b) ELSE "null"
         IN  \/ k = Sent(q, c)
             \/ q.messages # "none" /\ (q.prompt = "text" \/ q.prompt_file)
             \/ ReadsFile(q) /\ Sent(q, c) = "prompt_file" /\ k \in {"nothing", "null"}
<1>1. /\ q.messages \in {"none", "empty", "text"} /\ q.prompt \in {"none", "empty", "text"}
      /\ q.prompt_file \in BOOLEAN
      /\ b.file \in {"text", "missing", "garbled"} /\ c.file \in {"text", "missing", "garbled"}
  BY DEF Request, Box
<1>2. CASE Adapter(q) = "command"
  BY <1>2 DEF Keyed, Sent, Fingerprinted
<1>3. CASE Adapter(q) \in {"ollama", "openai"}
  <2>1. CASE q.messages = "none"
    <3>1. Sent(q, c) = Prompt(q, c)
      BY <1>1, <1>3, <2>1
         DEF Sent, OllamaSent, OpenAISent, Messages, Prompt, ReadsFile
    <3>2. CASE q.prompt = "text"
      <4>1. Prompt(q, b) = "prompt" /\ Prompt(q, c) = "prompt"
        BY <3>2 DEF Prompt, ReadsFile
      <4>2. Fingerprinted(q, b) = "ok"
        BY <4>1 DEF Fingerprinted
      <4>3. Keyed(q, b) = "prompt"
        BY <1>3, <3>2, <4>1 DEF Keyed
      <4> QED BY <3>1, <4>1, <4>2, <4>3
    <3>3. CASE ReadsFile(q)
      <4>1. Prompt(q, c) = "prompt_file"
        BY <1>1, <1>3, <3>1, <3>3 DEF Prompt, FileText, ReadsFile
      <4>2. \/ Fingerprinted(q, b) # "ok"
            \/ Keyed(q, b) \in {"prompt_file", "nothing"}
        BY <1>1, <1>3, <3>3 DEF Keyed, Prompt, FileText, Fingerprinted, ReadsFile
      <4> QED BY <3>1, <3>3, <4>1, <4>2
    <3>4. CASE q.prompt # "text" /\ ~ q.prompt_file
      BY <1>1, <1>3, <2>1, <3>1, <3>4 DEF Keyed, Prompt, Fingerprinted, ReadsFile
    <3> QED BY <1>1, <3>2, <3>3, <3>4 DEF ReadsFile
  <2>2. CASE q.messages # "none" /\ q.prompt # "text" /\ ~ q.prompt_file
    BY <1>1, <1>3, <2>2
       DEF Keyed, Sent, OllamaSent, OpenAISent, Messages, Prompt, Fingerprinted, ReadsFile
  <2> QED BY <1>1, <2>1, <2>2
<1> QED BY <1>2, <1>3, OkHasAdapter

LEMMA RunInvInitially == RunInit => RunInv
  BY DEF RunInit, RunInv, RunTypeOK, NothingFound, PlacedLast, EndTellsWhy, KeyAndText,
         BeforeSchedule, Texts

(* What a step of --check finds, and what it exits with.                   *)
LEMMA Placements ==
  SeqOf({"infeasible", "window"}, MaxPlacements) \subseteq Seq({"infeasible", "window"})
BY BoxAssumption DEF SeqOf

LEMMA CheckStep ==
  ASSUME RunInv, CheckCatalog \/ CheckAuth \/ CheckSchedule
  PROVE  RunInv'
<1> USE DEF RunInv
<1>1. RunTypeOK'
  <2>1. CASE CheckCatalog
    BY <2>1 DEF CheckCatalog, RunTypeOK, job
  <2>2. CASE CheckAuth
    BY <2>2 DEF CheckAuth, Exits, RunTypeOK, job
  <2>3. CASE CheckSchedule
    <3>1. placed' \in Seq({"infeasible", "window"})
      BY <2>3, Placements DEF CheckSchedule, RunTypeOK
    <3> QED BY <2>3, <3>1 DEF CheckSchedule, Exits, RunTypeOK, job
  <2> QED BY <2>1, <2>2, <2>3
<1>2. r' = r /\ listed' = listed /\ key' = key /\ payload' = payload /\ outcome' = outcome
  BY DEF CheckCatalog, CheckAuth, CheckSchedule, job
<1>3. stage \in {"catalog"} \cup BeforeSchedule /\ stage' \in BeforeSchedule \cup {"lookup"}
  BY DEF CheckCatalog, CheckAuth, CheckSchedule, Exits, BeforeSchedule
<1>4. exit = "none"
  BY <1>3 DEF NothingFound
<1>5. NothingFound'
  <2>1. CASE CheckCatalog
    <3>1. PICK box \in Boxes :
            IF Fingerprinted(r, box) = "crashes"
              THEN stage' = "lookup" /\ exit' = "traceback"
              ELSE /\ stage' = "auth" /\ exit' = exit
                   /\ found' = IF Fingerprinted(r, box) = "ok" THEN found ELSE found \cup {"entry"}
      BY <2>1 DEF CheckCatalog
    <3>2. Fingerprinted(r, box) = "ok" => Shape(r) = "ok"
      BY DEF Fingerprinted
    <3> QED BY <1>2, <1>4, <3>1, <3>2 DEF NothingFound, BeforeSchedule
  <2>2. CASE CheckAuth
    BY <2>2, <1>2, <1>3, <1>4 DEF CheckAuth, Exits, NothingFound, BeforeSchedule
  <2>3. CASE CheckSchedule
    <3>1. \/ found' = found \cup {"schedule"}
          \/ found' = IF ~ listed /\ PlacedLast' THEN found \cup {"unmatched"} ELSE found
      BY <2>3 DEF CheckSchedule, PlacedLast
    <3>2. stage' = "lookup" /\ exit' = (IF found' = {} THEN "0" ELSE "1")
          /\ stage \in BeforeSchedule
      BY <2>3 DEF CheckSchedule, Exits, BeforeSchedule
    <3>3. exit' = "0" => found = {} /\ (PlacedLast' => listed)
      BY <3>1, <3>2
    <3> QED BY <1>2, <3>2, <3>3 DEF NothingFound, BeforeSchedule
  <2> QED BY <2>1, <2>2, <2>3
<1>6. outcome = "none" /\ stage' # "run"
  BY <1>3 DEF EndTellsWhy, BeforeSchedule
<1> QED BY <1>1, <1>2, <1>5, <1>6 DEF EndTellsWhy, KeyAndText

(* The executor leaves alone what was found.                               *)
LEMMA LookupStep ==
  ASSUME RunInv, Lookup \/ Preflight
  PROVE  RunInv'
<1> USE DEF RunInv, checked
<1>1. outcome = "none" /\ stage' \in {"preflight", "fingerprint", "over"}
      /\ outcome' \in {"none", "unknown_job", "unknown_framework", "preflight_failed"}
  BY DEF Lookup, Preflight, Ends, EndTellsWhy
<1>2. RunTypeOK'
  BY <1>1 DEF Lookup, Preflight, RunTypeOK
<1>3. NothingFound'
  BY <1>1 DEF Lookup, Preflight, NothingFound, PlacedLast, BeforeSchedule
<1>4. EndTellsWhy'
  BY <1>1 DEF Lookup, Preflight, Ends, EndTellsWhy
<1> QED BY <1>1, <1>2, <1>3, <1>4 DEF KeyAndText

LEMMA FingerprintStep ==
  ASSUME RunInv, Fingerprint
  PROVE  RunInv'
<1> USE DEF RunInv, checked
<1>1. /\ r' = r /\ listed' = listed /\ found' = found /\ exit' = exit /\ placed' = placed
      /\ payload' = payload /\ outcome' = outcome /\ outcome = "none"
      /\ stage = "fingerprint" /\ stage' = "run"
  BY DEF Fingerprint, EndTellsWhy
<1>2. PICK box \in Boxes :
        key' = IF Fingerprinted(r, box) = "ok" THEN Keyed(r, box) ELSE "null"
  BY DEF Fingerprint
<1>3. r \in Request /\ box \in Box
  BY BoxAssumption DEF RunTypeOK
<1>4. key' \in Texts
  BY <1>2, <1>3, KeyedIsText DEF Texts
<1>5. RunTypeOK'
  BY <1>1, <1>4 DEF RunTypeOK
<1>6. KeyIsOfABox'
  BY <1>1, <1>2 DEF KeyIsOfABox
<1> QED BY <1>1, <1>5, <1>6 DEF NothingFound, PlacedLast, BeforeSchedule, EndTellsWhy, KeyAndText

LEMMA RunItStep ==
  ASSUME RunInv, RunIt
  PROVE  RunInv'
<1> USE DEF RunInv, checked
<1>1. /\ r' = r /\ listed' = listed /\ found' = found /\ exit' = exit /\ placed' = placed
      /\ key' = key /\ stage = "run" /\ stage' = "over" /\ outcome = "none"
  BY DEF RunIt, EndTellsWhy, Ends
<1>2. PICK box \in Boxes : /\ outcome' = Runs(r, box)
                           /\ payload' = IF outcome' = "success" THEN Sent(r, box) ELSE "null"
  BY DEF RunIt, Ends
<1>3. r \in Request /\ box \in Box
  BY BoxAssumption DEF RunTypeOK
<1>4. outcome' \in {"rejected", "crashes", "error", "success"}
  BY <1>2, <1>3, RunsOutcome
<1>5. payload' \in Texts
  <2>1. CASE outcome' = "success"
    BY <1>2, <1>3, <2>1, RunsOutcome, SentIsText DEF Sent, Texts
  <2>2. CASE outcome' # "success"
    BY <1>2, <2>2 DEF Texts
  <2> QED BY <2>1, <2>2
<1>6. RunTypeOK'
  BY <1>1, <1>4, <1>5 DEF RunTypeOK
<1>7. EndTellsWhy'
  <2>1. ASSUME outcome' = "rejected" PROVE Shape(r) # "ok" \/ Rejects(r)
    BY <1>2, <1>3, <2>1, RejectedFor
  <2>2. ASSUME outcome' = "crashes"
        PROVE  Shape(r) # "ok" \/ Adapter(r) # "command" \/ r.command = "argv"
    BY <1>2, <1>3, <2>2, CrashesFor
  <2> QED BY <1>1, <1>4, <2>1, <2>2 DEF EndTellsWhy
<1>8. KeyAndText'
  <2>1. ASSUME outcome' = "success" PROVE Shape(r) = "ok" /\ KeyIsOfABox' /\ TextIsOfABox'
    <3>1. Shape(r) = "ok"
      <4>1. Runs(r, box) = "success"
        BY <1>2, <2>1
      <4> QED BY <1>3, <4>1, RunsOutcome
    <3>2. KeyIsOfABox'
      BY <1>1 DEF KeyAndText, KeyIsOfABox
    <3>3. TextIsOfABox'
      BY <1>1, <1>2, <2>1 DEF TextIsOfABox
    <3> QED BY <3>1, <3>2, <3>3
  <2> QED BY <1>1, <2>1 DEF KeyAndText
<1> QED BY <1>1, <1>6, <1>7, <1>8 DEF NothingFound, PlacedLast, BeforeSchedule

LEMMA RunInvStep == RunInv /\ [RunNext]_runVars => RunInv'
<1> SUFFICES ASSUME RunInv, [RunNext]_runVars PROVE RunInv'
  OBVIOUS
<1>1. CASE UNCHANGED runVars
  BY <1>1 DEF runVars, RunInv, RunTypeOK, NothingFound, PlacedLast, EndTellsWhy, KeyAndText,
              KeyIsOfABox, TextIsOfABox
<1> QED BY <1>1, CheckStep, LookupStep, FingerprintStep, RunItStep DEF RunNext

(* run_check and _execute agree: a workflow that --check found in order,   *)
(* its last placement in a window, is found under its id, its adapter is   *)
(* known and takes the entry, on whatever box; only a command without a    *)
(* program and a prompt file are rejected, and a crash is never of the     *)
(* command line.                                                           *)
THEOREM CheckedWorkflowRuns == RunSpec => []CheckedIsRun
<1>1. ASSUME RunInv PROVE CheckedIsRun
  <2>1. ASSUME exit = "0", PlacedLast
        PROVE  /\ outcome \notin {"unknown_job", "unknown_framework"}
               /\ outcome = "rejected" => Rejects(r)
               /\ outcome = "crashes" => Adapter(r) # "command" \/ r.command = "argv"
    <3>1. Shape(r) = "ok" /\ listed
      BY <1>1, <2>1 DEF RunInv, NothingFound
    <3>2. Adapter(r) # "unknown"
      BY <3>1 DEF Shape
    <3> QED BY <1>1, <3>1, <3>2 DEF RunInv, EndTellsWhy
  <2> QED BY <2>1 DEF CheckedIsRun, PlacedLast, Rejects
<1> QED BY <1>1, RunInvInitially, RunInvStep, PTL DEF RunSpec

(* A run is filed under the length of the text that was sent, but for an   *)
(* entry with both a prompt and messages and for a prompt file that was    *)
(* missing, or no text, when the key was made.                             *)
THEOREM FiledUnderWhatRan == RunSpec => []KeyOfWhatRan
<1>1. ASSUME RunInv PROVE KeyOfWhatRan
  <2>1. ASSUME outcome = "success"
        PROVE  \E b, c \in Boxes :
                 /\ key = IF Fingerprinted(r, b) = "ok" THEN Keyed(r, b) ELSE "null"
                 /\ payload = Sent(r, c) /\ Shape(r) = "ok" /\ Runs(r, c) = "success"
    BY <1>1, <2>1 DEF RunInv, KeyAndText, KeyIsOfABox, TextIsOfABox
  <2>2. ASSUME NEW b \in Boxes, NEW c \in Boxes,
               key = IF Fingerprinted(r, b) = "ok" THEN Keyed(r, b) ELSE "null",
               payload = Sent(r, c), Shape(r) = "ok", Runs(r, c) = "success"
        PROVE  KeyOfWhatRan
    <3>1. r \in Request /\ b \in Box /\ c \in Box
      BY <1>1, BoxAssumption DEF RunInv, RunTypeOK
    <3>2. Adapter(r) = "command" \/ Sent(r, c) \notin {"unreadable", "undecodable"}
      BY <2>2, <3>1, RunsOutcome
    <3> QED BY <2>2, <3>1, <3>2, KeyMeetsText DEF KeyOfWhatRan
  <2> QED BY <2>1, <2>2 DEF KeyOfWhatRan
<1> QED BY <1>1, RunInvInitially, RunInvStep, PTL DEF RunSpec
=============================================================================
