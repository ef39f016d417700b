----------------------------- MODULE JobCatalog -----------------------------
(***************************************************************************)
(* jobs.json (cli.py) and this box's salt (fingerprint.py): processes that *)
(* register a workflow create it upstream and then write it into the file, *)
(* through one temporary file and a rename, and an operator edits the file *)
(* by hand, while a daemon watches it by its modification time.            *)
(*                                                                         *)
(* One step is one system call on a file, or one request.  A file is known *)
(* by the entries in it, by whether it parses, and by its time stamp, in   *)
(* units of what the file system can tell apart.                           *)
(***************************************************************************)
EXTENDS Integers, FiniteSets

CONSTANTS
  Registrars,  \* processes, each with a workflow of its own
  MaxEdits,    \* edits by hand
  MaxFaults,   \* requests refused, and processes killed
  MaxNow       \* time stamps

Hand == "by hand"
Ids == Registrars \cup {Hand}

ASSUME RegistrarsAssumption ==
  IsFiniteSet(Registrars) /\ Registrars \cap {Hand, "missing", "empty"} = {}
ASSUME NumbersAssumption == {MaxEdits, MaxFaults} \subseteq Nat /\ MaxNow \in Nat \ {0}

VARIABLES
  now,
  file, tmp,    \* jobs.json, and jobs.json.tmp
  pc, doc, fd,  \* of each registrar: where it is, what it read, what it writes to
  reply,        \* and what it told its operator
  server,       \* workflows created upstream
  salt, sent,   \* the file of this box's salt, and the salts a hash was sent of
  catalog, mtime,   \* the daemon's
  look,         \* the stat of its refresh under way
  edits, faults,
  (* observation only *)
  held,         \* entries the file has had when it could be parsed
  crowded,      \* a registrar read the file while another, or an editor, was changing it
  masked,       \* the file was changed to bear a stamp the watcher had seen on another
  saltless      \* processes that found no salt

vars == <<now, file, tmp, pc, doc, fd, reply, server, salt, sent, catalog,
          mtime, look, edits, faults, held, crowded, masked, saltless>>

registrars == <<pc, doc, fd, reply, server, salt, sent, saltless>>
daemon == <<catalog, mtime, look>>
disk == <<file, tmp, held, masked>>

None == 0   \* the stamp of a file that is not there
File == [is : {"missing", "whole", "mistyped", "half"}, entries : SUBSET Ids, stamp : 0 .. MaxNow]
NoFile == [is |-> "missing", entries |-> {}, stamp |-> None]
Parses(f) == f.is = "whole"

TypeOK ==
  /\ now \in 1 .. MaxNow
  /\ file \in File /\ tmp \in File
  /\ pc \in [Registrars -> {"idle", "create", "read", "open", "write", "replace", "node",
                            "salt", "register", "done"}]
  /\ doc \in [Registrars -> SUBSET Ids]
  /\ fd \in [Registrars -> {"none", "tmp", "file", "unlinked"}]
  /\ reply \in [Registrars -> {"none", "registered", "refused", "not updated", "killed"}]
  /\ server \subseteq Registrars
  /\ salt \in Registrars \cup {"missing", "empty"} /\ sent \subseteq Registrars
  /\ catalog \subseteq Ids /\ mtime \in 0 .. MaxNow /\ look \in -1 .. MaxNow
  /\ edits \in 0 .. MaxEdits /\ faults \in 0 .. MaxFaults
  /\ held \subseteq SUBSET Ids
  /\ crowded \in BOOLEAN /\ masked \in BOOLEAN /\ saltless \subseteq Registrars

(* The daemon starts on what is there: its first look *)
Init ==
  /\ now = 1
  /\ file \in {NoFile, [is |-> "whole", entries |-> {Hand}, stamp |-> 1],
               [is |-> "mistyped", entries |-> {Hand}, stamp |-> 1]}
  /\ tmp = NoFile
  /\ pc = [p \in Registrars |-> "idle"] /\ doc = [p \in Registrars |-> {}]
  /\ fd = [p \in Registrars |-> "none"] /\ reply = [p \in Registrars |-> "none"]
  /\ server = {} /\ salt = "missing" /\ sent = {} /\ saltless = {}
  /\ catalog = (IF Parses(file) THEN file.entries ELSE {})
  /\ mtime = file.stamp /\ look = -1
  /\ edits = 0 /\ faults = 0
  /\ held = {catalog} /\ crowded = FALSE /\ masked = FALSE

Becomes(f) ==
  /\ file' = f
  /\ held' = IF Parses(f) THEN held \cup {f.entries} ELSE held
  /\ masked' = (f.stamp \in {mtime, look})
Goes(p, there) == pc' = [pc EXCEPT ![p] = there]
Replies(p, answer) == reply' = [reply EXCEPT ![p] = answer]

Busy(p) == pc[p] \in {"open", "write", "replace"}

-----------------------------------------------------------------------------
(* run_register: what would be run, --dry-run and the configuration are     *)
(* looked at first                                                          *)
Register(p) ==
  /\ pc[p] = "idle"
  /\ \/ Goes(p, "done") /\ Replies(p, "refused")
     \/ Goes(p, "create") /\ UNCHANGED reply
  /\ UNCHANGED <<now, disk, doc, fd, server, salt, sent, saltless, daemon, edits, faults,
                 crowded>>

(* create_workflow: done, refused, or accepted without an id in the answer *)
Create(p) ==
  /\ pc[p] = "create"
  /\ \/ /\ Goes(p, "read") /\ server' = server \cup {p} /\ UNCHANGED <<reply, faults>>
     \/ /\ faults < MaxFaults /\ faults' = faults + 1
        /\ Goes(p, "done") /\ Replies(p, "refused")
        /\ server' \in {server, server \cup {p}}
  /\ UNCHANGED <<now, disk, doc, fd, salt, sent, saltless, daemon, edits, crowded>>

(* Mutant: a file that cannot be parsed is started again *)
ReadAnew(p) ==
  /\ pc[p] = "read"
  /\ doc' = [doc EXCEPT ![p] = IF Parses(file) THEN file.entries ELSE {}]
  /\ Goes(p, "open")
  /\ crowded' = (crowded \/ \E q \in Registrars \ {p} : Busy(q))
  /\ UNCHANGED <<now, disk, fd, reply, server, salt, sent, saltless, daemon, edits, faults>>

(* write_catalog_entry reads the document; one that cannot be parsed is not  *)
(* written over                                                             *)
Read(p) ==
  /\ pc[p] = "read"
  /\ IF file.is \in {"missing", "whole"}
       THEN doc' = [doc EXCEPT ![p] = file.entries] /\ Goes(p, "open") /\ UNCHANGED reply
       ELSE Goes(p, "done") /\ Replies(p, "not updated") /\ UNCHANGED doc
  /\ crowded' = (crowded \/ \E q \in Registrars \ {p} : Busy(q))
  /\ UNCHANGED <<now, disk, fd, server, salt, sent, saltless, daemon, edits, faults>>

(* Mutant: the document is written in place *)
OpenInPlace(p) ==
  /\ pc[p] = "open" /\ Goes(p, "write")
  /\ Becomes([is |-> "half", entries |-> {}, stamp |-> now])
  /\ fd' = [fd EXCEPT ![p] = "file"]
  /\ UNCHANGED <<now, tmp, doc, reply, server, salt, sent, saltless, daemon, edits, faults,
                 crowded>>

(* write_text opens the temporary file, which empties it *)
Open(p) ==
  /\ pc[p] = "open" /\ Goes(p, "write")
  /\ tmp' = [is |-> "half", entries |-> {}, stamp |-> now]
  /\ fd' = [fd EXCEPT ![p] = "tmp"]
  /\ UNCHANGED <<now, file, held, masked, doc, reply, server, salt, sent, saltless, daemon,
                 edits, faults, crowded>>

Document(p) == [is |-> "whole", entries |-> doc[p] \cup {p}, stamp |-> now]

(* and writes to what it has opened, wherever that has been moved *)
Write(p) ==
  /\ pc[p] = "write" /\ Goes(p, "replace")
  /\ CASE fd[p] = "tmp" -> tmp' = Document(p) /\ UNCHANGED <<file, held, masked>>
       [] fd[p] = "file" -> Becomes(Document(p)) /\ UNCHANGED tmp
       [] fd[p] = "unlinked" -> UNCHANGED disk
  /\ UNCHANGED <<now, doc, fd, reply, server, salt, sent, saltless, daemon, edits, faults,
                 crowded>>

(* os.replace; the temporary file may be gone *)
Replace(p) ==
  /\ pc[p] = "replace"
  /\ IF tmp = NoFile
       THEN Goes(p, "done") /\ Replies(p, "not updated") /\ UNCHANGED <<disk, fd>>
       ELSE /\ Becomes(tmp) /\ tmp' = NoFile
            /\ fd' = [q \in Registrars |->
                        CASE fd[q] = "tmp" -> "file" [] fd[q] = "file" -> "unlinked"
                          [] OTHER -> fd[q]]
            /\ Goes(p, "node") /\ Replies(p, "registered")
  /\ UNCHANGED <<now, doc, server, salt, sent, saltless, daemon, edits, faults, crowded>>

(* Mutant: a box has a new salt each time *)
FindSaltAnew(p) ==
  /\ pc[p] = "node" /\ Goes(p, "salt")
  /\ saltless' = IF salt \in Registrars THEN saltless ELSE saltless \cup {p}
  /\ UNCHANGED <<now, disk, doc, fd, reply, server, salt, sent, daemon, edits, faults, crowded>>

(* Opted in or not.  load_or_create_salt reads the salt, or makes one. *)
FindSalt(p) ==
  /\ pc[p] = "node"
  /\ \/ Goes(p, "done") /\ UNCHANGED <<salt, sent, saltless>>
     \/ /\ salt \in {"missing", "empty"}
        /\ Goes(p, "salt") /\ saltless' = saltless \cup {p} /\ UNCHANGED <<salt, sent>>
     \/ /\ salt \in Registrars
        /\ Goes(p, "done") /\ sent' = sent \cup {salt} /\ UNCHANGED <<salt, saltless>>
  /\ UNCHANGED <<now, disk, doc, fd, reply, server, daemon, edits, faults, crowded>>

(* write_text again: the file is emptied, then has the salt, which is sent *)
MakeSalt(p) ==
  /\ \/ pc[p] = "salt" /\ salt' = "empty" /\ Goes(p, "register") /\ UNCHANGED sent
     \/ pc[p] = "register" /\ salt' = p /\ sent' = sent \cup {p} /\ Goes(p, "done")
  /\ UNCHANGED <<now, disk, doc, fd, reply, server, saltless, daemon, edits, faults, crowded>>

Kill(p) ==
  /\ faults < MaxFaults /\ faults' = faults + 1
  /\ pc[p] \notin {"idle", "done"} /\ Goes(p, "done")
  /\ Replies(p, IF reply[p] = "none" THEN "killed" ELSE reply[p])
  /\ fd' = [fd EXCEPT ![p] = "none"]
  /\ UNCHANGED <<now, disk, doc, server, salt, sent, saltless, daemon, edits, crowded>>

(* An operator saves the file in place: with or without an entry of their   *)
(* own, with a typing error, or without it again; or the file is moved away *)
Edit ==
  /\ edits < MaxEdits /\ edits' = edits + 1
  /\ \E f \in {NoFile} \cup [is : {"whole", "mistyped"}, stamp : {now},
                            entries : {file.entries, file.entries \cup {Hand}}] :
       f # file /\ Becomes(f)
  /\ fd' = [p \in Registrars |->
              IF file' = NoFile /\ fd[p] = "file" THEN "unlinked" ELSE fd[p]]
  /\ crowded' = (crowded \/ \E p \in Registrars : Busy(p))
  /\ UNCHANGED <<now, tmp, pc, doc, reply, server, salt, sent, saltless, daemon, faults>>

Tick ==
  /\ now < MaxNow /\ now' = now + 1
  /\ UNCHANGED <<disk, registrars, daemon, edits, faults, crowded>>

-----------------------------------------------------------------------------
(* Mutant: only a newer file is read again *)
StatNewer ==
  /\ look = -1 /\ file.stamp > mtime
  /\ look' = file.stamp
  /\ UNCHANGED <<now, disk, registrars, catalog, mtime, edits, faults, crowded>>

(* CatalogWatcher._refresh: the stamp of the file, and if it is another one *)
Stat ==
  /\ look = -1 /\ file.stamp # mtime
  /\ look' = file.stamp
  /\ UNCHANGED <<now, disk, registrars, catalog, mtime, edits, faults, crowded>>

(* Mutant: a file that cannot be parsed is an empty catalog *)
RefreshEmpties ==
  /\ look # -1
  /\ catalog' = IF Parses(file) THEN file.entries ELSE {}
  /\ mtime' = look /\ look' = -1
  /\ UNCHANGED <<now, disk, registrars, edits, faults, crowded>>

(* the file is read; what cannot be parsed changes nothing, and either way  *)
(* the stamp is recorded                                                    *)
Refresh ==
  /\ look # -1
  /\ catalog' = IF Parses(file) THEN file.entries ELSE catalog
  /\ mtime' = look /\ look' = -1
  /\ UNCHANGED <<now, disk, registrars, edits, faults, crowded>>

(* A restart: the first look, which takes what it cannot read for nothing *)
Restart ==
  /\ faults < MaxFaults /\ faults' = faults + 1
  /\ catalog' = (IF Parses(file) THEN file.entries ELSE {})
  /\ mtime' = file.stamp /\ look' = -1
  /\ masked' = FALSE /\ held' = held \cup {catalog'}
  /\ UNCHANGED <<now, file, tmp, registrars, edits, crowded>>

Next ==
  \/ \E p \in Registrars :
       \/ Register(p) \/ Create(p) \/ Read(p) \/ Open(p) \/ Write(p) \/ Replace(p)
       \/ FindSalt(p) \/ MakeSalt(p) \/ Kill(p)
  \/ Edit \/ Tick \/ Stat \/ Refresh \/ Restart

Spec == Init /\ [][Next]_vars

(* The daemon looks a workflow up whenever it has a placement to carry out,  *)
(* and on every line it logs.  Nothing is assumed of the registrars.        *)
FairSpec == Spec /\ WF_vars(Stat) /\ WF_vars(Refresh)
-----------------------------------------------------------------------------
(* What the daemon runs from has stood in the file as a whole, or was what   *)
(* it started with: never half a document, never nothing because of a       *)
(* typing error.  And between two looks it is the file as it stands, if the  *)
(* stamps agree and the file can be parsed, but for a change within a stamp. *)
WatchedIsTheFile ==
  /\ catalog \in held
  /\ (look = -1 /\ file.stamp = mtime /\ Parses(file) /\ ~masked) =>
       catalog = file.entries

(* Registrars that did not get in each other's way, or an editor's: whoever  *)
(* was told of success has its entry in a file that parses, until the file   *)
(* is edited, who was told of none has none there, and no reader of the file *)
(* meets half a document, wherever a registrar was killed.                  *)
RegisteredAlone ==
  ~crowded =>
    /\ file.is # "half"
    /\ \A p \in Registrars :
         /\ reply[p] = "not updated" => p \notin file.entries
         /\ reply[p] = "registered" /\ edits = 0 => p \in file.entries /\ Parses(file)

(* An entry that was written by hand stays, whoever registers: also one in   *)
(* a file that could not be parsed for a moment.                            *)
HandWrittenStays ==
  [][(Hand \in file.entries /\ ~crowded' /\ edits' = edits) => Hand \in file'.entries]_vars

(* The box has one identity, unless two processes were the first at once.   *)
OneIdentity == Cardinality(saltless) <= 1 => Cardinality(sent) <= 1

(* A workflow that the file lists in the end is in the daemon's catalog.     *)
WatcherCatchesUp == <>[]((Parses(file) /\ ~masked) => catalog = file.entries)
=============================================================================
