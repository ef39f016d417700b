-------------------------- MODULE BenchSpoolProofs --------------------------
(***************************************************************************)
(* Proofs about BenchSpool for every set of bundles and any number of      *)
(* commands that share the queue with the daemon.  Places says where the   *)
(* only copy of a bundle is, and with it what the queue promises; Counted  *)
(* rests on it and pays for every copy stored upstream.                    *)
(***************************************************************************)
EXTENDS BenchSpool, FiniteSetTheorems, SequenceTheorems, TLAPS

(* The queue is a table whose rows are deleted by identity while several   *)
(* processes work through lists read from it earlier (spool.py).           *)
Elems(s) == {s[i] : i \in 1 .. Len(s)}
Unique(s) == \A i, j \in 1 .. Len(s) : s[i] = s[j] => i = j

(* A list read from a table earlier is, after its first k elements that    *)
(* have left the table, the head of the table.                             *)
Behind(it, s, k) ==
  /\ \A i \in 1 .. k : it[i] \notin Elems(s)
  /\ Len(it) - k <= Len(s)
  /\ \A i \in k + 1 .. Len(it) : it[i] = s[i - k]
Follows(it, s) == \E k \in 0 .. Len(it) : Behind(it, s, k)

-----------------------------------------------------------------------------
(* Deleting the row at the head of a table leaves the rows behind it;      *)
(* deleting a row that is not there leaves the table.                      *)
LEMMA RemoveFirstHead ==
  ASSUME NEW S, NEW s \in Seq(S), s # <<>>
  PROVE  RemoveFirst(s, s[1]) = Tail(s)
<1> DEFINE I == {i \in 1 .. Len(s) : s[i] = s[1]}
<1>1. 1 \in 1 .. Len(s)
  OBVIOUS
<1>2. 1 \in I /\ \A i \in I : 1 <= i
  BY <1>1
<1>3. Min(I) = 1
  <2>1. \A x \in I : (\A y \in I : x <= y) => x = 1
    BY <1>2
  <2> QED BY <1>2, <2>1 DEF Min
<1>4. SelectInSeq(s, LAMBDA v : v = s[1]) = 1
  BY <1>2, <1>3 DEF SelectInSeq
<1>5. RemoveFirst(s, s[1]) = RemoveAt(s, 1)
  BY <1>1, <1>4 DEF RemoveFirst
<1>6. RemoveAt(s, 1) = Tail(s)
  BY <1>1 DEF RemoveAt
<1> QED BY <1>5, <1>6

LEMMA RemoveFirstAbsent ==
  ASSUME NEW s, NEW e, \A i \in 1 .. Len(s) : s[i] # e
  PROVE  RemoveFirst(s, e) = s
BY DEF RemoveFirst

LEMMA TailNotEmpty ==
  ASSUME NEW S, NEW s \in Seq(S), s # <<>>, Len(s) # 1
  PROVE  Len(s) > 1 /\ Tail(s) \in Seq(S) /\ Tail(s) # <<>>
<1> DEFINE n == Len(s)
           m == Len(Tail(s))
<1>1. n \in Nat /\ n # 0 /\ n # 1
  OBVIOUS
<1>2. m = n - 1
  BY HeadTailProperties
<1>3. Tail(s) \in Seq(S) /\ Len(<<>>) = 0
  BY EmptySeq
<1> HIDE DEF n, m
<1>4. n > 1 /\ m # 0
  BY <1>1, <1>2
<1>5. Tail(s) # <<>>
  BY <1>3, <1>4 DEF m
<1> QED BY <1>3, <1>4, <1>5 DEF n

(* Appending a new element, taking the head off a sequence without         *)
(* repetition: what is in it, and that nothing repeats.                    *)
LEMMA AppendElems ==
  ASSUME NEW S, NEW s \in Seq(S), NEW e \in S
  PROVE  /\ Elems(Append(s, e)) = Elems(s) \cup {e}
         /\ Unique(s) /\ e \notin Elems(s) => Unique(Append(s, e))
<1>1. /\ Len(s) \in Nat /\ Len(Append(s, e)) = Len(s) + 1
      /\ \A i \in 1 .. Len(s) : Append(s, e)[i] = s[i]
      /\ Append(s, e)[Len(s) + 1] = e
  BY AppendProperties, LenProperties
<1> QED BY <1>1 DEF Elems, Unique

LEMMA TailElems ==
  ASSUME NEW S, NEW s \in Seq(S), s # <<>>, Unique(s)
  PROVE  Elems(Tail(s)) = Elems(s) \ {s[1]} /\ Unique(Tail(s))
<1>1. /\ Len(s) \in Nat /\ Len(Tail(s)) = Len(s) - 1
      /\ \A i \in 1 .. Len(s) - 1 : Tail(s)[i] = s[i + 1]
  BY HeadTailProperties, LenProperties
<1>2. 1 \in 1 .. Len(s)
  BY EmptySeq
<1>3. \A i \in 1 .. Len(Tail(s)) : Tail(s)[i] \in Elems(s) \ {s[1]}
  BY <1>1, <1>2 DEF Elems, Unique
<1>4. ASSUME NEW i \in 1 .. Len(s), s[i] # s[1] PROVE s[i] \in Elems(Tail(s))
  <2>1. i - 1 \in 1 .. Len(Tail(s)) /\ Tail(s)[i - 1] = s[i]
    BY <1>1, <1>4
  <2> QED BY <2>1 DEF Elems
<1>5. Elems(Tail(s)) = Elems(s) \ {s[1]}
  BY <1>3, <1>4 DEF Elems
<1>6. Unique(Tail(s))
  BY <1>1 DEF Unique
<1> QED BY <1>5, <1>6

-----------------------------------------------------------------------------
(* A list keeps following the table it was read from.                      *)
LEMMA FollowsItself ==
  ASSUME NEW S, NEW s \in Seq(S)
  PROVE  Follows(s, s)
<1>1. Len(s) \in Nat
  BY LenProperties
<1>2. Behind(s, s, 0) /\ 0 \in 0 .. Len(s)
  BY <1>1 DEF Behind
<1> QED BY <1>2 DEF Follows

(* Something new is added at the end of the table.                         *)
LEMMA FollowsAppended ==
  ASSUME NEW S, NEW it \in Seq(S), NEW s \in Seq(S), NEW e \in S,
         Follows(it, s), e \notin Elems(it)
  PROVE  Follows(it, Append(s, e))
<1>1. /\ Len(s) \in Nat /\ Len(it) \in Nat /\ Len(Append(s, e)) = Len(s) + 1
      /\ \A i \in 1 .. Len(s) : Append(s, e)[i] = s[i]
      /\ Elems(Append(s, e)) = Elems(s) \cup {e}
  BY AppendProperties, LenProperties, AppendElems
<1>2. PICK k \in 0 .. Len(it) : Behind(it, s, k)
  BY DEF Follows
<1>3. Len(it) - k <= Len(s) /\ Len(it) - k <= Len(Append(s, e))
  BY <1>1, <1>2 DEF Behind
<1>4. \A i \in 1 .. k : it[i] \notin Elems(Append(s, e))
  BY <1>1, <1>2 DEF Behind, Elems
<1>5. \A i \in k + 1 .. Len(it) : it[i] = Append(s, e)[i - k]
  <2>1. ASSUME NEW i \in k + 1 .. Len(it) PROVE i - k \in 1 .. Len(s)
    BY <1>1, <1>2, <1>3
  <2> QED BY <1>1, <1>2, <2>1 DEF Behind
<1>6. Behind(it, Append(s, e), k)
  BY <1>3, <1>4, <1>5 DEF Behind
<1> QED BY <1>2, <1>6 DEF Follows

(* Another list takes the head off the table.                              *)
LEMMA FollowsTail ==
  ASSUME NEW S, NEW it \in Seq(S), NEW s \in Seq(S), s # <<>>, Unique(s), Follows(it, s)
  PROVE  Follows(it, Tail(s))
<1>1. /\ Len(it) \in Nat /\ Len(s) \in Nat /\ Len(Tail(s)) = Len(s) - 1 /\ Len(s) >= 1
      /\ \A i \in 1 .. Len(s) - 1 : Tail(s)[i] = s[i + 1]
      /\ Elems(Tail(s)) = Elems(s) \ {s[1]}
  BY HeadTailProperties, LenProperties, EmptySeq, TailElems
<1>2. PICK k \in 0 .. Len(it) : Behind(it, s, k)
  BY DEF Follows
<1>3. CASE k = Len(it)
  <2>1. Behind(it, Tail(s), k)
    BY <1>1, <1>2, <1>3 DEF Behind
  <2> QED BY <2>1 DEF Follows
<1>4. CASE k < Len(it)
  <2>1. it[k + 1] = s[1]
    BY <1>1, <1>2, <1>4 DEF Behind
  <2>2. k \in Nat /\ k + 1 \in 0 .. Len(it)
    BY <1>1, <1>2, <1>4
  <2>3. \A i \in 1 .. k + 1 : it[i] \notin Elems(Tail(s))
    BY <1>1, <1>2, <2>1, <2>2 DEF Behind
  <2>4. Len(it) - (k + 1) <= Len(Tail(s))
    BY <1>1, <1>2, <2>2 DEF Behind
  <2>5. \A i \in (k + 1) + 1 .. Len(it) : it[i] = Tail(s)[i - (k + 1)]
    <3>1. ASSUME NEW i \in (k + 1) + 1 .. Len(it)
          PROVE  /\ i \in k + 1 .. Len(it) /\ i - (k + 1) \in 1 .. Len(s) - 1
                 /\ (i - (k + 1)) + 1 = i - k
      BY <1>1, <2>2, <2>4
    <3> QED BY <1>1, <1>2, <3>1 DEF Behind
  <2>6. Behind(it, Tail(s), k + 1)
    BY <2>3, <2>4, <2>5 DEF Behind
  <2> QED BY <2>2, <2>6 DEF Follows
<1> QED BY <1>1, <1>2, <1>3, <1>4

(* The head of the list is deleted from the table, where it is the head or *)
(* is not any more; the rest of the list follows what is left.             *)
LEMMA FollowsRemoved ==
  ASSUME NEW S, NEW it \in Seq(S), NEW s \in Seq(S), it # <<>>, Follows(it, s)
  PROVE  /\ it[1] \notin Elems(s) => RemoveFirst(s, it[1]) = s
         /\ it[1] \in Elems(s) =>
              s # <<>> /\ s[1] = it[1] /\ RemoveFirst(s, it[1]) = Tail(s)
         /\ Follows(Tail(it), RemoveFirst(s, it[1]))
<1>1. /\ Len(it) \in Nat /\ Len(s) \in Nat /\ Len(Tail(it)) = Len(it) - 1 /\ Len(it) >= 1
      /\ \A i \in 1 .. Len(it) - 1 : Tail(it)[i] = it[i + 1]
  BY HeadTailProperties, LenProperties, EmptySeq
<1>2. PICK k \in 0 .. Len(it) : Behind(it, s, k)
  BY DEF Follows
<1>3. CASE it[1] \notin Elems(s)
  <2>1. RemoveFirst(s, it[1]) = s
    BY <1>3, RemoveFirstAbsent DEF Elems
  <2>2. k # 0
    BY <1>1, <1>2, <1>3 DEF Behind, Elems
  <2>3. k - 1 \in 0 .. Len(Tail(it)) /\ Len(Tail(it)) - (k - 1) <= Len(s)
    BY <1>1, <1>2, <2>2 DEF Behind
  <2>4. \A i \in 1 .. k - 1 : Tail(it)[i] \notin Elems(s)
    BY <1>1, <1>2, <2>2 DEF Behind
  <2>5. \A i \in (k - 1) + 1 .. Len(Tail(it)) : Tail(it)[i] = s[i - (k - 1)]
    <3>1. ASSUME NEW i \in (k - 1) + 1 .. Len(Tail(it))
          PROVE  /\ i \in 1 .. Len(it) - 1 /\ i + 1 \in k + 1 .. Len(it)
                 /\ (i + 1) - k = i - (k - 1)
      BY <1>1, <1>2, <2>2
    <3> QED BY <1>1, <1>2, <3>1 DEF Behind
  <2>6. Behind(Tail(it), s, k - 1)
    BY <2>3, <2>4, <2>5 DEF Behind
  <2> QED BY <1>3, <2>1, <2>3, <2>6 DEF Follows
<1>4. CASE it[1] \in Elems(s)
  <2>1. k = 0
    BY <1>1, <1>2, <1>4 DEF Behind
  <2>2. Len(s) >= Len(it) /\ \A i \in 1 .. Len(it) : it[i] = s[i]
    BY <1>1, <1>2, <2>1 DEF Behind
  <2>3. s # <<>> /\ s[1] = it[1] /\ RemoveFirst(s, it[1]) = Tail(s)
    <3>1. s # <<>> /\ s[1] = it[1]
      BY <1>1, <2>2, EmptySeq
    <3> QED BY <3>1, RemoveFirstHead
  <2>4. /\ Len(Tail(s)) = Len(s) - 1
        /\ \A i \in 1 .. Len(s) - 1 : Tail(s)[i] = s[i + 1]
    BY <2>3, HeadTailProperties
  <2>5. \A i \in 1 .. Len(Tail(it)) : Tail(it)[i] = Tail(s)[i]
    BY <1>1, <2>2, <2>4
  <2>6. Behind(Tail(it), Tail(s), 0) /\ 0 \in 0 .. Len(Tail(it))
    BY <1>1, <2>2, <2>4, <2>5 DEF Behind
  <2> QED BY <1>4, <2>3, <2>6 DEF Follows
<1> QED BY <1>3, <1>4

-----------------------------------------------------------------------------
(* Two finite sets that differ in one element at most                      *)
LEMMA OneMore ==
  ASSUME NEW S, NEW T, NEW p, IsFiniteSet(S), IsFiniteSet(T), S \ {p} = T \ {p}
  PROVE  Cardinality(S) - (IF p \in S THEN 1 ELSE 0)
           = Cardinality(T) - (IF p \in T THEN 1 ELSE 0)
<1>1. Cardinality(S \ {p}) = Cardinality(S) - (IF p \in S THEN 1 ELSE 0)
  BY FS_RemoveElement, FS_CardinalityType
<1>2. Cardinality(T \ {p}) = Cardinality(T) - (IF p \in T THEN 1 ELSE 0)
  BY FS_RemoveElement, FS_CardinalityType
<1> QED BY <1>1, <1>2

-----------------------------------------------------------------------------
Bad == Unreadable \cup Denylisted \cup Misshapen
Queued == Elems(spool)
List(p) == Elems(op[p].items)
Held(p) == {op[p].file} \cap Bundle

(* A list is worked on while it lasts; the daemon has no file of its own,  *)
(* a command one from its start to its end, and what it sends is sound.    *)
Shaped ==
  \A p \in Process :
    /\ op[p].pc \in {"drain", "remove"} <=> op[p].items # <<>>
    /\ p = Daemon => op[p].pc \in {"idle", "drain", "remove"}
    /\ op[p].file \in Bundle <=> p # Daemon /\ op[p].pc # "idle"
    /\ op[p].pc \in {"push", "enqueue"} => op[p].file \notin Bad

(* A bundle is to be submitted, in the hands of one command, or queued; a  *)
(* list names none that is to be submitted or in anyone's hands.           *)
OnePlace ==
  /\ Unique(spool) /\ todo \cap Queued = {}
  /\ \A p \in Process :
       /\ Unique(op[p].items) /\ List(p) \cap todo = {}
       /\ Held(p) \cap (todo \cup Queued) = {}
       /\ \A q \in Process : List(p) \cap Held(q) = {}
       /\ \A q \in Process : q # p => Held(p) \cap Held(q) = {}

InOrder == \A p \in Process : Follows(op[p].items, spool)

(* What left the queue, or is about to, is stored or was redirected.       *)
Delivered ==
  \A p \in Process :
    /\ op[p].pc = "remove" => Served(Head(op[p].items))
    /\ \A b \in List(p) \ Queued : Served(b)

Safe == TypeOK /\ Shaped /\ OnePlace /\ InOrder /\ Delivered /\ ToldTheTruth

(* The stores of a bundle that were heard of.  While the bundle has a      *)
(* place each is one that a process is about to act on; when it has left,  *)
(* also those processes may have stored it that no longer list it.  One    *)
(* that no two lists ever named is on no list once it has left.            *)
Placed(b) == b \in todo \cup Queued \/ \E p \in Process : b \in Held(p)
AtRemove(b) == {p \in Process : op[p].pc = "remove" /\ Head(op[p].items) = b}
Without(b) == {p \in Process : b \notin List(p)}
Heard(b) == sent[b] - unheard[b]
Room(b) == Cardinality(AtRemove(b)) + IF Placed(b) THEN 0 ELSE Cardinality(Without(b))
Paid == \A b \in Bundle : Heard(b) <= Room(b)
Alone ==
  \A b \in Bundle \ shared :
    /\ \A p, q \in Process : b \in List(p) /\ b \in List(q) => p = q
    /\ ~ Placed(b) => Heard(b) <= 1 /\ \A p \in Process : b \notin List(p)
Counted == Paid /\ Alone

IInv == Safe /\ Counted

-----------------------------------------------------------------------------
(* What a step does to the process that takes it, and to no other.         *)
Pcs == {"idle", "drain", "remove", "check", "push", "enqueue"}
OpState == [pc : Pcs, items : Seq(Bundle), file : Bundle \cup {Nobody}]
Becomes(p, k, it, f) ==
  /\ op' \in [Process -> OpState]
  /\ op'[p].pc = k /\ op'[p].items = it /\ op'[p].file = f
  /\ \A q \in Process \ {p} : op'[q] = op[q]

LEMMA BecomesByExcept ==
  ASSUME TypeOK, NEW p \in Process, NEW o \in OpState, op' = [op EXCEPT ![p] = o]
  PROVE  Becomes(p, o.pc, o.items, o.file)
BY DEF TypeOK, Becomes, OpState, Pcs

LEMMA BecomesRecord ==
  ASSUME TypeOK, NEW p \in Process, NEW k \in Pcs, NEW it \in Seq(Bundle),
         NEW f \in Bundle \cup {Nobody}, NEW o, o = [pc |-> k, items |-> it, file |-> f],
         op' = [op EXCEPT ![p] = o]
  PROVE  Becomes(p, k, it, f)
<1>1. o \in OpState /\ o.pc = k /\ o.items = it /\ o.file = f
  BY DEF OpState
<1>2. Becomes(p, o.pc, o.items, o.file)
  BY <1>1, BecomesByExcept
<1> QED BY <1>1, <1>2

LEMMA IdleBecomes ==
  ASSUME TypeOK, NEW p \in Process, op' = [op EXCEPT ![p] = Idle]
  PROVE  Becomes(p, "idle", <<>>, Nobody)
<1>1. <<>> \in Seq(Bundle) /\ "idle" \in Pcs /\ Nobody \in Bundle \cup {Nobody}
  BY DEF Pcs
<1> QED BY <1>1, BecomesRecord DEF Idle

LEMMA PcBecomes ==
  ASSUME TypeOK, NEW p \in Process, NEW k \in Pcs,
         op' = [op EXCEPT ![p] = [op[p] EXCEPT !.pc = k]]
  PROVE  Becomes(p, k, op[p].items, op[p].file)
<1>1. op[p] \in OpState
  BY DEF TypeOK, OpState, Pcs
<1>2. ASSUME NEW o, o = [op[p] EXCEPT !.pc = k]
      PROVE  o = [pc |-> k, items |-> op[p].items, file |-> op[p].file]
  BY <1>1, <1>2 DEF OpState
<1>3. op[p].items \in Seq(Bundle) /\ op[p].file \in Bundle \cup {Nobody}
  BY <1>1 DEF OpState
<1> QED BY <1>2, <1>3, BecomesRecord

LEMMA DrainedBecomes ==
  ASSUME TypeOK, NEW p \in Process, op' = [op EXCEPT ![p] = Drained(p)]
  PROVE  \/ p = Daemon /\ Becomes(p, "idle", <<>>, Nobody)
         \/ p # Daemon /\ Becomes(p, "check", <<>>, op[p].file)
<1>1. CASE p = Daemon
  BY <1>1, IdleBecomes DEF Drained
<1>2. CASE p # Daemon
  <2>1. op[p] \in OpState
    BY DEF TypeOK, OpState, Pcs
  <2>2. ASSUME NEW o, o = [op[p] EXCEPT !.pc = "check", !.items = <<>>]
        PROVE  o = [pc |-> "check", items |-> <<>>, file |-> op[p].file]
    BY <2>1, <2>2 DEF OpState
  <2>3. <<>> \in Seq(Bundle) /\ "check" \in Pcs /\ op[p].file \in Bundle \cup {Nobody}
    BY <2>1 DEF Pcs, OpState
  <2>4. Becomes(p, "check", <<>>, op[p].file)
    BY <1>2, <2>2, <2>3, BecomesRecord DEF Drained
  <2> QED BY <1>2, <2>4
<1> QED BY <1>1, <1>2

LEMMA ContinueBecomes ==
  ASSUME TypeOK, Shaped, NEW p \in Process, RemoveStored(p)
  PROVE  \/ p = Daemon /\ Len(op[p].items) = 1 /\ Becomes(p, "idle", <<>>, Nobody)
         \/ p # Daemon /\ Len(op[p].items) = 1 /\ Becomes(p, "check", <<>>, op[p].file)
         \/ /\ Len(op[p].items) > 1 /\ Tail(op[p].items) # <<>>
            /\ Becomes(p, "drain", Tail(op[p].items), op[p].file)
<1>1. op[p] \in OpState /\ op[p].items \in Seq(Bundle) /\ op[p].items # <<>>
  BY DEF TypeOK, OpState, Pcs, Shaped, RemoveStored
<1>2. CASE Len(op[p].items) = 1
  <2>1. op' = [op EXCEPT ![p] = Drained(p)]
    BY <1>2 DEF RemoveStored, Continue
  <2> QED BY <1>2, <2>1, DrainedBecomes
<1>3. CASE Len(op[p].items) # 1
  <2>1. op' = [op EXCEPT ![p] = [op[p] EXCEPT !.pc = "drain", !.items = Tail(op[p].items)]]
    BY <1>3, <1>1 DEF RemoveStored, Continue, OpState
  <2>2. /\ Len(op[p].items) > 1 /\ Tail(op[p].items) # <<>>
        /\ Tail(op[p].items) \in Seq(Bundle)
    BY <1>1, <1>3, TailNotEmpty
  <2>3. ASSUME NEW o, o = [op[p] EXCEPT !.pc = "drain", !.items = Tail(op[p].items)]
        PROVE  o = [pc |-> "drain", items |-> Tail(op[p].items), file |-> op[p].file]
    BY <1>1, <2>3 DEF OpState
  <2>4. "drain" \in Pcs /\ op[p].file \in Bundle \cup {Nobody}
    BY <1>1 DEF Pcs, OpState
  <2>5. Becomes(p, "drain", Tail(op[p].items), op[p].file)
    BY <2>1, <2>2, <2>3, <2>4, BecomesRecord
  <2> QED BY <2>2, <2>5
<1> QED BY <1>2, <1>3

LEMMA TickBecomes ==
  ASSUME TypeOK, Tick
  PROVE  Becomes(Daemon, "drain", spool, Nobody) /\ Daemon \in Process
<1>1. Daemon \in Process /\ spool \in Seq(Bundle) /\ "drain" \in Pcs
      /\ Nobody \in Bundle \cup {Nobody}
  BY DEF Process, TypeOK, Pcs
<1>2. ASSUME NEW o, o = [Idle EXCEPT !.pc = "drain", !.items = spool]
      PROVE  o = [pc |-> "drain", items |-> spool, file |-> Nobody]
  BY <1>2 DEF Idle
<1>3. op' = [op EXCEPT ![Daemon] = [Idle EXCEPT !.pc = "drain", !.items = spool]]
  BY DEF Tick
<1> QED BY <1>1, <1>2, <1>3, BecomesRecord

LEMMA SubmitBecomes ==
  ASSUME TypeOK, NEW p \in Command, Submit(p)
  PROVE  \E b \in todo :
           /\ todo' = todo \ {b}
           /\ Becomes(p, IF spool = <<>> THEN "check" ELSE "drain", spool, b)
           /\ p \in Process
<1>1. PICK b \in todo :
        /\ todo' = todo \ {b}
        /\ op' = [op EXCEPT ![p] = [pc |-> IF spool = <<>> THEN "check" ELSE "drain",
                                    items |-> spool, file |-> b]]
  BY DEF Submit
<1>2. /\ p \in Process /\ spool \in Seq(Bundle) /\ b \in Bundle \cup {Nobody}
      /\ (IF spool = <<>> THEN "check" ELSE "drain") \in Pcs
  BY <1>1 DEF Process, TypeOK, Pcs
<1> QED BY <1>1, <1>2, BecomesRecord

-----------------------------------------------------------------------------
(* What is sent: the head of a list, or the file of a command.             *)
LEMMA PushedFirst ==
  ASSUME TypeOK, Shaped, NEW p \in Process, op[p].pc \in {"drain", "remove"}
  PROVE  /\ op[p].items \in Seq(Bundle) /\ op[p].items # <<>>
         /\ Pushed(p) = op[p].items[1] /\ Head(op[p].items) = op[p].items[1]
         /\ Pushed(p) \in List(p) /\ Pushed(p) \in Bundle
<1>1. op[p].items \in Seq(Bundle) /\ op[p].items # <<>>
  BY DEF TypeOK, Shaped
<1>2. 1 \in 1 .. Len(op[p].items) /\ Head(op[p].items) = op[p].items[1]
  BY <1>1, EmptySeq
<1> QED BY <1>1, <1>2 DEF Pushed, List, Elems

LEMMA PushedFile ==
  ASSUME TypeOK, Shaped, NEW p \in Process, op[p].pc \in {"push", "enqueue"}
  PROVE  /\ op[p].items = <<>> /\ op[p].file \in Bundle \ Bad /\ p # Daemon
         /\ Pushed(p) = op[p].file /\ Held(p) = {op[p].file}
<1>1. op[p].pc \notin {"drain", "remove"} /\ op[p].pc # "idle"
  OBVIOUS
<1>2. op[p].items = <<>> /\ p # Daemon
  BY <1>1 DEF Shaped
<1>3. op[p].file \in Bundle /\ op[p].file \notin Bad
  BY <1>1, <1>2 DEF Shaped
<1>4. Pushed(p) = op[p].file
  BY <1>1 DEF Pushed
<1> QED BY <1>2, <1>3, <1>4 DEF Held

ShapedAs(p, k, it, f) ==
  /\ k \in {"drain", "remove"} <=> it # <<>>
  /\ p = Daemon => k \in {"idle", "drain", "remove"}
  /\ f \in Bundle <=> p # Daemon /\ k # "idle"
  /\ k \in {"push", "enqueue"} => f \notin Bad

(* A step that leaves the queue alone and goes on with the list and the    *)
(* file it has, or is through with them                                    *)
Works(p, k, it, f) ==
  /\ Becomes(p, k, it, f) /\ ShapedAs(p, k, it, f)
  /\ UNCHANGED <<todo, spool>>
  /\ it = op[p].items \/ it = <<>>
  /\ f = op[p].file \/ f = Nobody

LEMMA IdleShaped ==
  ASSUME NEW p \in Process
  PROVE  ShapedAs(p, "idle", <<>>, Nobody)
BY NobodyAssumption DEF ShapedAs

LEMMA StopWorks ==
  ASSUME TypeOK, NEW p \in Process, op' = [op EXCEPT ![p] = Idle],
         UNCHANGED <<todo, spool>>
  PROVE  Works(p, "idle", <<>>, Nobody)
BY IdleBecomes, IdleShaped DEF Works

LEMMA DrainStops ==
  ASSUME TypeOK, Shaped, NEW p \in Process, op[p].pc = "drain",
         op' = [op EXCEPT ![p] = Drained(p)], UNCHANGED <<todo, spool>>
  PROVE  \/ Works(p, "idle", <<>>, Nobody)
         \/ Works(p, "check", <<>>, op[p].file)
<1>1. CASE p = Daemon /\ Becomes(p, "idle", <<>>, Nobody)
  BY <1>1, IdleShaped DEF Works
<1>2. CASE p # Daemon /\ Becomes(p, "check", <<>>, op[p].file)
  <2>1. op[p].file \in Bundle
    BY <1>2 DEF Shaped
  <2>2. ShapedAs(p, "check", <<>>, op[p].file)
    BY <1>2, <2>1 DEF ShapedAs
  <2> QED BY <1>2, <2>2 DEF Works
<1> QED BY <1>1, <1>2, DrainedBecomes

LEMMA CheckWorks ==
  ASSUME TypeOK, Shaped, NEW p \in Process, Check(p)
  PROVE  \/ Works(p, "idle", <<>>, Nobody)
         \/ Works(p, "push", op[p].items, op[p].file)
<1>1. op[p].pc = "check" /\ UNCHANGED <<todo, spool>>
  BY DEF Check
<1>2. op[p].pc \notin {"drain", "remove"} /\ op[p].pc # "idle"
  BY <1>1
<1>3. op[p].items = <<>> /\ p # Daemon /\ op[p].file \in Bundle
  BY <1>1, <1>2 DEF Shaped
<1>4. CASE op[p].file \in Bad
  <2>1. op' = [op EXCEPT ![p] = Idle]
    BY <1>4 DEF Check, Bad
  <2> QED BY <1>1, <2>1, StopWorks
<1>5. CASE op[p].file \notin Bad
  <2>1. op' = [op EXCEPT ![p] = [op[p] EXCEPT !.pc = "push"]]
    BY <1>5 DEF Check, Bad
  <2>2. Becomes(p, "push", op[p].items, op[p].file)
    BY <2>1, PcBecomes DEF Pcs
  <2>3. ShapedAs(p, "push", op[p].items, op[p].file)
    BY <1>3, <1>5 DEF ShapedAs
  <2> QED BY <1>1, <2>2, <2>3 DEF Works
<1> QED BY <1>4, <1>5

LEMMA PushOkWorks ==
  ASSUME TypeOK, Shaped, NEW p \in Process, PushOk(p)
  PROVE  \/ op[p].pc = "drain" /\ Works(p, "remove", op[p].items, op[p].file)
         \/ op[p].pc = "push" /\ Works(p, "idle", <<>>, Nobody)
<1>1. UNCHANGED <<todo, spool>> /\ Pushing(p)
  BY DEF PushOk
<1>2. CASE op[p].pc = "drain"
  <2>1. op' = [op EXCEPT ![p] = [op[p] EXCEPT !.pc = "remove"]]
    BY <1>2 DEF PushOk
  <2>2. Becomes(p, "remove", op[p].items, op[p].file)
    BY <2>1, PcBecomes DEF Pcs
  <2>3. op[p].items # <<>> /\ (op[p].file \in Bundle <=> p # Daemon)
    BY <1>2 DEF Shaped
  <2>4. ShapedAs(p, "remove", op[p].items, op[p].file)
    BY <2>3 DEF ShapedAs
  <2> QED BY <1>1, <1>2, <2>2, <2>4 DEF Works
<1>3. CASE op[p].pc = "push"
  <2>1. op' = [op EXCEPT ![p] = Idle]
    BY <1>3 DEF PushOk
  <2> QED BY <1>1, <1>3, <2>1, StopWorks
<1> QED BY <1>1, <1>2, <1>3 DEF Pushing

LEMMA PushLostWorks ==
  ASSUME TypeOK, Shaped, NEW p \in Process, PushLost(p)
  PROVE  \/ Works(p, "idle", <<>>, Nobody)
         \/ Works(p, "check", <<>>, op[p].file)
         \/ Works(p, "enqueue", op[p].items, op[p].file)
<1>1. UNCHANGED <<todo, spool>> /\ Pushing(p)
  BY DEF PushLost
<1>2. CASE op[p].pc = "drain"
  <2>1. op' = [op EXCEPT ![p] = Drained(p)]
    BY <1>2 DEF PushLost, Stops, TypeOK
  <2> QED BY <1>1, <1>2, <2>1, DrainStops
<1>3. CASE op[p].pc = "push"
  <2>1. op' = [op EXCEPT ![p] = [op[p] EXCEPT !.pc = "enqueue"]]
    BY <1>3 DEF PushLost, TypeOK
  <2>2. Becomes(p, "enqueue", op[p].items, op[p].file)
    BY <2>1, PcBecomes DEF Pcs
  <2>3. ShapedAs(p, "enqueue", op[p].items, op[p].file)
    BY <1>3, PushedFile DEF ShapedAs
  <2> QED BY <1>1, <2>2, <2>3 DEF Works
<1> QED BY <1>1, <1>2, <1>3 DEF Pushing

LEMMA PushRefusedWorks ==
  ASSUME TypeOK, Shaped, NEW p \in Process, PushRefused(p)
  PROVE  \/ Works(p, "idle", <<>>, Nobody)
         \/ Works(p, "check", <<>>, op[p].file)
<1>1. UNCHANGED <<todo, spool>> /\ Pushing(p)
  BY DEF PushRefused
<1>2. CASE op[p].pc = "drain"
  <2>1. op' = [op EXCEPT ![p] = Drained(p)]
    BY <1>2 DEF PushRefused, Stops
  <2> QED BY <1>1, <1>2, <2>1, DrainStops
<1>3. CASE op[p].pc = "push"
  <2>1. op' = [op EXCEPT ![p] = Idle]
    BY <1>3 DEF PushRefused
  <2> QED BY <1>1, <1>3, <2>1, StopWorks
<1> QED BY <1>1, <1>2, <1>3 DEF Pushing

LEMMA KillWorks ==
  ASSUME TypeOK, Shaped, NEW p \in Process, Kill(p)
  PROVE  Works(p, "idle", <<>>, Nobody)
BY StopWorks DEF Kill

LEMMA EnqueueBecomes ==
  ASSUME TypeOK, NEW p \in Process, Enqueue(p)
  PROVE  Becomes(p, "idle", <<>>, Nobody)
BY IdleBecomes DEF Enqueue

-----------------------------------------------------------------------------
(* Types and shapes                                                        *)
LEMMA ShapedBy ==
  ASSUME Shaped, NEW p \in Process, NEW k, NEW it, NEW f,
         Becomes(p, k, it, f), ShapedAs(p, k, it, f)
  PROVE  Shaped'
<1>1. ASSUME NEW q \in Process
      PROVE  ShapedAs(q, op'[q].pc, op'[q].items, op'[q].file)
  <2>1. CASE q = p
    BY <2>1 DEF Becomes
  <2>2. CASE q # p
    BY <2>2 DEF Becomes, Shaped, ShapedAs
  <2> QED BY <2>1, <2>2
<1> QED BY <1>1 DEF Shaped, ShapedAs

(* What is taken off the queue is its head, or is not there any more.      *)
LEMMA RemovesHead ==
  ASSUME TypeOK, Shaped, InOrder, NEW p \in Process, RemoveStored(p)
  PROVE  /\ Pushed(p) \notin Queued => spool' = spool
         /\ Pushed(p) \in Queued =>
              spool # <<>> /\ spool[1] = Pushed(p) /\ spool' = Tail(spool)
<1>1. /\ op[p].items \in Seq(Bundle) /\ op[p].items # <<>>
      /\ Pushed(p) = op[p].items[1] /\ spool' = RemoveFirst(spool, Pushed(p))
  BY PushedFirst DEF RemoveStored
<1>2. Follows(op[p].items, spool) /\ spool \in Seq(Bundle)
  BY DEF InOrder, TypeOK
<1> QED BY <1>1, <1>2, FollowsRemoved DEF Queued

(* The part of the state that no list and no file is in                    *)
Rest ==
  /\ todo \subseteq Bundle /\ spool \in Seq(Bundle)
  /\ optin \in BOOLEAN /\ wired \in BOOLEAN
  /\ sent \in [Bundle -> Nat] /\ unheard \in [Bundle -> Nat]
  /\ shared \subseteq Bundle /\ redirected \subseteq Bundle
  /\ fails \in Nat /\ kills \in Nat /\ changes \in Nat
  /\ told \in [Bundle -> {"nothing", "submitted", "spooled"} \cup Refusals]

LEMMA TypesInitially == Init => TypeOK /\ Shaped
<1> SUFFICES ASSUME Init PROVE TypeOK /\ Shaped
  OBVIOUS
<1>1. \A p \in Process : /\ op[p].pc = "idle" /\ op[p].items = <<>>
                         /\ op[p].file = Nobody
  BY DEF Init, Idle
<1>2. op \in [Process -> OpState]
  BY DEF Init, Idle, OpState, Pcs
<1>3. Rest
  BY DEF Init, Rest, Refusals
<1>4. TypeOK
  BY <1>2, <1>3 DEF TypeOK, Rest, OpState, Pcs
<1>5. Shaped
  BY <1>1, NobodyAssumption DEF Shaped
<1> QED BY <1>4, <1>5

LEMMA TypesStep == TypeOK /\ Shaped /\ InOrder /\ [Next]_vars => (TypeOK /\ Shaped)'
<1> SUFFICES ASSUME TypeOK, Shaped, InOrder, [Next]_vars PROVE (TypeOK /\ Shaped)'
  OBVIOUS
<1>r. Rest
  BY DEF TypeOK, Rest
<1>1. ASSUME NEW p \in Process, NEW k, NEW it, NEW f, Becomes(p, k, it, f),
             ShapedAs(p, k, it, f), Rest'
      PROVE  (TypeOK /\ Shaped)'
  <2>1. op' \in [Process -> OpState]
    BY <1>1 DEF Becomes
  <2>2. (TypeOK)'
    BY <1>1, <2>1 DEF TypeOK, Rest, OpState, Pcs
  <2>3. Shaped'
    BY <1>1, ShapedBy
  <2> QED BY <2>2, <2>3
<1>2. ASSUME NEW p \in Process, Stored(p, TRUE) \/ Stored(p, FALSE), Pushing(p)
      PROVE  sent' \in [Bundle -> Nat] /\ unheard' \in [Bundle -> Nat]
  <2>1. Pushed(p) \in Bundle
    BY <1>2, PushedFirst, PushedFile DEF Pushing
  <2>2. sent' = [sent EXCEPT ![Pushed(p)] = @ + 1]
    BY <1>2 DEF Stored
  <2>3. \/ unheard' = [unheard EXCEPT ![Pushed(p)] = @ + 1]
        \/ unheard' = [unheard EXCEPT ![Pushed(p)] = @]
    BY <1>2 DEF Stored
  <2>4. sent \in [Bundle -> Nat] /\ unheard \in [Bundle -> Nat]
    BY <1>r DEF Rest
  <2>5. sent' \in [Bundle -> Nat]
    BY <2>1, <2>2, <2>4
  <2>6. unheard' \in [Bundle -> Nat]
    BY <2>1, <2>3, <2>4
  <2> QED BY <2>5, <2>6
<1>3. CASE UNCHANGED vars \/ ChangeConsent
  <2>b. optin' \in BOOLEAN /\ wired' \in BOOLEAN
    BY <1>r, <1>3 DEF vars, ChangeConsent, Rest
  <2>n. changes' \in Nat
    BY <1>r, <1>3 DEF vars, ChangeConsent, Rest
  <2>1. op' = op /\ Rest'
    BY <1>r, <1>3, <2>b, <2>n DEF vars, ChangeConsent, Rest
  <2>2. (TypeOK)'
    BY <2>1 DEF TypeOK, Rest
  <2>3. Shaped'
    BY <2>1 DEF Shaped
  <2> QED BY <2>2, <2>3
<1>4. CASE Tick
  <2>1. Becomes(Daemon, "drain", spool, Nobody) /\ Daemon \in Process
    BY <1>4, TickBecomes
  <2>2. ShapedAs(Daemon, "drain", spool, Nobody)
    BY <1>4, NobodyAssumption DEF Tick, ShapedAs
  <2>3. Rest'
    BY <1>r, <1>4 DEF Tick, ReadsQueue, Rest
  <2> QED BY <1>1, <2>1, <2>2, <2>3
<1>5. ASSUME NEW p \in Command, Submit(p) PROVE (TypeOK /\ Shaped)'
  <2> DEFINE k == IF spool = <<>> THEN "check" ELSE "drain"
  <2>1. PICK b \in todo : todo' = todo \ {b} /\ Becomes(p, k, spool, b) /\ p \in Process
    BY <1>5, SubmitBecomes
  <2>2. b \in Bundle /\ p # Daemon
    BY <2>1, ProcessAssumption DEF TypeOK
  <2>3. ShapedAs(p, k, spool, b)
    BY <2>2 DEF ShapedAs
  <2>4. Rest'
    BY <1>r, <1>5, <2>1 DEF Submit, ReadsQueue, Rest
  <2> QED BY <1>1, <2>1, <2>3, <2>4
<1>6. ASSUME NEW p \in Process, Check(p) PROVE (TypeOK /\ Shaped)'
  <2>1. Rest'
    BY <1>r, <1>6 DEF Check, Rest, Refusals
  <2> QED BY <1>1, <1>6, <2>1, CheckWorks DEF Works
<1>7. ASSUME NEW p \in Process, PushOk(p) PROVE (TypeOK /\ Shaped)'
  <2>1. sent' \in [Bundle -> Nat] /\ unheard' \in [Bundle -> Nat]
    BY <1>r, <1>2, <1>7 DEF PushOk, Redirected, Rest
  <2>p. Pushed(p) \in Bundle
    BY <1>7, PushedFirst, PushedFile DEF PushOk, Pushing
  <2>f. redirected' \subseteq Bundle
    BY <1>r, <1>7, <2>p DEF PushOk, Redirected, Rest
  <2>n. fails' \in Nat
    <3>1. fails' = fails \/ fails' = fails + 1
      BY <1>7 DEF PushOk, Redirected
    <3> QED BY <1>r, <3>1 DEF Rest
  <2>t. told' \in [Bundle -> {"nothing", "submitted", "spooled"} \cup Refusals]
    BY <1>r, <1>7 DEF PushOk, Rest
  <2>2. Rest'
    BY <1>r, <1>7, <2>1, <2>f, <2>n, <2>t DEF PushOk, Rest
  <2> QED BY <1>1, <1>7, <2>2, PushOkWorks DEF Works
<1>8. ASSUME NEW p \in Process, PushLost(p) PROVE (TypeOK /\ Shaped)'
  <2>1. sent' \in [Bundle -> Nat] /\ unheard' \in [Bundle -> Nat]
    BY <1>r, <1>2, <1>8 DEF PushLost, Rest
  <2>2. Rest'
    BY <1>r, <1>8, <2>1 DEF PushLost, Rest
  <2> QED BY <1>1, <1>8, <2>2, PushLostWorks DEF Works
<1>9. ASSUME NEW p \in Process, PushRefused(p) PROVE (TypeOK /\ Shaped)'
  <2>n. fails' \in Nat
    BY <1>r, <1>9 DEF PushRefused, Rest
  <2>b. told' \in [Bundle -> {"nothing", "submitted", "spooled"} \cup Refusals]
    BY <1>r, <1>9 DEF PushRefused, Rest, Refusals
  <2>1. Rest'
    BY <1>r, <1>9, <2>n, <2>b DEF PushRefused, Rest
  <2> QED BY <1>1, <1>9, <2>1, PushRefusedWorks DEF Works
<1>10. ASSUME NEW p \in Process, Kill(p) PROVE (TypeOK /\ Shaped)'
  <2>1. unheard' \in [Bundle -> Nat]
    <3>1. CASE op[p].pc = "remove"
      <4>1. Pushed(p) \in Bundle
        BY <3>1, PushedFirst
      <4> QED BY <1>r, <1>10, <3>1, <4>1 DEF Kill, Rest
    <3>2. CASE op[p].pc # "remove"
      BY <1>r, <1>10, <3>2 DEF Kill, Rest
    <3> QED BY <3>1, <3>2
  <2>b. wired' \in BOOLEAN
    BY <1>r, <1>10 DEF Kill, Rest
  <2>n. kills' \in Nat
    BY <1>r, <1>10 DEF Kill, Rest
  <2>2. Rest'
    <3>1. UNCHANGED <<todo, spool, optin, sent, fails, changes, told, redirected, shared>>
      BY <1>10 DEF Kill
    <3> QED BY <1>r, <2>1, <2>b, <2>n, <3>1 DEF Rest
  <2> QED BY <1>1, <1>10, <2>2, KillWorks DEF Works
<1>11. ASSUME NEW p \in Process, RemoveStored(p) PROVE (TypeOK /\ Shaped)'
  <2>1. op[p].pc = "remove"
    BY <1>11 DEF RemoveStored
  <2>2. op[p].file \in Bundle <=> p # Daemon
    BY <2>1 DEF Shaped
  <2>3. RemoveFirst(spool, Pushed(p)) \in Seq(Bundle)
    <3>1. spool \in Seq(Bundle) /\ spool' = RemoveFirst(spool, Pushed(p))
      BY <1>11 DEF RemoveStored, TypeOK
    <3>2. \/ spool' = spool
          \/ spool # <<>> /\ spool' = Tail(spool)
      BY <1>11, RemovesHead
    <3> QED BY <3>1, <3>2, HeadTailProperties
  <2>4. Rest'
    BY <1>r, <1>11, <2>3 DEF RemoveStored, Rest
  <2>5. CASE p = Daemon /\ Becomes(p, "idle", <<>>, Nobody)
    BY <1>1, <2>4, <2>5, IdleShaped
  <2>6. CASE p # Daemon /\ Becomes(p, "check", <<>>, op[p].file)
    <3>1. ShapedAs(p, "check", <<>>, op[p].file)
      BY <2>2, <2>6 DEF ShapedAs
    <3> QED BY <1>1, <2>4, <2>6, <3>1
  <2>7. CASE /\ Tail(op[p].items) # <<>>
             /\ Becomes(p, "drain", Tail(op[p].items), op[p].file)
    <3>1. ShapedAs(p, "drain", Tail(op[p].items), op[p].file)
      BY <2>2, <2>7 DEF ShapedAs
    <3> QED BY <1>1, <2>4, <2>7, <3>1
  <2> QED BY <1>11, <2>5, <2>6, <2>7, ContinueBecomes
<1>12. ASSUME NEW p \in Process, Enqueue(p) PROVE (TypeOK /\ Shaped)'
  <2>1. op[p].file \in Bundle
    BY <1>12, PushedFile DEF Enqueue
  <2>2. Append(spool, op[p].file) \in Seq(Bundle)
    BY <1>r, <2>1, AppendProperties DEF Rest
  <2>3. Rest'
    BY <1>r, <1>12, <2>1, <2>2 DEF Enqueue, Rest
  <2> QED BY <1>1, <1>12, <2>3, IdleShaped, EnqueueBecomes
<1> QED BY <1>3, <1>4, <1>5, <1>6, <1>7, <1>8, <1>9, <1>10, <1>11, <1>12
       DEF Next, Advance, Process

-----------------------------------------------------------------------------
(* A list is read, for the daemon or for a command with its file.          *)
Reads(p, k, f) ==
  /\ Becomes(p, k, spool, f) /\ k # "remove" /\ ReadsQueue(p)
  /\ UNCHANGED <<spool, sent, redirected, unheard>> /\ op[p].pc = "idle"
  /\ \/ f = Nobody /\ UNCHANGED todo
     \/ f \in todo /\ todo' = todo \ {f}

LEMMA ReadsSteps ==
  ASSUME TypeOK, Shaped, Tick \/ \E p \in Command : Submit(p)
  PROVE  \E p \in Process : \E k, f : Reads(p, k, f)
<1>1. CASE Tick
  <2>1. Becomes(Daemon, "drain", spool, Nobody) /\ Daemon \in Process
    BY <1>1, TickBecomes
  <2>2. Reads(Daemon, "drain", Nobody)
    BY <1>1, <2>1 DEF Tick, Reads
  <2> QED BY <2>1, <2>2
<1>2. ASSUME NEW p \in Command, Submit(p)
      PROVE  p \in Process /\ \E k, f : Reads(p, k, f)
  <2> DEFINE k == IF spool = <<>> THEN "check" ELSE "drain"
  <2>1. PICK b \in todo : todo' = todo \ {b} /\ Becomes(p, k, spool, b) /\ p \in Process
    BY <1>2, SubmitBecomes
  <2>2. Reads(p, k, b)
    BY <1>2, <2>1 DEF Submit, Reads
  <2> QED BY <2>1, <2>2
<1> QED BY <1>1, <1>2

LEMMA StepKinds ==
  ASSUME TypeOK, Shaped, [Next]_vars
  PROVE  \/ UNCHANGED <<op, todo, spool, sent, redirected, unheard>>
         \/ \E p \in Process : \E k, it, f :
              /\ Check(p) \/ PushOk(p) \/ PushLost(p) \/ PushRefused(p) \/ Kill(p)
              /\ Works(p, k, it, f)
         \/ \E p \in Process : \E k, f : Reads(p, k, f)
         \/ \E p \in Process : RemoveStored(p) \/ Enqueue(p)
<1>1. CASE UNCHANGED vars \/ ChangeConsent
  BY <1>1 DEF vars, ChangeConsent
<1>2. CASE Tick \/ \E p \in Command : Submit(p)
  BY <1>2, ReadsSteps
<1>4. ASSUME NEW p \in Process,
             Check(p) \/ PushOk(p) \/ PushLost(p) \/ PushRefused(p) \/ Kill(p)
      PROVE  \E k, it, f : Works(p, k, it, f)
  BY <1>4, CheckWorks, PushOkWorks, PushLostWorks, PushRefusedWorks, KillWorks
<1> QED BY <1>1, <1>2, <1>4 DEF Next, Advance

(* What a process holds and lists, after a step and for the others         *)
LEMMA OthersKept ==
  ASSUME NEW p \in Process, NEW k, NEW it, NEW f, Becomes(p, k, it, f),
         NEW q \in Process \ {p}
  PROVE  op'[q] = op[q] /\ Held(q)' = Held(q) /\ List(q)' = List(q)
BY DEF Becomes, Held, List

LEMMA OwnAfter ==
  ASSUME NEW p \in Process, NEW k, NEW it, NEW f, Becomes(p, k, it, f)
  PROVE  Held(p)' = {f} \cap Bundle /\ List(p)' = Elems(it) /\ op'[p].items = it
BY DEF Becomes, Held, List

LEMMA EmptyList ==
  /\ Elems(<<>>) = {} /\ Unique(<<>>)
  /\ \A s : Follows(<<>>, s) <=> Len(s) >= 0
BY DEF Elems, Unique, Follows, Behind

LEMMA WorksPlaces ==
  ASSUME NEW p \in Process, NEW k, NEW it, NEW f, Works(p, k, it, f)
  PROVE  /\ Queued' = Queued
         /\ \A q \in Process : Held(q)' \subseteq Held(q) /\ List(q)' \subseteq List(q)
         /\ \A q \in Process \ {p} : op'[q] = op[q]
<1>1. Held(p)' \subseteq Held(p) /\ List(p)' \subseteq List(p)
  BY OwnAfter, EmptyList, NobodyAssumption DEF Works, Held, List
<1> QED BY <1>1, OthersKept DEF Works, Queued

LEMMA ReadsPlaces ==
  ASSUME TypeOK, Shaped, NEW p \in Process, NEW k, NEW f, Reads(p, k, f)
  PROVE  /\ Queued' = Queued /\ List(p)' = Queued /\ Held(p)' = todo \ todo'
         /\ Held(p) = {} /\ List(p) = {} /\ todo' \subseteq todo
         /\ \A q \in Process \ {p} : op'[q] = op[q] /\ Held(q)' = Held(q)
                                    /\ List(q)' = List(q)
<1>1. op[p].pc \notin {"drain", "remove"} /\ op[p].pc = "idle"
  BY DEF Reads
<1>2. Held(p) = {} /\ List(p) = {}
  BY <1>1, EmptyList DEF Shaped, Held, List
<1>3. Held(p)' = {f} \cap Bundle /\ List(p)' = Queued
  BY OwnAfter DEF Reads, Queued
<1>4. {f} \cap Bundle = todo \ todo'
  BY NobodyAssumption DEF Reads, TypeOK
<1> QED BY <1>2, <1>3, <1>4, OthersKept DEF Reads, Queued

LEMMA RemovePlaces ==
  ASSUME TypeOK, Shaped, OnePlace, InOrder, NEW p \in Process, RemoveStored(p)
  PROVE  /\ Queued' = Queued \ {Pushed(p)} /\ Unique(spool)'
         /\ List(p)' = List(p) \ {Pushed(p)} /\ Held(p)' \subseteq Held(p)
         /\ Held(p) \subseteq Held(p)'
         /\ Unique(op[p].items)' /\ op'[p].items = Tail(op[p].items)
         /\ \A q \in Process \ {p} : op'[q] = op[q] /\ Held(q)' = Held(q)
                                    /\ List(q)' = List(q)
<1> DEFINE it == op[p].items
<1>1. /\ it \in Seq(Bundle) /\ it # <<>> /\ Pushed(p) = it[1] /\ Unique(it)
      /\ spool \in Seq(Bundle) /\ Unique(spool) /\ op[p].pc = "remove"
  BY PushedFirst DEF RemoveStored, OnePlace, TypeOK
<1>2. Queued' = Queued \ {Pushed(p)} /\ Unique(spool)'
  <2>1. CASE Pushed(p) \notin Queued
    <3>1. spool' = spool
      BY <2>1, RemovesHead
    <3> QED BY <1>1, <2>1, <3>1 DEF Queued
  <2>2. CASE Pushed(p) \in Queued
    <3>1. spool # <<>> /\ spool[1] = Pushed(p) /\ spool' = Tail(spool)
      BY <2>2, RemovesHead
    <3>2. Elems(Tail(spool)) = Elems(spool) \ {spool[1]} /\ Unique(Tail(spool))
      BY <1>1, <3>1, TailElems
    <3> QED BY <3>1, <3>2 DEF Queued
  <2> QED BY <2>1, <2>2
<1>3. Elems(Tail(it)) = Elems(it) \ {it[1]} /\ Unique(Tail(it))
  BY <1>1, TailElems
<1>4. Len(it) = 1 => Tail(it) = <<>>
  <2>1. ASSUME Len(it) = 1 PROVE Tail(it) = <<>>
    <3>1. Tail(it) \in Seq(Bundle) /\ Len(Tail(it)) = 0
      BY <1>1, <2>1, HeadTailProperties
    <3> QED BY <3>1, EmptySeq
  <2> QED BY <2>1
<1>5. CASE p = Daemon /\ Len(it) = 1 /\ Becomes(p, "idle", <<>>, Nobody)
  <2>1. op[p].file \notin Bundle
    BY <1>5 DEF Shaped
  <2>a. Held(p)' = {Nobody} \cap Bundle /\ List(p)' = Elems(<<>>)
        /\ op'[p].items = <<>>
    BY <1>5, OwnAfter
  <2>2. Held(p)' = {} /\ Held(p) = {} /\ List(p)' = Elems(Tail(it))
        /\ op'[p].items = Tail(it)
    BY <1>4, <1>5, <2>1, <2>a, NobodyAssumption DEF Held
  <2> QED BY <1>1, <1>2, <1>3, <1>5, <2>2, OthersKept DEF List
<1>6. ASSUME NEW k, Becomes(p, k, Tail(it), op[p].file)
      PROVE  /\ List(p)' = List(p) \ {Pushed(p)} /\ Held(p)' = Held(p)
             /\ Unique(op[p].items)' /\ op'[p].items = Tail(it)
             /\ \A q \in Process \ {p} : op'[q] = op[q] /\ Held(q)' = Held(q)
                                        /\ List(q)' = List(q)
  <2>1. Held(p)' = Held(p) /\ List(p)' = Elems(Tail(it)) /\ op'[p].items = Tail(it)
    BY <1>6, OwnAfter DEF Held
  <2> QED BY <1>1, <1>3, <1>6, <2>1, OthersKept DEF List
<1>7. CASE Len(it) = 1 /\ Becomes(p, "check", <<>>, op[p].file)
  BY <1>2, <1>4, <1>6, <1>7
<1>8. CASE Becomes(p, "drain", Tail(it), op[p].file)
  BY <1>2, <1>6, <1>8
<1> QED BY <1>5, <1>7, <1>8, ContinueBecomes

LEMMA EnqueuePlaces ==
  ASSUME TypeOK, Shaped, OnePlace, NEW p \in Process, Enqueue(p)
  PROVE  /\ Queued' = Queued \cup {op[p].file} /\ Unique(spool)'
         /\ spool' = Append(spool, op[p].file) /\ op[p].file \in Bundle
         /\ Held(p) = {op[p].file} /\ Held(p)' = {} /\ List(p)' = {} /\ List(p) = {}
         /\ op'[p].items = <<>>
         /\ \A q \in Process \ {p} : op'[q] = op[q] /\ Held(q)' = Held(q)
                                    /\ List(q)' = List(q)
<1>1. /\ op[p].file \in Bundle /\ Held(p) = {op[p].file} /\ op[p].items = <<>>
      /\ spool' = Append(spool, op[p].file) /\ spool \in Seq(Bundle)
  BY PushedFile DEF Enqueue, TypeOK
<1>2. Unique(spool) /\ op[p].file \notin Elems(spool)
  BY <1>1 DEF OnePlace, Queued
<1>3. Elems(spool') = Elems(spool) \cup {op[p].file} /\ Unique(spool')
  BY <1>1, <1>2, AppendElems
<1>4. Becomes(p, "idle", <<>>, Nobody)
  BY EnqueueBecomes
<1>5. Held(p)' = {} /\ List(p)' = {} /\ List(p) = {} /\ op'[p].items = <<>>
  BY <1>1, <1>4, OwnAfter, EmptyList, NobodyAssumption DEF List
<1> QED BY <1>1, <1>3, <1>4, <1>5, OthersKept DEF Queued

-----------------------------------------------------------------------------
(* Where a bundle is, and the order of the lists                           *)
LEMMA PlacesStep ==
  TypeOK /\ Shaped /\ OnePlace /\ InOrder /\ [Next]_vars => OnePlace' /\ InOrder'
<1> SUFFICES ASSUME TypeOK, Shaped, OnePlace, InOrder, [Next]_vars
             PROVE  OnePlace' /\ InOrder'
  OBVIOUS
<1>t. /\ spool \in Seq(Bundle) /\ Len(spool) \in Nat /\ Unique(spool)
      /\ \A q \in Process : op[q].items \in Seq(Bundle)
      /\ \A q \in Process : Follows(op[q].items, spool)
  BY LenProperties DEF TypeOK, OnePlace, InOrder
<1>1. CASE UNCHANGED <<op, todo, spool, sent, redirected, unheard>>
  <2>1. /\ \A q \in Process : Held(q)' = Held(q) /\ List(q)' = List(q)
        /\ Queued' = Queued
    BY <1>1 DEF Held, List, Queued
  <2> QED BY <1>1, <2>1 DEF OnePlace, InOrder
<1>2. ASSUME NEW p \in Process, NEW k, NEW it, NEW f, Works(p, k, it, f)
      PROVE  OnePlace' /\ InOrder'
  <2>1. /\ Queued' = Queued /\ todo' = todo /\ spool' = spool
        /\ \A q \in Process : Held(q)' \subseteq Held(q) /\ List(q)' \subseteq List(q)
        /\ \A q \in Process \ {p} : op'[q] = op[q]
    BY <1>2, WorksPlaces DEF Works
  <2>2. op'[p].items = op[p].items \/ op'[p].items = <<>>
    BY <1>2, OwnAfter DEF Works
  <2>3. \A q \in Process : Unique(op[q].items)'
    BY <2>1, <2>2, EmptyList DEF OnePlace
  <2>4. \A q \in Process : Follows(op'[q].items, spool')
    BY <1>t, <2>1, <2>2, EmptyList
  <2>5. OnePlace'
    BY <1>t, <2>1, <2>3 DEF OnePlace
  <2> QED BY <2>4, <2>5 DEF InOrder
<1>3. ASSUME NEW p \in Process, NEW k, NEW f, Reads(p, k, f) PROVE OnePlace' /\ InOrder'
  <2>1. /\ Queued' = Queued /\ List(p)' = Queued /\ Held(p)' = todo \ todo'
        /\ todo' \subseteq todo /\ spool' = spool /\ op'[p].items = spool
        /\ \A q \in Process \ {p} : op'[q] = op[q] /\ Held(q)' = Held(q)
                                   /\ List(q)' = List(q)
    BY <1>3, ReadsPlaces DEF Reads, Becomes
  <2>2. \A q \in Process : Unique(op[q].items)'
    BY <1>t, <2>1 DEF OnePlace
  <2>3. \A q \in Process : Follows(op'[q].items, spool')
    BY <1>t, <2>1, FollowsItself
  <2>4. ASSUME NEW q \in Process
        PROVE  /\ List(q)' \cap todo' = {} /\ Held(q)' \cap (todo' \cup Queued') = {}
               /\ \A x \in Process : List(q)' \cap Held(x)' = {}
               /\ \A x \in Process : x # q => Held(q)' \cap Held(x)' = {}
    BY <2>1 DEF OnePlace
  <2>5. OnePlace'
    BY <1>t, <2>1, <2>2, <2>4 DEF OnePlace
  <2> QED BY <2>3, <2>5 DEF InOrder
<1>4. ASSUME NEW p \in Process, RemoveStored(p) PROVE OnePlace' /\ InOrder'
  <2>1. /\ Queued' \subseteq Queued /\ Unique(spool)'
        /\ \A q \in Process : Held(q)' \subseteq Held(q) /\ List(q)' \subseteq List(q)
        /\ Unique(op[p].items)' /\ op'[p].items = Tail(op[p].items) /\ todo' = todo
        /\ \A q \in Process \ {p} : op'[q] = op[q]
    BY <1>4, RemovePlaces DEF RemoveStored
  <2>2. /\ spool' = RemoveFirst(spool, Pushed(p)) /\ op[p].items # <<>>
        /\ Pushed(p) = op[p].items[1]
    BY <1>4, PushedFirst DEF RemoveStored
  <2>3. \/ spool' = spool
        \/ spool # <<>> /\ spool' = Tail(spool)
    BY <1>4, RemovesHead
  <2>4. ASSUME NEW q \in Process PROVE Follows(op'[q].items, spool')
    <3>1. CASE q = p
      BY <1>t, <2>1, <2>2, <3>1, FollowsRemoved
    <3>2. CASE q # p
      BY <1>t, <2>1, <2>3, <3>2, FollowsTail
    <3> QED BY <3>1, <3>2
  <2>5. \A q \in Process : Unique(op[q].items)'
    BY <2>1 DEF OnePlace
  <2>6. OnePlace'
    BY <2>1, <2>5 DEF OnePlace
  <2> QED BY <2>4, <2>6 DEF InOrder
<1>5. ASSUME NEW p \in Process, Enqueue(p) PROVE OnePlace' /\ InOrder'
  <2>1. /\ Queued' = Queued \cup {op[p].file} /\ Unique(spool)'
        /\ spool' = Append(spool, op[p].file) /\ op[p].file \in Bundle
        /\ Held(p) = {op[p].file} /\ Held(p)' = {} /\ List(p)' = {}
        /\ op'[p].items = <<>> /\ todo' = todo
        /\ \A q \in Process \ {p} : op'[q] = op[q] /\ Held(q)' = Held(q)
                                   /\ List(q)' = List(q)
    BY <1>5, EnqueuePlaces DEF Enqueue
  <2>2. ASSUME NEW q \in Process PROVE Follows(op'[q].items, spool')
    <3>1. CASE q = p
      <4>1. Append(spool, op[p].file) \in Seq(Bundle)
        BY <1>t, <2>1, AppendProperties
      <4>2. Len(spool') \in Nat
        BY <2>1, <4>1, LenProperties
      <4> QED BY <2>1, <3>1, <4>2, EmptyList
    <3>2. CASE q # p
      <4>1. op[p].file \notin Elems(op[q].items)
        BY <2>1 DEF OnePlace, List
      <4> QED BY <1>t, <2>1, <3>2, <4>1, FollowsAppended
    <3> QED BY <3>1, <3>2
  <2>3. \A q \in Process : Unique(op[q].items)'
    BY <2>1, EmptyList DEF OnePlace
  <2>4. ASSUME NEW q \in Process
        PROVE  /\ List(q)' \cap todo' = {} /\ Held(q)' \cap (todo' \cup Queued') = {}
               /\ \A x \in Process : List(q)' \cap Held(x)' = {}
               /\ \A x \in Process : x # q => Held(q)' \cap Held(x)' = {}
    BY <2>1 DEF OnePlace
  <2>5. OnePlace'
    BY <2>1, <2>3, <2>4 DEF OnePlace
  <2> QED BY <2>2, <2>5 DEF InOrder
<1> QED BY <1>1, <1>2, <1>3, <1>4, <1>5, StepKinds

(* What was answered for stays so.                                         *)
LEMMA ServedGrows ==
  ASSUME TypeOK, Shaped, [Next]_vars, NEW b \in Bundle
  PROVE  Served(b) => Served(b)'
<1>1. ASSUME NEW p \in Process, Pushing(p), sent' = [sent EXCEPT ![Pushed(p)] = @ + 1]
      PROVE  sent[b] > 0 => sent'[b] > 0
  <2>1. Pushed(p) \in Bundle
    BY <1>1, PushedFirst, PushedFile DEF Pushing
  <2> QED BY <1>1, <2>1 DEF TypeOK
<1>2. sent[b] > 0 => sent'[b] > 0
  <2>1. CASE UNCHANGED sent
    BY <2>1
  <2> QED BY <1>1, <2>1 DEF Next, Advance, Tick, ChangeConsent, Submit, Check, PushOk,
         Redirected, PushLost, PushRefused, Kill, RemoveStored, Enqueue, Stored, vars, Process
<1>3. redirected \subseteq redirected'
  BY DEF Next, Advance, Tick, ChangeConsent, Submit, Check, PushOk,
     Redirected, PushLost, PushRefused, Kill, RemoveStored, Enqueue, vars
<1> QED BY <1>2, <1>3 DEF Served

(* A success is an answer for the bundle that was pushed.                  *)
LEMMA PushOkServes ==
  ASSUME TypeOK, Shaped, NEW p \in Process, PushOk(p), NEW b, b = Pushed(p)
  PROVE  b \in Bundle /\ Served(b)'
<1>1. b \in Bundle
  BY PushedFirst, PushedFile DEF PushOk, Pushing
<1>2. CASE Stored(p, FALSE)
  <2>1. sent' = [sent EXCEPT ![b] = @ + 1] /\ sent[b] \in Nat
    BY <1>1, <1>2 DEF Stored, TypeOK
  <2> QED BY <1>1, <2>1 DEF Served, TypeOK
<1>3. CASE Redirected(p)
  BY <1>1, <1>3 DEF Redirected, Served
<1> QED BY <1>2, <1>3 DEF PushOk

LEMMA DeliveredStep ==
  TypeOK /\ (TypeOK)' /\ Shaped /\ OnePlace /\ InOrder /\ Delivered /\ [Next]_vars
    => Delivered'
<1> SUFFICES ASSUME TypeOK, (TypeOK)', Shaped, OnePlace, InOrder, Delivered, [Next]_vars
             PROVE  Delivered'
  OBVIOUS
<1>s. ASSUME NEW q \in Process PROVE List(q) \subseteq Bundle
  <2>1. op[q].items \in Seq(Bundle)
    BY DEF TypeOK
  <2> QED BY <2>1 DEF List, Elems
(* A process that keeps what it does                                       *)
<1>k. ASSUME NEW q \in Process, op'[q] = op[q]
      PROVE  op'[q].pc = "remove" => Served(Head(op[q].items))'
  <2>1. ASSUME op[q].pc = "remove" PROVE Head(op[q].items) \in Bundle
    BY <2>1, PushedFirst
  <2> QED BY <1>k, <2>1, ServedGrows DEF Delivered
(* A step after which the lists name nothing new that has left             *)
<1>l. ASSUME NEW q \in Process,
             \A b \in List(q)' \ Queued' : b \in List(q) \ Queued \/ Served(b)'
      PROVE  \A b \in List(q)' \ Queued' : Served(b)'
  BY <1>s, <1>l, ServedGrows DEF Delivered
<1>1. CASE UNCHANGED <<op, todo, spool, sent, redirected, unheard>>
  <2>1. \A q \in Process : op'[q] = op[q] /\ List(q)' = List(q) /\ Queued' = Queued
    BY <1>1 DEF List, Queued
  <2> QED BY <1>k, <1>l, <2>1 DEF Delivered
<1>2. ASSUME NEW p \in Process, NEW k, NEW it, NEW f, Works(p, k, it, f),
             Check(p) \/ PushOk(p) \/ PushLost(p) \/ PushRefused(p) \/ Kill(p)
      PROVE  Delivered'
  <2>1. /\ Queued' = Queued /\ \A q \in Process : List(q)' \subseteq List(q)
        /\ \A q \in Process \ {p} : op'[q] = op[q]
    BY <1>2, WorksPlaces
  <2>2. ASSUME op'[p].pc = "remove" PROVE Served(Head(op[p].items))'
    <3>1. CASE PushOk(p) /\ op[p].pc = "drain"
      <4>1. op'[p].items = op[p].items
        BY <3>1, PushOkWorks DEF Works, Becomes
      <4>2. Pushed(p) = Head(op[p].items)
        BY <3>1, PushedFirst
      <4> QED BY <3>1, <4>1, <4>2, PushOkServes
    <3>2. CASE PushOk(p) /\ op[p].pc = "push"
      BY <2>2, <3>2, PushOkWorks DEF Works, Becomes
    <3>3. CASE Check(p)
      BY <2>2, <3>3, CheckWorks DEF Works, Becomes
    <3>4. CASE PushLost(p)
      BY <2>2, <3>4, PushLostWorks DEF Works, Becomes
    <3>5. CASE PushRefused(p)
      BY <2>2, <3>5, PushRefusedWorks DEF Works, Becomes
    <3>6. CASE Kill(p)
      BY <2>2, <3>6, KillWorks DEF Works, Becomes
    <3> QED BY <1>2, <3>1, <3>2, <3>3, <3>4, <3>5, <3>6 DEF PushOk, Pushing
  <2> QED BY <1>k, <1>l, <2>1, <2>2 DEF Delivered
<1>3. ASSUME NEW p \in Process, NEW k, NEW f, Reads(p, k, f) PROVE Delivered'
  <2>1. /\ Queued' = Queued /\ List(p)' = Queued
        /\ \A q \in Process \ {p} : op'[q] = op[q] /\ List(q)' = List(q)
    BY <1>3, ReadsPlaces
  <2>2. op'[p].pc # "remove"
    BY <1>3 DEF Reads, Becomes
  <2> QED BY <1>k, <1>l, <2>1, <2>2 DEF Delivered
<1>4. ASSUME NEW p \in Process, RemoveStored(p) PROVE Delivered'
  <2>1. /\ Queued' = Queued \ {Pushed(p)} /\ List(p)' = List(p) \ {Pushed(p)}
        /\ \A q \in Process \ {p} : op'[q] = op[q] /\ List(q)' = List(q)
    BY <1>4, RemovePlaces
  <2>2. \A b : b = Pushed(p) => Served(b)'
    BY <1>4, PushedFirst DEF RemoveStored, Delivered, Served
  <2>3. op'[p].pc # "remove"
    BY <1>4, ContinueBecomes DEF Becomes
  <2> QED BY <1>k, <1>l, <2>1, <2>2, <2>3 DEF Delivered
<1>5. ASSUME NEW p \in Process, Enqueue(p) PROVE Delivered'
  <2>1. /\ Queued' = Queued \cup {op[p].file} /\ List(p)' = {}
        /\ \A q \in Process \ {p} : op'[q] = op[q] /\ List(q)' = List(q)
    BY <1>5, EnqueuePlaces
  <2>2. op'[p].pc # "remove"
    BY <1>5, EnqueueBecomes DEF Becomes
  <2> QED BY <1>k, <1>l, <2>1, <2>2 DEF Delivered
<1> QED BY <1>1, <1>2, <1>3, <1>4, <1>5, StepKinds

-----------------------------------------------------------------------------
(* What the operator was told                                              *)
LEMMA ToldIs ==
  ToldTheTruth <=>
    \A b \in Bundle :
      /\ told[b] = "submitted" => Served(b)
      /\ told[b] = "spooled" => Served(b) \/ b \in Queued
      /\ b \in Bad => ~Served(b) /\ b \notin Queued
BY DEF ToldTheTruth, Contains, Queued, Elems, Bad

LEMMA ToldIsAfter ==
  ToldTheTruth' <=>
    \A b \in Bundle :
      /\ told'[b] = "submitted" => Served(b)'
      /\ told'[b] = "spooled" => Served(b)' \/ b \in Queued'
      /\ b \in Bad => ~Served(b)' /\ b \notin Queued'
BY DEF ToldTheTruth, Contains, Queued, Elems, Bad

(* Nothing bad is ever sent.                                               *)
LEMMA SoundIsSent ==
  ASSUME TypeOK, Shaped, Delivered, ToldTheTruth, NEW p \in Process, Pushing(p)
  PROVE  Pushed(p) \in Bundle \ Bad
<1>1. CASE op[p].pc = "drain"
  <2>1. Pushed(p) \in List(p) /\ Pushed(p) \in Bundle
    BY <1>1, PushedFirst
  <2>2. Pushed(p) \in Queued \/ Served(Pushed(p))
    BY <2>1 DEF Delivered
  <2> QED BY <2>1, <2>2, ToldIs DEF TypeOK
<1>2. CASE op[p].pc = "push"
  BY <1>2, PushedFile
<1> QED BY <1>1, <1>2 DEF Pushing

LEMMA ToldStep == Safe /\ (TypeOK)' /\ [Next]_vars => ToldTheTruth'
<1> SUFFICES ASSUME Safe, (TypeOK)', [Next]_vars PROVE ToldTheTruth'
  OBVIOUS
<1>t. TypeOK /\ Shaped /\ OnePlace /\ InOrder /\ Delivered /\ ToldTheTruth
  BY DEF Safe
<1>g. \A b \in Bundle : Served(b) => Served(b)'
  BY <1>t, ServedGrows
<1>2. ASSUME UNCHANGED <<told, sent, redirected, spool>> PROVE ToldTheTruth'
  <2>1. Queued' = Queued /\ \A b : Served(b)' <=> Served(b)
    BY <1>2 DEF Queued, Served
  <2> QED BY <1>2, <1>t, <2>1, ToldIs, ToldIsAfter
(* A step that says something of one bundle at most, which is not a bad    *)
(* one if anything is said to have left or to be queued                    *)
<1>1. ASSUME NEW f, NEW w, Queued' = Queued,
             \A b \in Bundle : told'[b] = told[b] \/ (b = f /\ told'[b] = w),
             w = "submitted" => Served(f)', w # "spooled",
             \A b \in Bundle \cap Bad : Served(b)' => Served(b)
      PROVE  ToldTheTruth'
  BY <1>1, <1>g, <1>t, ToldIs, ToldIsAfter
<1>3. ASSUME NEW p \in Process, Check(p) PROVE ToldTheTruth'
  <2>1. CASE op[p].file \in Bad
    <3>1. PICK f : f = op[p].file
      OBVIOUS
    <3>2. PICK w : w = IF f \in Unreadable THEN "unreadable"
                       ELSE IF f \in Denylisted THEN "denylisted" ELSE "misshapen"
      OBVIOUS
    <3>3. told' = [told EXCEPT ![f] = w]
      BY <1>3, <2>1, <3>1, <3>2 DEF Check, Bad
    <3>4. \A b \in Bundle : told'[b] = told[b] \/ (b = f /\ told'[b] = w)
      BY <1>t, <3>3 DEF TypeOK
    <3>5. Queued' = Queued /\ \A b : Served(b)' <=> Served(b)
      BY <1>3 DEF Check, Queued, Served
    <3> QED BY <1>1, <3>2, <3>4, <3>5
  <2>2. CASE op[p].file \notin Bad
    <3>1. told' = told
      BY <1>3, <2>2 DEF Check, Bad
    <3> QED BY <1>2, <1>3, <3>1 DEF Check
  <2> QED BY <2>1, <2>2
(* A push, which leaves the other bundles alone                            *)
<1>4. ASSUME NEW p \in Process, PushOk(p) \/ PushLost(p) \/ PushRefused(p)
      PROVE  ToldTheTruth'
  <2>1. PICK f : f = Pushed(p)
    OBVIOUS
  <2>2. f \in Bundle \ Bad /\ Queued' = Queued
    BY <1>4, <1>t, <2>1, SoundIsSent DEF PushOk, PushLost, PushRefused, Queued
  <2>3. ASSUME NEW b \in Bundle \ {f} PROVE Served(b)' => Served(b)
    <3>1. \/ sent' = [sent EXCEPT ![f] = @ + 1] \/ sent' = sent
      BY <1>4, <2>1 DEF PushOk, PushLost, PushRefused, Stored, Redirected
    <3>2. redirected' = redirected \/ redirected' = redirected \cup {f}
      BY <1>4, <2>1 DEF PushOk, PushLost, PushRefused, Redirected
    <3>3. sent'[b] = sent[b]
      BY <1>t, <3>1 DEF TypeOK
    <3> QED BY <3>2, <3>3 DEF Served
  <2>4. CASE PushOk(p)
    <3>1. \A b \in Bundle : told'[b] = told[b] \/ (b = f /\ told'[b] = "submitted")
      BY <1>t, <2>1, <2>4 DEF PushOk, TypeOK
    <3>2. Served(f)'
      BY <1>t, <2>1, <2>4, PushOkServes
    <3> QED BY <1>1, <2>2, <2>3, <3>1, <3>2
  <2>5. CASE PushLost(p) \/ PushRefused(p)
    <3>1. \A b \in Bundle : told'[b] = told[b] \/ (b = f /\ told'[b] = "refused")
      BY <1>t, <2>1, <2>5 DEF PushLost, PushRefused, TypeOK
    <3> QED BY <1>1, <2>2, <2>3, <3>1
  <2> QED BY <1>4, <2>4, <2>5
<1>8. ASSUME NEW p \in Process, RemoveStored(p) PROVE ToldTheTruth'
  <2>1. /\ Queued' = Queued \ {Pushed(p)} /\ told' = told
        /\ \A b : Served(b)' <=> Served(b)
    BY <1>8, <1>t, RemovePlaces DEF RemoveStored, Served
  <2>2. Served(Pushed(p))
    BY <1>8, <1>t, PushedFirst DEF RemoveStored, Delivered
  <2> QED BY <1>t, <2>1, <2>2, ToldIs, ToldIsAfter
<1>9. ASSUME NEW p \in Process, Enqueue(p) PROVE ToldTheTruth'
  <2>1. /\ Queued' = Queued \cup {op[p].file} /\ op[p].file \notin Bad
        /\ \A b : Served(b)' <=> Served(b)
        /\ told' = [told EXCEPT ![op[p].file] = "spooled"]
    BY <1>9, <1>t, EnqueuePlaces, PushedFile DEF Enqueue, Served
  <2>2. \A b \in Bundle :
          told'[b] = told[b] \/ (b = op[p].file /\ told'[b] = "spooled")
    BY <1>t, <2>1 DEF TypeOK
  <2> QED BY <1>t, <2>1, <2>2, ToldIs, ToldIsAfter
<1> QED BY <1>2, <1>3, <1>4, <1>8, <1>9 DEF Next, Advance, Tick, ChangeConsent,
       Submit, Kill, vars

-----------------------------------------------------------------------------
LEMMA SafeInitially == Init => Safe
<1> SUFFICES ASSUME Init PROVE Safe
  OBVIOUS
<1>1. TypeOK /\ Shaped
  BY TypesInitially
<1>2. /\ spool = <<>> /\ Len(spool) = 0 /\ Queued = {}
      /\ \A p \in Process : /\ op[p].items = <<>> /\ op[p].pc = "idle"
                            /\ List(p) = {} /\ Held(p) = {}
  BY EmptyList, NobodyAssumption DEF Init, Idle, Queued, List, Held
<1>3. OnePlace
  BY <1>2, EmptyList DEF OnePlace
<1>4. InOrder
  BY <1>2, EmptyList DEF InOrder
<1>5. Delivered
  BY <1>2 DEF Delivered
<1>6. ToldTheTruth
  BY <1>2, ToldIs DEF Init, Served
<1> QED BY <1>1, <1>3, <1>4, <1>5, <1>6 DEF Safe

LEMMA SafeStep == Safe /\ [Next]_vars => Safe'
<1> SUFFICES ASSUME Safe, [Next]_vars PROVE Safe'
  OBVIOUS
<1>1. (TypeOK /\ Shaped)'
  BY TypesStep DEF Safe
<1>2. OnePlace' /\ InOrder'
  BY PlacesStep DEF Safe
<1>3. Delivered' /\ ToldTheTruth'
  BY <1>1, DeliveredStep, ToldStep DEF Safe
<1> QED BY <1>1, <1>2, <1>3 DEF Safe

(* The state of the queue, of the processes and of the API always has its  *)
(* type.                                                                   *)
THEOREM TypeCorrect == Spec => []TypeOK
<1>1. Safe => TypeOK
  BY DEF Safe
<1> QED BY <1>1, SafeInitially, SafeStep, PTL DEF Spec

(* What the operator was told is so, but for a redirect of that very       *)
(* bundle, for every set of bundles and of processes, whatever fails and   *)
(* whoever is killed, and no bundle that was refused on the box is stored, *)
(* redirected or queued by anyone.                                         *)
THEOREM OperatorIsToldTheTruth == Spec => []ToldTheTruth
<1>1. Safe => ToldTheTruth
  BY DEF Safe
<1> QED BY <1>1, SafeInitially, SafeStep, PTL DEF Spec

(* Every step is a step of the store-and-forward queue over the spool, or  *)
(* leaves queue and deliveries alone, a delivery being a store or a        *)
(* redirect of the bundle itself: no other step of any process, a kill     *)
(* least of all, takes a bundle off the queue.                             *)
THEOREM SpoolIsStoreAndForward == Spec => ImplementsQueue
<1> DEFINE Done == {b \in Bundle : Served(b)}
<1>1. Init => Queue!Init
  BY DEF Init, Queue!Init
<1>2. ASSUME Safe, [Next]_vars PROVE [Queue!Next]_<<spool, Done>>
  <2>t. TypeOK /\ Shaped /\ OnePlace /\ InOrder /\ Delivered
    BY <1>2 DEF Safe
  <2>1. ASSUME UNCHANGED <<spool, sent, redirected>> PROVE [Queue!Next]_<<spool, Done>>
    BY <2>1 DEF Served
  <2>2. ASSUME NEW p \in Process, PushOk(p) \/ PushLost(p)
        PROVE  [Queue!Next]_<<spool, Done>>
    <3>1. PICK f : f = Pushed(p)
      OBVIOUS
    <3>2. f \in Bundle /\ spool' = spool
      BY <2>2, <2>t, <3>1, PushedFirst, PushedFile DEF PushOk, PushLost, Pushing
    <3>3. CASE sent' = [sent EXCEPT ![f] = @ + 1] /\ redirected' = redirected
      <4>1. Done' = Done \cup {f}
        BY <2>t, <3>2, <3>3 DEF Served, TypeOK
      <4> QED BY <3>2, <4>1 DEF Queue!Next, Queue!Deliver
    <3>4. CASE sent' = sent /\ redirected' = redirected \cup {f}
      <4>1. Done' = Done \cup {f}
        BY <3>2, <3>4 DEF Served
      <4> QED BY <3>2, <4>1 DEF Queue!Next, Queue!Deliver
    <3> QED BY <2>1, <2>2, <3>1, <3>2, <3>3, <3>4 DEF PushOk, PushLost, Stored, Redirected
  <2>3. ASSUME NEW p \in Process, RemoveStored(p) PROVE [Queue!Next]_<<spool, Done>>
    <3>1. Pushed(p) \in Bundle /\ Served(Pushed(p))
      BY <2>3, <2>t, PushedFirst DEF RemoveStored, Delivered
    <3>2. Done' = Done
      BY <2>3 DEF RemoveStored, Served
    <3>3. CASE spool' = spool
      BY <3>2, <3>3
    <3>4. CASE spool # <<>> /\ spool[1] = Pushed(p) /\ spool' = Tail(spool)
      <4>1. Head(spool) = Pushed(p)
        BY <3>4, <2>t DEF TypeOK
      <4>2. Queue!Leave
        BY <3>1, <3>2, <3>4, <4>1 DEF Queue!Leave
      <4> QED BY <4>2 DEF Queue!Next
    <3> QED BY <2>3, <2>t, <3>3, <3>4, RemovesHead
  <2>4. ASSUME NEW p \in Process, Enqueue(p) PROVE [Queue!Next]_<<spool, Done>>
    <3>1. op[p].file \in Bundle /\ spool' = Append(spool, op[p].file)
      BY <2>4, <2>t, PushedFile DEF Enqueue
    <3>2. Done' = Done
      BY <2>4 DEF Enqueue, Served
    <3> QED BY <3>1, <3>2 DEF Queue!Next, Queue!Accept
  <2> QED BY <1>2, <2>1, <2>2, <2>3, <2>4 DEF Next, Advance, Tick, ChangeConsent, Submit,
         Check, PushRefused, Kill, vars
<1> QED BY <1>1, <1>2, SafeInitially, SafeStep, PTL DEF Spec, ImplementsQueue, Queue!Spec

-----------------------------------------------------------------------------
(* Counting the copies upstream                                            *)
Own(p, b) == IF p \in AtRemove(b) THEN 1 ELSE 0

LEMMA ProcessFinite == IsFiniteSet(Process) /\ Cardinality(Process) \in Nat
BY ProcessAssumption, FS_AddElement, FS_CardinalityType DEF Process

LEMMA CountsTyped ==
  ASSUME TypeOK, NEW b \in Bundle
  PROVE  /\ Heard(b) \in Int
         /\ AtRemove(b) \subseteq Process /\ Without(b) \subseteq Process
         /\ IsFiniteSet(AtRemove(b)) /\ Cardinality(AtRemove(b)) \in Nat
         /\ IsFiniteSet(Without(b)) /\ Cardinality(Without(b)) \in Nat
<1>1. AtRemove(b) \subseteq Process /\ Without(b) \subseteq Process
  BY DEF AtRemove, Without
<1>2. Heard(b) \in Int
  BY DEF TypeOK, Heard
<1> QED BY <1>1, <1>2, ProcessFinite, FS_Subset, FS_CardinalityType

LEMMA CountsTypedAfter ==
  ASSUME (TypeOK)', NEW b \in Bundle
  PROVE  /\ Heard(b)' \in Int
         /\ AtRemove(b)' \subseteq Process /\ Without(b)' \subseteq Process
         /\ IsFiniteSet(AtRemove(b)') /\ Cardinality(AtRemove(b)') \in Nat
         /\ IsFiniteSet(Without(b)') /\ Cardinality(Without(b)') \in Nat
<1>1. AtRemove(b)' \subseteq Process /\ Without(b)' \subseteq Process
  BY DEF AtRemove, Without
<1>2. Heard(b)' \in Int
  BY DEF TypeOK, Heard
<1> QED BY <1>1, <1>2, ProcessFinite, FS_Subset, FS_CardinalityType

LEMMA AtRemoveMoves ==
  ASSUME TypeOK, (TypeOK)', NEW p \in Process, NEW b \in Bundle,
         \A q \in Process \ {p} : op'[q] = op[q]
  PROVE  /\ Cardinality(AtRemove(b)') - Own(p, b)' = Cardinality(AtRemove(b)) - Own(p, b)
         /\ Own(p, b) \in {0, 1} /\ Own(p, b)' \in {0, 1}
<1>1. AtRemove(b)' \ {p} = AtRemove(b) \ {p}
  BY DEF AtRemove
<1>2. IsFiniteSet(AtRemove(b)') /\ IsFiniteSet(AtRemove(b))
  BY CountsTyped, CountsTypedAfter
<1>3. Cardinality(AtRemove(b)') - Own(p, b)' = Cardinality(AtRemove(b)) - Own(p, b)
  BY <1>1, <1>2, OneMore DEF Own
<1> QED BY <1>3 DEF Own

(* A step pays for the stores it hears of, and makes no room it needs      *)
(* later smaller.                                                          *)
LEMMA PaidBy ==
  ASSUME TypeOK, (TypeOK)', NEW p \in Process, NEW b \in Bundle, Heard(b) <= Room(b),
         \A q \in Process \ {p} : op'[q] = op[q],
         Heard(b)' + Own(p, b) <= Heard(b) + Own(p, b)',
         Placed(b)' => Placed(b),
         ~ Placed(b) => Without(b) \subseteq Without(b)'
  PROVE  Heard(b)' <= Room(b)'
<1>1. /\ Cardinality(AtRemove(b)') - Own(p, b)' = Cardinality(AtRemove(b)) - Own(p, b)
      /\ Own(p, b) \in {0, 1} /\ Own(p, b)' \in {0, 1}
  BY AtRemoveMoves
<1>2. /\ Heard(b) \in Int /\ Heard(b)' \in Int
      /\ Cardinality(AtRemove(b)) \in Nat /\ Cardinality(AtRemove(b)') \in Nat
      /\ Cardinality(Without(b)) \in Nat /\ Cardinality(Without(b)') \in Nat
      /\ IsFiniteSet(Without(b)')
  BY CountsTyped, CountsTypedAfter
<1>3. ~ Placed(b) => Cardinality(Without(b)) <= Cardinality(Without(b)')
  BY <1>2, FS_Subset
<1>4. CASE Placed(b)'
  BY <1>1, <1>2, <1>4 DEF Room
<1>5. CASE Placed(b) /\ ~ Placed(b)'
  BY <1>1, <1>2, <1>5 DEF Room
<1>6. CASE ~ Placed(b) /\ ~ Placed(b)'
  BY <1>1, <1>2, <1>3, <1>6 DEF Room
<1> QED BY <1>4, <1>5, <1>6

(* A bundle in the hands of a command is on no list: nobody has stored it  *)
(* and is about to take it off the queue.                                  *)
LEMMA HeldUncounted ==
  ASSUME Safe, Counted, NEW p \in Process, NEW b \in Held(p)
  PROVE  /\ \A q \in Process : b \notin List(q)
         /\ AtRemove(b) = {} /\ Heard(b) <= 0 /\ Placed(b)
<1>1. \A q \in Process : b \notin List(q)
  BY DEF Safe, OnePlace
<1>2. AtRemove(b) = {}
  <2>1. ASSUME NEW q \in Process, op[q].pc = "remove" PROVE Head(op[q].items) # b
    BY <1>1, <2>1, PushedFirst DEF Safe
  <2> QED BY <2>1 DEF AtRemove
<1>3. Placed(b) /\ b \in Bundle
  BY DEF Placed, Held
<1>4. Heard(b) <= 0
  BY <1>2, <1>3, FS_EmptySet DEF Counted, Paid, Room
<1> QED BY <1>1, <1>2, <1>3, <1>4

(* A step with the list and the file a process has                         *)
LEMMA WorksCounts ==
  ASSUME Safe, (TypeOK)', Counted, NEW p \in Process, NEW k, NEW it, NEW f,
         Works(p, k, it, f), shared' = shared,
         \A b \in Bundle : Heard(b)' + Own(p, b) <= Heard(b) + Own(p, b)',
         \A b \in Bundle : Heard(b)' <= Heard(b) \/ b \in List(p)
  PROVE  Counted'
<1>t. TypeOK
  BY DEF Safe
<1>1. /\ Queued' = Queued /\ todo' = todo
      /\ \A q \in Process : Held(q)' \subseteq Held(q) /\ List(q)' \subseteq List(q)
      /\ \A q \in Process \ {p} : op'[q] = op[q]
  BY WorksPlaces DEF Works
<1>2. \A b \in Bundle : Placed(b)' => Placed(b)
  BY <1>1 DEF Placed
<1>3. \A b \in Bundle : Without(b) \subseteq Without(b)'
  BY <1>1 DEF Without
<1>4. Paid'
  BY <1>t, <1>1, <1>2, <1>3, PaidBy DEF Paid, Counted
<1>5. ASSUME NEW b \in Bundle \ shared, ~ Placed(b)'
      PROVE  Heard(b)' <= 1 /\ \A q \in Process : b \notin List(q)'
  <2>1. CASE Placed(b)
    <3>1. PICK q \in Process : b \in Held(q)
      BY <1>1, <1>5, <2>1 DEF Placed
    <3>2. Heard(b) <= 0 /\ \A x \in Process : b \notin List(x)
      BY <3>1, HeldUncounted
    <3>3. Heard(b) \in Int /\ Heard(b)' \in Int
      BY <1>t, CountsTyped, CountsTypedAfter
    <3> QED BY <1>1, <3>2, <3>3
  <2>2. CASE ~ Placed(b)
    <3>1. Heard(b) <= 1 /\ \A x \in Process : b \notin List(x)
      BY <2>2 DEF Counted, Alone
    <3>2. Heard(b) \in Int /\ Heard(b)' \in Int
      BY <1>t, CountsTyped, CountsTypedAfter
    <3> QED BY <1>1, <3>1, <3>2
  <2> QED BY <2>1, <2>2
<1>6. Alone'
  BY <1>1, <1>5 DEF Alone, Counted
<1> QED BY <1>4, <1>6 DEF Counted

LEMMA OwnIs ==
  ASSUME TypeOK, Shaped, NEW p \in Process, NEW b \in Bundle
  PROVE  /\ op[p].pc # "remove" => Own(p, b) = 0
         /\ op[p].pc = "remove" => Own(p, b) = IF b = Pushed(p) THEN 1 ELSE 0
         /\ op'[p].pc # "remove" => Own(p, b)' = 0
         /\ op'[p].pc = "remove" => Own(p, b)' = IF b = Head(op'[p].items) THEN 1 ELSE 0
<1>1. op[p].pc = "remove" => Pushed(p) = Head(op[p].items)
  BY DEF Pushed
<1> QED BY <1>1 DEF Own, AtRemove

LEMMA HeardAfter ==
  ASSUME TypeOK, NEW f \in Bundle, NEW b \in Bundle, NEW d \in {0, 1}, NEW e \in {0, 1},
         sent' = [sent EXCEPT ![f] = @ + d], unheard' = [unheard EXCEPT ![f] = @ + e]
  PROVE  Heard(b)' = Heard(b) + IF b = f THEN d - e ELSE 0
<1>1. sent[b] \in Nat /\ unheard[b] \in Nat
  BY DEF TypeOK
<1>2. CASE b = f
  <2>1. sent'[b] = sent[b] + d /\ unheard'[b] = unheard[b] + e
    BY <1>2 DEF TypeOK
  <2> QED BY <1>1, <1>2, <2>1 DEF Heard
<1>3. CASE b # f
  <2>1. sent'[b] = sent[b] /\ unheard'[b] = unheard[b]
    BY <1>3 DEF TypeOK
  <2> QED BY <1>1, <1>3, <2>1 DEF Heard
<1> QED BY <1>2, <1>3

(* Nothing new was heard of.                                               *)
LEMMA QuietCounts ==
  ASSUME Safe, (TypeOK)', Counted, NEW p \in Process, NEW k, NEW it, NEW f,
         Works(p, k, it, f), shared' = shared, op[p].pc # "remove",
         \A b \in Bundle : Heard(b)' = Heard(b)
  PROVE  Counted'
<1>t. TypeOK /\ Shaped
  BY DEF Safe
<1>1. ASSUME NEW b \in Bundle
      PROVE  Heard(b)' + Own(p, b) <= Heard(b) + Own(p, b)' /\ Heard(b)' <= Heard(b)
  <2>1. Own(p, b) = 0 /\ Own(p, b)' \in {0, 1}
    BY <1>t, OwnIs DEF Own
  <2>2. Heard(b) \in Int /\ Heard(b)' = Heard(b)
    BY <1>t, CountsTyped
  <2> QED BY <2>1, <2>2
<1> QED BY <1>1, WorksCounts

LEMMA PushLostCounts ==
  ASSUME Safe, (TypeOK)', Counted, NEW p \in Process, PushLost(p)
  PROVE  Counted'
<1>t. TypeOK /\ Shaped
  BY DEF Safe
<1>1. Pushed(p) \in Bundle /\ op[p].pc # "remove" /\ shared' = shared
  BY <1>t, PushedFirst, PushedFile DEF PushLost, Pushing
<1>2. ASSUME NEW b \in Bundle PROVE Heard(b)' = Heard(b)
  <2>1. CASE Stored(p, TRUE)
    <3>1. /\ sent' = [sent EXCEPT ![Pushed(p)] = @ + 1]
          /\ unheard' = [unheard EXCEPT ![Pushed(p)] = @ + 1]
      BY <2>1 DEF Stored
    <3>2. Heard(b)' = Heard(b) + IF b = Pushed(p) THEN 1 - 1 ELSE 0
      BY <1>t, <1>1, <3>1, HeardAfter
    <3> QED BY <1>t, <3>2, CountsTyped
  <2>2. CASE UNCHANGED <<sent, unheard>>
    BY <2>2 DEF Heard
  <2> QED BY <2>1, <2>2 DEF PushLost
<1> QED BY <1>t, <1>1, <1>2, PushLostWorks, QuietCounts

LEMMA KillCounts ==
  ASSUME Safe, (TypeOK)', Counted, NEW p \in Process, Kill(p)
  PROVE  Counted'
<1>t. TypeOK /\ Shaped
  BY DEF Safe
<1>1. Works(p, "idle", <<>>, Nobody) /\ sent' = sent /\ shared' = shared
  BY <1>t, KillWorks DEF Kill
<1>2. CASE op[p].pc # "remove"
  <2>1. \A b \in Bundle : Heard(b)' = Heard(b)
    BY <1>1, <1>2 DEF Kill, Heard
  <2> QED BY <1>1, <1>2, <2>1, QuietCounts
<1>3. CASE op[p].pc = "remove"
  <2>1. Pushed(p) \in Bundle /\ op'[p].pc # "remove"
    BY <1>t, <1>1, <1>3, PushedFirst DEF Works, Becomes
  <2>2. /\ sent' = [sent EXCEPT ![Pushed(p)] = @ + 0]
        /\ unheard' = [unheard EXCEPT ![Pushed(p)] = @ + 1]
    BY <1>1, <1>3, <1>t, <2>1 DEF Kill, TypeOK
  <2>3. ASSUME NEW b \in Bundle
        PROVE  Heard(b)' + Own(p, b) <= Heard(b) + Own(p, b)' /\ Heard(b)' <= Heard(b)
    <3>1. Heard(b)' = Heard(b) + IF b = Pushed(p) THEN 0 - 1 ELSE 0
      BY <1>t, <2>1, <2>2, HeardAfter
    <3>2. Own(p, b) = (IF b = Pushed(p) THEN 1 ELSE 0) /\ Own(p, b)' = 0
      BY <1>t, <1>3, <2>1, OwnIs
    <3>3. Heard(b) \in Int
      BY <1>t, CountsTyped
    <3> QED BY <3>1, <3>2, <3>3
  <2> QED BY <1>1, <2>3, WorksCounts
<1> QED BY <1>2, <1>3

(* A push that is stored, and heard of                                     *)
LEMMA PushStoredCounts ==
  ASSUME Safe, (TypeOK)', Counted, NEW p \in Process, PushOk(p), Stored(p, FALSE)
  PROVE  Counted'
<1>t. TypeOK /\ Shaped /\ OnePlace
  BY DEF Safe
<1>c. PICK c : c = Pushed(p)
  OBVIOUS
<1>1. /\ c \in Bundle /\ op[p].pc # "remove" /\ shared' = shared
      /\ sent' = [sent EXCEPT ![c] = @ + 1]
      /\ unheard' = [unheard EXCEPT ![c] = @ + 0]
  <2>1. /\ Pushing(p) /\ shared' = shared /\ sent' = [sent EXCEPT ![c] = @ + 1]
        /\ unheard' = [unheard EXCEPT ![c] = @]
    BY <1>c DEF PushOk, Stored
  <2>2. c \in Bundle /\ op[p].pc # "remove"
    BY <1>c, <1>t, <2>1, PushedFirst, PushedFile DEF Pushing
  <2>3. unheard' = [unheard EXCEPT ![c] = @ + 0]
    <3>1. unheard \in [Bundle -> Nat]
      BY <1>t DEF TypeOK
    <3>2. unheard[c] \in Nat
      BY <2>2, <3>1
    <3>3. unheard[c] + 0 = unheard[c]
      BY <3>2
    <3> QED BY <2>1, <3>3
  <2> QED BY <2>1, <2>2, <2>3
<1>2. ASSUME NEW b \in Bundle
      PROVE  /\ Heard(b)' = Heard(b) + IF b = c THEN 1 ELSE 0
             /\ Heard(b) \in Int /\ Own(p, b) = 0 /\ Own(p, b)' \in {0, 1}
  <2>1. Heard(b)' = Heard(b) + IF b = c THEN 1 - 0 ELSE 0
    BY <1>t, <1>1, HeardAfter
  <2>2. Own(p, b) = 0 /\ Own(p, b)' \in {0, 1}
    BY <1>t, <1>1, OwnIs DEF Own
  <2> QED BY <1>t, <2>1, <2>2, CountsTyped
<1>3. CASE op[p].pc = "drain" /\ Works(p, "remove", op[p].items, op[p].file)
  <2>1. op'[p].pc = "remove" /\ Head(op'[p].items) = c /\ c \in List(p)
    BY <1>c, <1>t, <1>3, PushedFirst DEF Works, Becomes
  <2>2. ASSUME NEW b \in Bundle
        PROVE  /\ Heard(b)' + Own(p, b) <= Heard(b) + Own(p, b)'
               /\ Heard(b)' <= Heard(b) \/ b \in List(p)
    <3>1. Own(p, b)' = IF b = c THEN 1 ELSE 0
      BY <1>t, <2>1, OwnIs
    <3> QED BY <1>2, <2>1, <3>1
  <2> QED BY <1>1, <1>3, <2>2, WorksCounts
<1>4. CASE op[p].pc = "push" /\ Works(p, "idle", <<>>, Nobody)
  (* the only copy, sent by the command that holds it *)
  <2>1. Held(p) = {c}
    BY <1>c, <1>t, <1>4, PushedFile
  <2>2. \A q \in Process : c \notin List(q)
    BY <2>1, HeldUncounted
  <2>3. Heard(c) <= 0 /\ Heard(c)' <= 1
    BY <1>1, <1>2, <2>1, HeldUncounted
  <2>4. /\ Queued' = Queued /\ todo' = todo /\ Held(p)' = {} /\ List(p)' = {}
        /\ \A q \in Process \ {p} : op'[q] = op[q] /\ Held(q)' = Held(q)
                                   /\ List(q)' = List(q)
    BY <1>4, WorksPlaces, OwnAfter, OthersKept, EmptyList, NobodyAssumption DEF Works
  <2>5. ~ Placed(c)'
    BY <1>t, <2>1, <2>4 DEF Placed, OnePlace
  <2>6. \A b \in Bundle : /\ Placed(b)' => Placed(b)
                          /\ b # c => (Placed(b)' <=> Placed(b))
    BY <2>1, <2>4 DEF Placed
  <2>7. \A q \in Process : List(q)' \subseteq List(q)
    BY <2>4
  <2>8. Heard(c)' <= Room(c)'
    <3>1. Without(c)' = Process
      BY <2>2, <2>7 DEF Without
    <3>2. Cardinality({p}) = 1 /\ Cardinality({p}) <= Cardinality(Process)
      BY ProcessFinite, FS_Singleton, FS_Subset
    <3>3. Cardinality(AtRemove(c)') \in Nat /\ Cardinality(Process) \in Nat
          /\ Heard(c)' \in Int
      BY <1>1, CountsTypedAfter, ProcessFinite
    <3> QED BY <2>3, <2>5, <3>1, <3>2, <3>3 DEF Room
  <2>9. ASSUME NEW b \in Bundle \ {c} PROVE Heard(b)' <= Room(b)'
    <3>1. Heard(b)' + Own(p, b) <= Heard(b) + Own(p, b)'
      BY <1>2
    <3>2. Without(b) \subseteq Without(b)'
      BY <2>7 DEF Without
    <3> QED BY <1>t, <2>4, <2>6, <3>1, <3>2, PaidBy DEF Counted, Paid
  <2>10. ASSUME NEW b \in Bundle \ shared
         PROVE  /\ \A x, y \in Process : b \in List(x)' /\ b \in List(y)' => x = y
                /\ ~ Placed(b)' => Heard(b)' <= 1 /\ \A q \in Process : b \notin List(q)'
    <3>1. CASE b = c
      BY <2>2, <2>3, <2>7, <3>1
    <3>2. CASE b # c
      BY <1>2, <2>6, <2>7, <3>2 DEF Counted, Alone
    <3> QED BY <3>1, <3>2
  <2>11. Alone'
    BY <1>1, <2>10 DEF Alone
  <2> QED BY <2>8, <2>9, <2>11 DEF Counted, Paid
<1> QED BY <1>t, <1>3, <1>4, PushOkWorks

LEMMA PushOkCounts ==
  ASSUME Safe, (TypeOK)', Counted, NEW p \in Process, PushOk(p)
  PROVE  Counted'
<1>1. CASE Stored(p, FALSE)
  BY <1>1, PushStoredCounts
<1>2. CASE Redirected(p)
  <2>1. TypeOK /\ Shaped /\ op[p].pc # "remove" /\ shared' = shared
    BY DEF Safe, PushOk, Pushing
  <2>2. \A b \in Bundle : Heard(b)' = Heard(b)
    BY <1>2 DEF Redirected, Heard
  <2> QED BY <2>1, <2>2, PushOkWorks, QuietCounts
<1> QED BY <1>1, <1>2 DEF PushOk

LEMMA ReadsCounts ==
  ASSUME Safe, (TypeOK)', Counted, NEW p \in Process, NEW k, NEW f, Reads(p, k, f)
  PROVE  Counted'
<1>t. TypeOK /\ Shaped
  BY DEF Safe
<1>1. /\ Queued' = Queued /\ List(p)' = Queued /\ Held(p)' = todo \ todo'
      /\ Held(p) = {} /\ List(p) = {} /\ todo' \subseteq todo
      /\ \A q \in Process \ {p} : op'[q] = op[q] /\ Held(q)' = Held(q)
                                 /\ List(q)' = List(q)
  BY <1>t, ReadsPlaces
<1>2. \A b \in Bundle : Placed(b)' <=> Placed(b)
  BY <1>1 DEF Placed
<1>3. ASSUME NEW b \in Bundle, ~ Placed(b) PROVE Without(b) \subseteq Without(b)'
  BY <1>1, <1>3 DEF Without, Placed
<1>4. ASSUME NEW b \in Bundle
      PROVE  Heard(b)' = Heard(b) /\ Heard(b)' + Own(p, b) <= Heard(b) + Own(p, b)'
  <2>1. op[p].pc # "remove"
    BY DEF Reads
  <2>2. Own(p, b) = 0 /\ Own(p, b)' \in {0, 1}
    BY <1>t, <2>1, OwnIs DEF Own
  <2>3. Heard(b)' = Heard(b) /\ Heard(b) \in Int
    BY <1>t, CountsTyped DEF Reads, Heard
  <2> QED BY <2>2, <2>3
<1>5. Paid'
  BY <1>t, <1>1, <1>2, <1>3, <1>4, PaidBy DEF Counted, Paid
<1>6. ASSUME NEW b \in Bundle, b \notin shared'
      PROVE  /\ b \notin shared
             /\ b \in Queued => \A q \in Process \ {p} : b \notin List(q)
  BY <1>6 DEF Reads, ReadsQueue, Contains, Queued, List, Elems
<1>7. ASSUME NEW b \in Bundle, b \notin shared'
      PROVE  /\ \A x, y \in Process : b \in List(x)' /\ b \in List(y)' => x = y
             /\ ~ Placed(b)' => Heard(b)' <= 1 /\ \A q \in Process : b \notin List(q)'
  <2>1. b \in Bundle \ shared
    BY <1>6, <1>7
  <2>2. CASE b \in Queued
    <3>1. \A q \in Process \ {p} : b \notin List(q)'
      BY <1>1, <1>6, <1>7, <2>2
    <3>2. Placed(b)'
      BY <1>1, <2>2 DEF Placed
    <3> QED BY <3>1, <3>2
  <2>3. CASE b \notin Queued
    <3>1. \A q \in Process : List(q)' \cap {b} = List(q) \cap {b}
      BY <1>1, <2>3
    <3> QED BY <1>2, <1>4, <2>1, <3>1 DEF Counted, Alone
  <2> QED BY <2>2, <2>3
<1>8. Alone'
  BY <1>7 DEF Alone
<1> QED BY <1>5, <1>8 DEF Counted

LEMMA RemoveStoredCounts ==
  ASSUME Safe, (TypeOK)', Counted, NEW p \in Process, RemoveStored(p)
  PROVE  Counted'
<1>t. TypeOK /\ Shaped /\ OnePlace /\ InOrder
  BY DEF Safe
<1>c. PICK c : c = Pushed(p)
  OBVIOUS
<1>1. /\ Queued' = Queued \ {c} /\ List(p)' = List(p) \ {c} /\ Held(p)' = Held(p)
      /\ \A q \in Process \ {p} : op'[q] = op[q] /\ Held(q)' = Held(q)
                                 /\ List(q)' = List(q)
  BY <1>c, <1>t, RemovePlaces
<1>2. /\ op[p].pc = "remove" /\ op'[p].pc # "remove" /\ shared' = shared /\ todo' = todo
      /\ sent' = sent /\ unheard' = unheard
  BY <1>t, ContinueBecomes DEF RemoveStored, Becomes
<1>3. c \in Bundle /\ c \in List(p)
  BY <1>c, <1>t, <1>2, PushedFirst
<1>4. /\ ~ Placed(c)' /\ \A b \in Bundle \ {c} : Placed(b)' <=> Placed(b)
      /\ \A b \in Bundle : Placed(b)' => Placed(b)
  <2>1. c \notin todo /\ \A q \in Process : c \notin Held(q) /\ Held(q)' = Held(q)
    BY <1>t, <1>1, <1>3 DEF OnePlace
  <2> QED BY <1>1, <1>2, <2>1 DEF Placed
<1>5. ASSUME NEW b \in Bundle
      PROVE  /\ Heard(b)' = Heard(b) /\ Heard(b) \in Int
             /\ Own(p, b) = (IF b = c THEN 1 ELSE 0) /\ Own(p, b)' = 0
             /\ Without(b) \subseteq Without(b)'
  <2>1. Own(p, b) = (IF b = c THEN 1 ELSE 0) /\ Own(p, b)' = 0
    BY <1>c, <1>t, <1>2, OwnIs
  <2>2. Heard(b)' = Heard(b) /\ Heard(b) \in Int
    BY <1>t, <1>2, CountsTyped DEF Heard
  <2>3. Without(b) \subseteq Without(b)'
    BY <1>1 DEF Without
  <2> QED BY <2>1, <2>2, <2>3
<1>6. ASSUME NEW b \in Bundle \ {c} PROVE Heard(b)' <= Room(b)'
  <2>1. Heard(b)' + Own(p, b) <= Heard(b) + Own(p, b)'
    BY <1>5
  <2> QED BY <1>t, <1>1, <1>4, <1>5, <2>1, PaidBy DEF Counted, Paid
<1>7. Heard(c)' <= Room(c)'
  <2>1. p \notin Without(c) /\ p \in Without(c)' /\ Without(c) \subseteq Without(c)'
    BY <1>1, <1>3, <1>5 DEF Without
  <2>2. /\ IsFiniteSet(Without(c)) /\ IsFiniteSet(Without(c)')
        /\ Cardinality(Without(c)) \in Nat /\ Cardinality(Without(c)') \in Nat
        /\ Cardinality(AtRemove(c)) \in Nat /\ Cardinality(AtRemove(c)') \in Nat
    BY <1>t, <1>3, CountsTyped, CountsTypedAfter
  <2>3. Cardinality(Without(c)) + 1 <= Cardinality(Without(c)')
    <3>1. Cardinality(Without(c) \cup {p}) = Cardinality(Without(c)) + 1
      BY <2>1, <2>2, FS_AddElement
    <3>2. Without(c) \cup {p} \subseteq Without(c)'
      BY <2>1
    <3>3. Cardinality(Without(c) \cup {p}) <= Cardinality(Without(c)')
      BY <2>2, <3>2, FS_Subset
    <3> QED BY <3>1, <3>3
  <2>4. Cardinality(AtRemove(c)') = Cardinality(AtRemove(c)) - 1
    <3>1. Cardinality(AtRemove(c)') - Own(p, c)' = Cardinality(AtRemove(c)) - Own(p, c)
      BY <1>t, <1>1, <1>3, AtRemoveMoves
    <3> QED BY <1>3, <1>5, <2>2, <3>1
  <2>5. Heard(c) <= Room(c)
    BY <1>3 DEF Counted, Paid
  <2> QED BY <1>3, <1>4, <1>5, <2>2, <2>3, <2>4, <2>5 DEF Room
<1>8. ASSUME NEW b \in Bundle \ shared
      PROVE  /\ \A x, y \in Process : b \in List(x)' /\ b \in List(y)' => x = y
             /\ ~ Placed(b)' => Heard(b)' <= 1 /\ \A q \in Process : b \notin List(q)'
  <2>0. \A q \in Process : List(q)' \subseteq List(q)
    BY <1>1
  <2>1. CASE b = c
    <3>1. \A q \in Process : b \in List(q) => q = p
      BY <1>3, <2>1 DEF Counted, Alone
    <3>2. \A q \in Process : b \notin List(q)'
      BY <1>1, <2>0, <2>1, <3>1
    <3>3. Placed(b)
      BY <1>3, <2>1 DEF Counted, Alone
    <3>4. AtRemove(b) \subseteq {p}
      BY <1>t, <3>1, PushedFirst DEF AtRemove
    <3>5. Cardinality(AtRemove(b)) <= 1
      <4>1. IsFiniteSet({p}) /\ Cardinality({p}) = 1
        BY FS_Singleton
      <4> QED BY <3>4, <4>1, FS_Subset
    <3>6. Heard(b) <= Cardinality(AtRemove(b)) /\ Cardinality(AtRemove(b)) \in Nat
      <4>1. Heard(b) <= Room(b) /\ Cardinality(AtRemove(b)) \in Nat
        BY <1>t, CountsTyped DEF Counted, Paid
      <4> QED BY <3>3, <4>1 DEF Room
    <3> QED BY <1>5, <3>2, <3>5, <3>6
  <2>2. CASE b # c
    BY <1>4, <1>5, <2>0, <2>2 DEF Counted, Alone
  <2> QED BY <2>1, <2>2
<1>9. Alone'
  BY <1>2, <1>8 DEF Alone
<1> QED BY <1>6, <1>7, <1>9 DEF Counted, Paid

LEMMA EnqueueCounts ==
  ASSUME Safe, (TypeOK)', Counted, NEW p \in Process, Enqueue(p)
  PROVE  Counted'
<1>t. TypeOK /\ Shaped /\ OnePlace
  BY DEF Safe
<1>1. /\ Queued' = Queued \cup {op[p].file} /\ Held(p) = {op[p].file} /\ Held(p)' = {}
      /\ List(p)' = {} /\ List(p) = {} /\ todo' = todo /\ shared' = shared
      /\ \A q \in Process \ {p} : op'[q] = op[q] /\ Held(q)' = Held(q)
                                 /\ List(q)' = List(q)
  BY <1>t, EnqueuePlaces DEF Enqueue
<1>2. \A b \in Bundle : Placed(b)' <=> Placed(b)
  BY <1>1 DEF Placed
<1>3. \A b \in Bundle : Without(b) \subseteq Without(b)'
  BY <1>1 DEF Without
<1>4. ASSUME NEW b \in Bundle
      PROVE  Heard(b)' = Heard(b) /\ Heard(b)' + Own(p, b) <= Heard(b) + Own(p, b)'
  <2>1. op[p].pc # "remove"
    BY DEF Enqueue
  <2>2. Own(p, b) = 0 /\ Own(p, b)' \in {0, 1}
    BY <1>t, <2>1, OwnIs DEF Own
  <2>3. Heard(b)' = Heard(b) /\ Heard(b) \in Int
    BY <1>t, CountsTyped DEF Enqueue, Heard
  <2> QED BY <2>2, <2>3
<1>5. Paid'
  BY <1>t, <1>1, <1>2, <1>3, <1>4, PaidBy DEF Counted, Paid
<1>6. \A q \in Process : List(q)' = List(q)
  BY <1>1
<1>7. Alone'
  BY <1>1, <1>2, <1>4, <1>6 DEF Counted, Alone
<1> QED BY <1>5, <1>7 DEF Counted

LEMMA CountsStep == Safe /\ (TypeOK)' /\ Counted /\ [Next]_vars => Counted'
<1> SUFFICES ASSUME Safe, (TypeOK)', Counted, [Next]_vars PROVE Counted'
  OBVIOUS
<1>t. TypeOK /\ Shaped
  BY DEF Safe
<1>1. CASE UNCHANGED vars \/ ChangeConsent
  <2>1. UNCHANGED <<op, todo, spool, sent, unheard, shared>>
    BY <1>1 DEF vars, ChangeConsent
  <2>2. /\ \A q \in Process : Held(q)' = Held(q) /\ List(q)' = List(q)
        /\ Queued' = Queued
    BY <2>1 DEF Held, List, Queued
  <2>3. \A b \in Bundle : /\ Heard(b)' = Heard(b) /\ Room(b)' = Room(b)
                          /\ Placed(b)' <=> Placed(b)
    BY <2>1, <2>2 DEF Heard, Room, AtRemove, Without, Placed
  <2> QED BY <2>1, <2>2, <2>3 DEF Counted, Paid, Alone
<1>2. ASSUME NEW p \in Process, NEW k, NEW it, NEW f, Works(p, k, it, f),
             Check(p) \/ PushRefused(p)
      PROVE  Counted'
  <2>1. op[p].pc # "remove" /\ shared' = shared /\ UNCHANGED <<sent, unheard>>
    BY <1>2 DEF Check, PushRefused, Pushing
  <2>2. \A b \in Bundle : Heard(b)' = Heard(b)
    BY <2>1 DEF Heard
  <2> QED BY <1>2, <2>1, <2>2, QuietCounts
<1>3. ASSUME NEW p \in Process, PushOk(p) \/ PushLost(p) \/ Kill(p) PROVE Counted'
  BY <1>t, <1>3, PushOkCounts, PushLostCounts, KillCounts
<1>4. ASSUME NEW p \in Process, NEW k, NEW f, Reads(p, k, f) PROVE Counted'
  BY <1>4, ReadsCounts
<1>5. ASSUME NEW p \in Process, RemoveStored(p) \/ Enqueue(p) PROVE Counted'
  BY <1>5, RemoveStoredCounts, EnqueueCounts
<1>7. CASE Tick \/ \E p \in Command : Submit(p)
  <2>1. \E p \in Process : \E k, f : Reads(p, k, f)
    BY <1>t, <1>7, ReadsSteps
  <2> QED BY <1>4, <2>1
<1>8. ASSUME NEW p \in Process, Check(p) \/ PushRefused(p) PROVE Counted'
  BY <1>t, <1>2, <1>8, CheckWorks, PushRefusedWorks
<1> QED BY <1>1, <1>3, <1>5, <1>7, <1>8 DEF Next, Advance

(* A bundle is stored once, once more for every answer that was lost and   *)
(* every process killed before it could take the bundle off the queue, and *)
(* at most once per process if two drained the queue at one time: for any  *)
(* number of processes.                                                    *)
THEOREM StoredOnceEach == Spec => []StoredOnce
<1>1. Init => IInv
  <2> SUFFICES ASSUME Init PROVE IInv
    OBVIOUS
  <2>1. Safe /\ TypeOK
    BY SafeInitially DEF Safe
  <2>2. ASSUME NEW b \in Bundle PROVE Heard(b) = 0 /\ Placed(b)
    BY <2>2 DEF Init, Heard, Placed
  <2>3. ASSUME NEW b \in Bundle PROVE Heard(b) <= Room(b)
    BY <2>1, <2>2, CountsTyped DEF Room
  <2>4. \A p \in Process : List(p) = {}
    BY EmptyList DEF Init, Idle, List
  <2> QED BY <2>1, <2>2, <2>3, <2>4 DEF IInv, Counted, Paid, Alone
<1>2. IInv /\ [Next]_vars => IInv'
  <2> SUFFICES ASSUME IInv, [Next]_vars PROVE IInv'
    OBVIOUS
  <2>1. Safe' /\ (TypeOK)'
    BY SafeStep DEF IInv, Safe
  <2> QED BY <2>1, CountsStep DEF IInv
<1>3. ASSUME IInv PROVE StoredOnce
  <2>t. TypeOK /\ Shaped /\ Counted
    BY <1>3 DEF IInv, Safe
  <2>1. ASSUME NEW b \in Bundle
        PROVE  sent[b] <= 1 + unheard[b] +
                 (IF b \in shared THEN Cardinality(Process) - 1 ELSE 0)
    <3>1. /\ Heard(b) <= Room(b) /\ sent[b] \in Nat /\ unheard[b] \in Nat
          /\ IsFiniteSet(AtRemove(b)) /\ Cardinality(AtRemove(b)) \in Nat
          /\ IsFiniteSet(Without(b)) /\ Cardinality(Without(b)) \in Nat
          /\ AtRemove(b) \subseteq Process /\ Without(b) \subseteq Process
      BY <2>t, CountsTyped DEF Counted, Paid, TypeOK
    <3>2. \A q \in AtRemove(b) : q \in Process /\ b \in List(q)
      BY <2>t, PushedFirst DEF AtRemove
    <3>3. CASE b \in shared
      <4>1. Cardinality(AtRemove(b)) <= Cardinality(Process)
        BY <3>1, ProcessFinite, FS_Subset
      <4>2. AtRemove(b) \cap Without(b) = {}
        BY <3>2 DEF Without
      <4>3. Cardinality(AtRemove(b) \cup Without(b))
              = Cardinality(AtRemove(b)) + Cardinality(Without(b))
        BY <3>1, <4>2, FS_Union, FS_EmptySet
      <4>4. Cardinality(AtRemove(b) \cup Without(b)) <= Cardinality(Process)
        BY <3>1, ProcessFinite, FS_Subset
      <4>5. Heard(b) <= Cardinality(Process)
        BY <3>1, <4>1, <4>3, <4>4, ProcessFinite, <2>t, CountsTyped DEF Room
      <4> QED BY <3>1, <3>3, <4>5, ProcessFinite DEF Heard
    <3>4. CASE b \notin shared
      <4>1. Heard(b) <= 1
        <5>1. CASE ~ Placed(b)
          BY <2>t, <3>4, <5>1 DEF Counted, Alone
        <5>2. CASE Placed(b)
          <6>1. \A x, y \in AtRemove(b) : x = y
            BY <2>t, <3>2, <3>4 DEF Counted, Alone
          <6>2. Cardinality(AtRemove(b)) <= 1
            <7>1. CASE AtRemove(b) = {}
              BY <7>1, FS_EmptySet
            <7>2. CASE \E x : x \in AtRemove(b)
              <8>1. PICK x : x \in AtRemove(b)
                BY <7>2
              <8>2. AtRemove(b) = {x}
                BY <6>1, <8>1
              <8> QED BY <8>2, FS_Singleton
            <7> QED BY <7>1, <7>2
          <6> QED BY <2>t, <3>1, <5>2, <6>2, CountsTyped DEF Room
        <5> QED BY <5>1, <5>2
      <4> QED BY <3>1, <3>4, <4>1 DEF Heard
    <3> QED BY <3>3, <3>4
  <2> QED BY <2>1 DEF StoredOnce
<1> QED BY <1>1, <1>2, <1>3, PTL DEF Spec
=============================================================================
