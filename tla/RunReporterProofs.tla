------------------------- MODULE RunReporterProofs -------------------------
(***************************************************************************)
(* Proofs about RunReporter for every set of reports, any number of        *)
(* processes over the spool file and any number of batches.  The inductive *)
(* invariant is layered: Core carries the types and says where the only    *)
(* copy of a report is; Delivered and InOrder rest on it and give the      *)
(* store-and-forward queue; Layered and Paid count the batches upstream.   *)
(***************************************************************************)
EXTENDS RunReporter, FiniteSetTheorems, SequenceTheorems, TLAPS

(* The queue is a table whose rows are deleted by identity while several   *)
(* processes work through lists read from it earlier (spool.py).           *)
Elems(s) == {s[i] : i \in 1 .. Len(s)}
Unique(s) == \A i, j \in 1 .. Len(s) : s[i] = s[j] => i = j

(* A list read from a table earlier is, after its first k elements that    *)
(* have left the table, the head of the table.                             *)
Behind(it, s, k) ==
  /\ \A i \in 1 .. k : it[i] \notin Elems(s)
  /\ Len(it) - k <= Len(s)
  /\ \A i \in k + 1 .. Len(it) : it[i] = s[i - k]
Follows(it, s) == \E k \in 0 .. Len(it) : Behind(it, s, k)

-----------------------------------------------------------------------------
(* Deleting the row at the head of a table leaves the rows behind it;      *)
(* deleting a row that is not there leaves the table.                      *)
LEMMA RemoveFirstHead ==
  ASSUME NEW S, NEW s \in Seq(S), s # <<>>
  PROVE  RemoveFirst(s, s[1]) = Tail(s)
<1> DEFINE I == {i \in 1 .. Len(s) : s[i] = s[1]}
<1>1. 1 \in 1 .. Len(s)
  OBVIOUS
<1>2. 1 \in I /\ \A i \in I : 1 <= i
  BY <1>1
<1>3. Min(I) = 1
  <2>1. \A x \in I : (\A y \in I : x <= y) => x = 1
    BY <1>2
  <2> QED BY <1>2, <2>1 DEF Min
<1>4. SelectInSeq(s, LAMBDA v : v = s[1]) = 1
  BY <1>2, <1>3 DEF SelectInSeq
<1>5. RemoveFirst(s, s[1]) = RemoveAt(s, 1)
  BY <1>1, <1>4 DEF RemoveFirst
<1>6. RemoveAt(s, 1) = Tail(s)
  BY <1>1 DEF RemoveAt
<1> QED BY <1>5, <1>6

LEMMA RemoveFirstAbsent ==
  ASSUME NEW s, NEW e, \A i \in 1 .. Len(s) : s[i] # e
  PROVE  RemoveFirst(s, e) = s
BY DEF RemoveFirst

LEMMA TailNotEmpty ==
  ASSUME NEW S, NEW s \in Seq(S), s # <<>>, Len(s) # 1
  PROVE  Len(s) > 1 /\ Tail(s) \in Seq(S) /\ Tail(s) # <<>>
<1> DEFINE n == Len(s)
           m == Len(Tail(s))
<1>1. n \in Nat /\ n # 0 /\ n # 1
  OBVIOUS
<1>2. m = n - 1
  BY HeadTailProperties
<1>3. Tail(s) \in Seq(S) /\ Len(<<>>) = 0
  BY EmptySeq
<1> HIDE DEF n, m
<1>4. n > 1 /\ m # 0
  BY <1>1, <1>2
<1>5. Tail(s) # <<>>
  BY <1>3, <1>4 DEF m
<1> QED BY <1>3, <1>4, <1>5 DEF n

(* Appending a new element, taking the head off a sequence without         *)
(* repetition: what is in it, and that nothing repeats.                    *)
LEMMA AppendElems ==
  ASSUME NEW S, NEW s \in Seq(S), NEW e \in S
  PROVE  /\ Elems(Append(s, e)) = Elems(s) \cup {e}
         /\ Unique(s) /\ e \notin Elems(s) => Unique(Append(s, e))
<1>1. /\ Len(s) \in Nat /\ Len(Append(s, e)) = Len(s) + 1
      /\ \A i \in 1 .. Len(s) : Append(s, e)[i] = s[i]
      /\ Append(s, e)[Len(s) + 1] = e
  BY AppendProperties, LenProperties
<1> QED BY <1>1 DEF Elems, Unique

LEMMA TailElems ==
  ASSUME NEW S, NEW s \in Seq(S), s # <<>>, Unique(s)
  PROVE  Elems(Tail(s)) = Elems(s) \ {s[1]} /\ Unique(Tail(s))
<1>1. /\ Len(s) \in Nat /\ Len(Tail(s)) = Len(s) - 1
      /\ \A i \in 1 .. Len(s) - 1 : Tail(s)[i] = s[i + 1]
  BY HeadTailProperties, LenProperties
<1>2. 1 \in 1 .. Len(s)
  BY EmptySeq
<1>3. \A i \in 1 .. Len(Tail(s)) : Tail(s)[i] \in Elems(s) \ {s[1]}
  BY <1>1, <1>2 DEF Elems, Unique
<1>4. ASSUME NEW i \in 1 .. Len(s), s[i] # s[1] PROVE s[i] \in Elems(Tail(s))
  <2>1. i - 1 \in 1 .. Len(Tail(s)) /\ Tail(s)[i - 1] = s[i]
    BY <1>1, <1>4
  <2> QED BY <2>1 DEF Elems
<1>5. Elems(Tail(s)) = Elems(s) \ {s[1]}
  BY <1>3, <1>4 DEF Elems
<1>6. Unique(Tail(s))
  BY <1>1 DEF Unique
<1> QED BY <1>5, <1>6

-----------------------------------------------------------------------------
(* A list keeps following the table it was read from.                      *)
LEMMA FollowsItself ==
  ASSUME NEW S, NEW s \in Seq(S)
  PROVE  Follows(s, s)
<1>1. Len(s) \in Nat
  BY LenProperties
<1>2. Behind(s, s, 0) /\ 0 \in 0 .. Len(s)
  BY <1>1 DEF Behind
<1> QED BY <1>2 DEF Follows

(* Something new is added at the end of the table.                         *)
LEMMA FollowsAppended ==
  ASSUME NEW S, NEW it \in Seq(S), NEW s \in Seq(S), NEW e \in S,
         Follows(it, s), e \notin Elems(it)
  PROVE  Follows(it, Append(s, e))
<1>1. /\ Len(s) \in Nat /\ Len(it) \in Nat /\ Len(Append(s, e)) = Len(s) + 1
      /\ \A i \in 1 .. Len(s) : Append(s, e)[i] = s[i]
      /\ Elems(Append(s, e)) = Elems(s) \cup {e}
  BY AppendProperties, LenProperties, AppendElems
<1>2. PICK k \in 0 .. Len(it) : Behind(it, s, k)
  BY DEF Follows
<1>3. Len(it) - k <= Len(s) /\ Len(it) - k <= Len(Append(s, e))
  BY <1>1, <1>2 DEF Behind
<1>4. \A i \in 1 .. k : it[i] \notin Elems(Append(s, e))
  BY <1>1, <1>2 DEF Behind, Elems
<1>5. \A i \in k + 1 .. Len(it) : it[i] = Append(s, e)[i - k]
  <2>1. ASSUME NEW i \in k + 1 .. Len(it) PROVE i - k \in 1 .. Len(s)
    BY <1>1, <1>2, <1>3
  <2> QED BY <1>1, <1>2, <2>1 DEF Behind
<1>6. Behind(it, Append(s, e), k)
  BY <1>3, <1>4, <1>5 DEF Behind
<1> QED BY <1>2, <1>6 DEF Follows

(* Another list takes the head off the table.                              *)
LEMMA FollowsTail ==
  ASSUME NEW S, NEW it \in Seq(S), NEW s \in Seq(S), s # <<>>, Unique(s), Follows(it, s)
  PROVE  Follows(it, Tail(s))
<1>1. /\ Len(it) \in Nat /\ Len(s) \in Nat /\ Len(Tail(s)) = Len(s) - 1 /\ Len(s) >= 1
      /\ \A i \in 1 .. Len(s) - 1 : Tail(s)[i] = s[i + 1]
      /\ Elems(Tail(s)) = Elems(s) \ {s[1]}
  BY HeadTailProperties, LenProperties, EmptySeq, TailElems
<1>2. PICK k \in 0 .. Len(it) : Behind(it, s, k)
  BY DEF Follows
<1>3. CASE k = Len(it)
  <2>1. Behind(it, Tail(s), k)
    BY <1>1, <1>2, <1>3 DEF Behind
  <2> QED BY <2>1 DEF Follows
<1>4. CASE k < Len(it)
  <2>1. it[k + 1] = s[1]
    BY <1>1, <1>2, <1>4 DEF Behind
  <2>2. k \in Nat /\ k + 1 \in 0 .. Len(it)
    BY <1>1, <1>2, <1>4
  <2>3. \A i \in 1 .. k + 1 : it[i] \notin Elems(Tail(s))
    BY <1>1, <1>2, <2>1, <2>2 DEF Behind
  <2>4. Len(it) - (k + 1) <= Len(Tail(s))
    BY <1>1, <1>2, <2>2 DEF Behind
  <2>5. \A i \in (k + 1) + 1 .. Len(it) : it[i] = Tail(s)[i - (k + 1)]
    <3>1. ASSUME NEW i \in (k + 1) + 1 .. Len(it)
          PROVE  /\ i \in k + 1 .. Len(it) /\ i - (k + 1) \in 1 .. Len(s) - 1
                 /\ (i - (k + 1)) + 1 = i - k
      BY <1>1, <2>2, <2>4
    <3> QED BY <1>1, <1>2, <3>1 DEF Behind
  <2>6. Behind(it, Tail(s), k + 1)
    BY <2>3, <2>4, <2>5 DEF Behind
  <2> QED BY <2>2, <2>6 DEF Follows
<1> QED BY <1>1, <1>2, <1>3, <1>4

(* The head of the list is deleted from the table, where it is the head or *)
(* is not any more; the rest of the list follows what is left.             *)
LEMMA FollowsRemoved ==
  ASSUME NEW S, NEW it \in Seq(S), NEW s \in Seq(S), it # <<>>, Follows(it, s)
  PROVE  /\ it[1] \notin Elems(s) => RemoveFirst(s, it[1]) = s
         /\ it[1] \in Elems(s) =>
              s # <<>> /\ s[1] = it[1] /\ RemoveFirst(s, it[1]) = Tail(s)
         /\ Follows(Tail(it), RemoveFirst(s, it[1]))
<1>1. /\ Len(it) \in Nat /\ Len(s) \in Nat /\ Len(Tail(it)) = Len(it) - 1 /\ Len(it) >= 1
      /\ \A i \in 1 .. Len(it) - 1 : Tail(it)[i] = it[i + 1]
  BY HeadTailProperties, LenProperties, EmptySeq
<1>2. PICK k \in 0 .. Len(it) : Behind(it, s, k)
  BY DEF Follows
<1>3. CASE it[1] \notin Elems(s)
  <2>1. RemoveFirst(s, it[1]) = s
    BY <1>3, RemoveFirstAbsent DEF Elems
  <2>2. k # 0
    BY <1>1, <1>2, <1>3 DEF Behind, Elems
  <2>3. k - 1 \in 0 .. Len(Tail(it)) /\ Len(Tail(it)) - (k - 1) <= Len(s)
    BY <1>1, <1>2, <2>2 DEF Behind
  <2>4. \A i \in 1 .. k - 1 : Tail(it)[i] \notin Elems(s)
    BY <1>1, <1>2, <2>2 DEF Behind
  <2>5. \A i \in (k - 1) + 1 .. Len(Tail(it)) : Tail(it)[i] = s[i - (k - 1)]
    <3>1. ASSUME NEW i \in (k - 1) + 1 .. Len(Tail(it))
          PROVE  /\ i \in 1 .. Len(it) - 1 /\ i + 1 \in k + 1 .. Len(it)
                 /\ (i + 1) - k = i - (k - 1)
      BY <1>1, <1>2, <2>2
    <3> QED BY <1>1, <1>2, <3>1 DEF Behind
  <2>6. Behind(Tail(it), s, k - 1)
    BY <2>3, <2>4, <2>5 DEF Behind
  <2> QED BY <1>3, <2>1, <2>3, <2>6 DEF Follows
<1>4. CASE it[1] \in Elems(s)
  <2>1. k = 0
    BY <1>1, <1>2, <1>4 DEF Behind
  <2>2. Len(s) >= Len(it) /\ \A i \in 1 .. Len(it) : it[i] = s[i]
    BY <1>1, <1>2, <2>1 DEF Behind
  <2>3. s # <<>> /\ s[1] = it[1] /\ RemoveFirst(s, it[1]) = Tail(s)
    <3>1. s # <<>> /\ s[1] = it[1]
      BY <1>1, <2>2, EmptySeq
    <3> QED BY <3>1, RemoveFirstHead
  <2>4. /\ Len(Tail(s)) = Len(s) - 1
        /\ \A i \in 1 .. Len(s) - 1 : Tail(s)[i] = s[i + 1]
    BY <2>3, HeadTailProperties
  <2>5. \A i \in 1 .. Len(Tail(it)) : Tail(it)[i] = Tail(s)[i]
    BY <1>1, <2>2, <2>4
  <2>6. Behind(Tail(it), Tail(s), 0) /\ 0 \in 0 .. Len(Tail(it))
    BY <1>1, <2>2, <2>4, <2>5 DEF Behind
  <2> QED BY <1>4, <2>3, <2>6 DEF Follows
<1> QED BY <1>3, <1>4

-----------------------------------------------------------------------------
(* Two finite sets that differ in one element at most                      *)
LEMMA OneMore ==
  ASSUME NEW S, NEW T, NEW p, IsFiniteSet(S), IsFiniteSet(T), S \ {p} = T \ {p}
  PROVE  Cardinality(S) - (IF p \in S THEN 1 ELSE 0)
           = Cardinality(T) - (IF p \in T THEN 1 ELSE 0)
<1>1. Cardinality(S \ {p}) = Cardinality(S) - (IF p \in S THEN 1 ELSE 0)
  BY FS_RemoveElement, FS_CardinalityType
<1>2. Cardinality(T \ {p}) = Cardinality(T) - (IF p \in T THEN 1 ELSE 0)
  BY FS_RemoveElement, FS_CardinalityType
<1> QED BY <1>1, <1>2

-----------------------------------------------------------------------------
Draining(p) == op[p].kind = "drain"
ItemSet(p) == Elems(op[p].items)

(* Who works has something to work on, one report unless it drains; and an *)
(* answered batch has landed.                                              *)
ShapedAs(k, it, n, l) ==
  /\ k # "idle" => it # <<>>
  /\ k \in {"live", "enqueue"} => it = <<Head(it)>>
  /\ n > 0 => l
Shaped ==
  \A p \in Proc : ShapedAs(op[p].kind, op[p].items, op[p].sent, op[p].landed)

Held(p) == IF op[p].kind \in {"live", "enqueue"} THEN {Current(p)} ELSE {}
Listed(p) == IF op[p].kind = "drain" THEN ItemSet(p) ELSE {}

(* A report not yet upstream is in one place: still to run, in the hands   *)
(* of one process, in the spool, or lost.  A drain's list names none that  *)
(* is to run, lost, or in the hands of a process.                          *)
OnePlace ==
  /\ Unique(spool)
  /\ todo \cap SpoolSet = {} /\ todo \cap lost = {} /\ SpoolSet \cap lost = {}
  /\ \A p \in Proc :
       /\ Held(p) \cap (todo \cup SpoolSet \cup lost) = {}
       /\ Listed(p) \cap (todo \cup lost) = {}
       /\ Draining(p) => Unique(op[p].items)
       /\ \A q \in Proc : q # p => Held(p) \cap Held(q) = {}
       /\ \A q \in Proc : Listed(p) \cap Held(q) = {}

LostCounted == IsFiniteSet(lost) /\ Cardinality(lost) <= crashes

Core == TypeOK /\ Shaped /\ OnePlace /\ LostCounted

(* What a push has been answered is upstream; what left a place is too.    *)
Answered ==
  \A p \in Proc : Pushing(p) =>
    /\ op[p].sent >= 0 => Current(p) \in rows
    /\ \A b \in 1 .. op[p].sent : trace[Current(p)][b] > 0
LeftUpstream ==
  /\ \A r \in Report \ (todo \cup SpoolSet \cup InHand) : Complete(r) \/ r \in lost
  /\ \A p \in Proc : \A r \in Listed(p) \ SpoolSet : Complete(r)
Delivered == Answered /\ LeftUpstream

(* A drain's list is what has left the spool, then the head of the spool.  *)
InOrder == \A p \in Proc : Draining(p) => Follows(op[p].items, spool)

(* The pushes under way that have had batch b of report r appended         *)
At(r, b) ==
  {p \in Proc : Pushing(p) /\ Current(p) = r /\ op[p].sent >= b}

(* Without the pushes under way, each batch of a trace was appended at     *)
(* most as often as the one before it.                                     *)
Ended(r, b) == trace[r][b] - Cardinality(At(r, b))
Layered ==
  \A r \in Report : \A b \in Batch :
    /\ trace[r][b] > 0 => r \in rows
    /\ 0 <= Ended(r, b)
    /\ \A c \in 1 .. b : Ended(r, b) <= Ended(r, c)

(* As long as a report has a place, every push of it that ended was given  *)
(* up; when it has left, also those processes may have pushed it to the    *)
(* end that no longer have it on their list.                               *)
Placed(r) == r \in todo \cup SpoolSet \cup InHand
Without(r) == {p \in Proc : r \notin Listed(p)}
Room(r) == abandoned[r] + IF Placed(r) THEN 0 ELSE Cardinality(Without(r))
Paid == \A r \in Report : \A b \in Batch : Ended(r, b) <= Room(r)

Safe == Core /\ Delivered /\ InOrder
IInv == Safe /\ Layered /\ Paid

-----------------------------------------------------------------------------
(* The report a process works on is the first of its list.                 *)
LEMMA CurrentFirst ==
  ASSUME TypeOK, Shaped, NEW p \in Proc, op[p].kind # "idle"
  PROVE  /\ 1 \in 1 .. Len(op[p].items)
         /\ Current(p) = op[p].items[1]
         /\ Current(p) \in Report
         /\ Current(p) \in ItemSet(p)
<1>1. op[p].items \in Seq(Report) /\ op[p].items # <<>>
  BY DEF TypeOK, Shaped, ShapedAs
<1> QED BY <1>1 DEF Current, ItemSet, Elems

-----------------------------------------------------------------------------
(* What a step does to the process that takes it, and to no other.         *)
OpState == [kind : Kinds, items : Seq(Report), sent : -1 .. Batches, landed : BOOLEAN]
Moves(p, k, it, n, l) ==
  /\ op' \in [Proc -> OpState]
  /\ op'[p].kind = k /\ op'[p].items = it /\ op'[p].sent = n /\ op'[p].landed = l
  /\ \A q \in Proc \ {p} : op'[q] = op[q]

LEMMA MovesByExcept ==
  ASSUME TypeOK, NEW p \in Proc, NEW o \in OpState, op' = [op EXCEPT ![p] = o]
  PROVE  Moves(p, o.kind, o.items, o.sent, o.landed)
BY DEF TypeOK, Moves, OpState

LEMMA IdleTyped ==
  /\ Idle \in OpState
  /\ Idle.kind = "idle" /\ Idle.items = <<>> /\ Idle.sent = -1 /\ Idle.landed = FALSE
BY BatchesAssumption DEF Idle, OpState, Kinds

Starting(k, it) == [Idle EXCEPT !.kind = k, !.items = it]

LEMMA StartTyped ==
  ASSUME NEW k \in Kinds, NEW it \in Seq(Report)
  PROVE  /\ Starting(k, it) \in OpState
         /\ Starting(k, it).kind = k /\ Starting(k, it).items = it
         /\ Starting(k, it).sent = -1 /\ Starting(k, it).landed = FALSE
<1>1. ASSUME NEW o, o = [Idle EXCEPT !.kind = k, !.items = it]
      PROVE  o = [kind |-> k, items |-> it, sent |-> -1, landed |-> FALSE]
  BY <1>1 DEF Idle
<1>2. Starting(k, it) = [kind |-> k, items |-> it, sent |-> -1, landed |-> FALSE]
  BY <1>1 DEF Starting
<1>3. [kind |-> k, items |-> it, sent |-> -1, landed |-> FALSE] \in OpState
  BY BatchesAssumption DEF OpState
<1> QED BY <1>2, <1>3

LEMMA StartMoves ==
  ASSUME TypeOK, NEW p \in Proc, NEW k \in Kinds, NEW it \in Seq(Report),
         op' = [op EXCEPT ![p] = [Idle EXCEPT !.kind = k, !.items = it]]
  PROVE  Moves(p, k, it, -1, FALSE)
<1>1. op' = [op EXCEPT ![p] = Starting(k, it)]
  BY DEF Starting
<1> DEFINE o == Starting(k, it)
<1>2. /\ o \in OpState /\ o.kind = k /\ o.items = it /\ o.sent = -1
      /\ o.landed = FALSE
  BY StartTyped
<1>3. Moves(p, o.kind, o.items, o.sent, o.landed)
  BY <1>1, <1>2, MovesByExcept
<1> QED BY <1>2, <1>3

LEMMA ReportRunMoves ==
  ASSUME TypeOK, Shaped, NEW p \in Proc, ReportRun(p)
  PROVE  \E r \in todo : /\ Moves(p, "live", <<r>>, -1, FALSE)
                        /\ todo' = todo \ {r}
<1>1. PICK r \in todo :
        /\ op' = [op EXCEPT ![p] = [Idle EXCEPT !.kind = "live", !.items = <<r>>]]
        /\ todo' = todo \ {r}
  BY DEF ReportRun
<1>2. <<r>> \in Seq(Report) /\ "live" \in Kinds
  BY DEF TypeOK, Kinds
<1>3. Moves(p, "live", <<r>>, -1, FALSE)
  BY <1>1, <1>2, StartMoves
<1> QED BY <1>1, <1>3

LEMMA BeginDrainMoves ==
  ASSUME TypeOK, Shaped, NEW p \in Proc, BeginDrain(p)
  PROVE  Moves(p, "drain", spool, -1, FALSE)
<1>1. op' = [op EXCEPT ![p] = [Idle EXCEPT !.kind = "drain", !.items = spool]]
  BY DEF BeginDrain
<1>2. spool \in Seq(Report) /\ "drain" \in Kinds
  BY DEF TypeOK, Kinds
<1> QED BY <1>1, <1>2, StartMoves

LEMMA PushRunOkMoves ==
  ASSUME TypeOK, Shaped, NEW p \in Proc, PushRunOk(p)
  PROVE  Moves(p, op[p].kind, op[p].items, 0, op[p].landed)
<1>1. op[p] \in OpState
  BY DEF TypeOK, OpState
<1>2. op' = [op EXCEPT ![p] = [op[p] EXCEPT !.sent = 0]]
  BY DEF PushRunOk
<1>3. ASSUME NEW o, o = [op[p] EXCEPT !.sent = 0]
      PROVE  /\ o \in OpState /\ o.kind = op[p].kind /\ o.items = op[p].items
             /\ o.sent = 0 /\ o.landed = op[p].landed
  BY <1>1, <1>3, BatchesAssumption DEF OpState
<1> QED BY <1>2, <1>3, MovesByExcept

LEMMA PushSamplesOkMoves ==
  ASSUME TypeOK, Shaped, NEW p \in Proc, PushSamplesOk(p)
  PROVE  Moves(p, op[p].kind, op[p].items, op[p].sent + 1, TRUE)
<1>1. op[p] \in OpState /\ op[p].sent + 1 \in -1 .. Batches
  BY BatchesAssumption DEF TypeOK, OpState, PushSamplesOk
<1>2. op' = [op EXCEPT ![p] = [op[p] EXCEPT !.sent = op[p].sent + 1, !.landed = TRUE]]
  BY DEF PushSamplesOk, TypeOK
<1>3. ASSUME NEW o, o = [op[p] EXCEPT !.sent = op[p].sent + 1, !.landed = TRUE]
      PROVE  /\ o \in OpState /\ o.kind = op[p].kind /\ o.items = op[p].items
             /\ o.sent = op[p].sent + 1 /\ o.landed = TRUE
  <2>1. o = [kind |-> op[p].kind, items |-> op[p].items, sent |-> op[p].sent + 1,
             landed |-> TRUE]
    BY <1>1, <1>3 DEF OpState
  <2> QED BY <1>1, <2>1 DEF OpState
<1> QED BY <1>2, <1>3, MovesByExcept

LEMMA GiveUpMoves ==
  ASSUME TypeOK, Shaped, NEW p \in Proc, Pushing(p), NEW l, GiveUp(p, l)
  PROVE  \/ /\ op[p].kind = "live"
            /\ Moves(p, "enqueue", op[p].items, op[p].sent, op[p].landed)
         \/ op[p].kind = "drain" /\ Moves(p, "idle", <<>>, -1, FALSE)
<1>1. CASE op[p].kind = "live"
  <2>1. op' = [op EXCEPT ![p] = [op[p] EXCEPT !.kind = "enqueue"]]
    BY <1>1 DEF GiveUp
  <2> DEFINE o == [op[p] EXCEPT !.kind = "enqueue"]
  <2>2. /\ o \in OpState /\ o.kind = "enqueue" /\ o.items = op[p].items
        /\ o.sent = op[p].sent /\ o.landed = op[p].landed
    BY DEF OpState, TypeOK, Kinds
  <2>3. Moves(p, o.kind, o.items, o.sent, o.landed)
    BY <2>1, <2>2, MovesByExcept
  <2> QED BY <1>1, <2>2, <2>3
<1>2. CASE op[p].kind = "drain"
  <2>1. op' = [op EXCEPT ![p] = Idle]
    BY <1>2 DEF GiveUp
  <2>2. Moves(p, Idle.kind, Idle.items, Idle.sent, Idle.landed)
    BY <2>1, IdleTyped, MovesByExcept
  <2> QED BY <1>2, <2>2, IdleTyped
<1> QED BY <1>1, <1>2 DEF Pushing

LEMMA RemovePushedMoves ==
  ASSUME TypeOK, Shaped, NEW p \in Proc, RemovePushed(p)
  PROVE  \/ Len(op[p].items) = 1 /\ Moves(p, "idle", <<>>, -1, FALSE)
         \/ /\ Len(op[p].items) > 1 /\ Tail(op[p].items) # <<>>
            /\ Moves(p, "drain", Tail(op[p].items), -1, FALSE)
<1>1. op[p].items \in Seq(Report) /\ op[p].items # <<>> /\ "drain" \in Kinds
  BY DEF RemovePushed, TypeOK, Shaped, ShapedAs, Kinds
<1>2. op' = [op EXCEPT ![p] = IF Len(op[p].items) = 1 THEN Idle
                              ELSE Starting("drain", Tail(op[p].items))]
  BY DEF RemovePushed, Starting
<1>3. CASE Len(op[p].items) = 1
  <2>1. op' = [op EXCEPT ![p] = Idle]
    BY <1>2, <1>3
  <2>2. Moves(p, Idle.kind, Idle.items, Idle.sent, Idle.landed)
    BY <2>1, IdleTyped, MovesByExcept
  <2> QED BY <1>3, <2>2, IdleTyped
<1>4. CASE Len(op[p].items) # 1
  <2>1. op' = [op EXCEPT ![p] = Starting("drain", Tail(op[p].items))]
    BY <1>2, <1>4
  <2>2. /\ Len(op[p].items) > 1 /\ Tail(op[p].items) # <<>>
        /\ Tail(op[p].items) \in Seq(Report)
    BY <1>1, <1>4, TailNotEmpty
  <2> QED BY <1>1, <2>1, <2>2, StartMoves DEF Starting
<1> QED BY <1>3, <1>4

LEMMA StopMoves ==
  ASSUME TypeOK, Shaped, NEW p \in Proc, FinishLive(p) \/ Enqueue(p) \/ Crash(p)
  PROVE  Moves(p, "idle", <<>>, -1, FALSE)
<1>1. Moves(p, Idle.kind, Idle.items, Idle.sent, Idle.landed)
  BY IdleTyped, MovesByExcept DEF FinishLive, Enqueue, Crash
<1> QED BY <1>1, IdleTyped

-----------------------------------------------------------------------------
(* Types and shapes                                                        *)
LEMMA TypesInitially == Init => TypeOK /\ Shaped
BY BatchesAssumption DEF Init, TypeOK, Shaped, ShapedAs, Idle, Kinds, Batch

(* A drain's list cut to what is still spooled is the head of the spool,   *)
(* so what it removes is the head, or is not there any more.               *)
LEMMA RemovesHead ==
  ASSUME TypeOK, Shaped, InOrder, NEW p \in Proc, RemovePushed(p)
  PROVE  /\ Current(p) \notin SpoolSet => spool' = spool
         /\ Current(p) \in SpoolSet =>
              spool # <<>> /\ spool[1] = Current(p) /\ spool' = Tail(spool)
<1>1. /\ op[p].items \in Seq(Report) /\ op[p].items # <<>> /\ spool \in Seq(Report)
      /\ Follows(op[p].items, spool) /\ spool' = RemoveFirst(spool, Current(p))
  BY DEF RemovePushed, TypeOK, Shaped, ShapedAs, InOrder, Draining
<1>2. Current(p) = op[p].items[1] /\ SpoolSet = Elems(spool)
  BY CurrentFirst DEF RemovePushed, SpoolSet, Elems
<1> QED BY <1>1, <1>2, FollowsRemoved

Rest ==
  /\ todo \subseteq Report /\ spool \in Seq(Report) /\ rows \subseteq Report
  /\ trace \in [Report -> [Batch -> Nat]] /\ fails \in Nat /\ crashes \in Nat
  /\ lost \subseteq Report /\ abandoned \in [Report -> Nat]

(* The row and the batches upstream are never taken back.                  *)
LEMMA Grows ==
  ASSUME TypeOK, Shaped, [Next]_vars
  PROVE  /\ rows \subseteq rows' /\ lost \subseteq lost'
         /\ \A r \in Report, b \in Batch : trace[r][b] <= trace'[r][b]
<1>1. ASSUME NEW p \in Proc, Pushing(p), op[p].sent \in 0 .. Batches - 1, AppendBatch(p)
      PROVE  \A r \in Report, b \in Batch : trace[r][b] <= trace'[r][b]
  <2>1. Current(p) \in Report /\ op[p].sent + 1 \in Batch
    BY <1>1, CurrentFirst, BatchesAssumption DEF Pushing, Batch
  <2> QED BY <1>1, <2>1 DEF AppendBatch, TypeOK
<1>2. ASSUME UNCHANGED trace
      PROVE  \A r \in Report, b \in Batch : trace[r][b] <= trace'[r][b]
  BY <1>2 DEF TypeOK
<1>3. \A r \in Report, b \in Batch : trace[r][b] <= trace'[r][b]
  BY <1>1, <1>2 DEF Next, Advance, ReportRun, BeginDrain, PushRunOk, PushRunFails,
     PushRunRejected, PushSamplesOk, PushSamplesFails, FinishLive, RemovePushed, Enqueue,
     Crash, vars
<1>4. rows \subseteq rows' /\ lost \subseteq lost'
  BY DEF Next, Advance, ReportRun, BeginDrain, PushRunOk, PushRunFails,
     PushRunRejected, PushSamplesOk, PushSamplesFails, FinishLive, RemovePushed, Enqueue,
     Crash, vars
<1> QED BY <1>3, <1>4

(* Redirects are among the answers to a batch.                             *)
Portion ==
  /\ redirected \in [Report -> [Batch -> Nat]]
  /\ \A r \in Report : \A b \in Batch : redirected[r][b] <= trace[r][b]

LEMMA PortionStep ==
  ASSUME TypeOK, Shaped, [Next]_vars, trace' \in [Report -> [Batch -> Nat]]
  PROVE  Portion'
<1>1. CASE UNCHANGED redirected
  <2>1. ASSUME NEW r \in Report, NEW b \in Batch PROVE redirected'[r][b] <= trace'[r][b]
    <3>1. redirected[r][b] <= trace[r][b] /\ trace[r][b] <= trace'[r][b]
      BY Grows DEF TypeOK
    <3>2. redirected[r][b] \in Nat /\ trace[r][b] \in Nat /\ trace'[r][b] \in Nat
      BY DEF TypeOK
    <3> QED BY <1>1, <3>1, <3>2
  <2> QED BY <1>1, <2>1 DEF Portion, TypeOK
<1>2. ASSUME NEW p \in Proc, PushSamplesOk(p), Redirect(p) PROVE Portion'
  <2>1. PICK c, n : c = Current(p) /\ n = op[p].sent + 1
    OBVIOUS
  <2>2. c \in Report /\ n \in Batch
    BY <1>2, <2>1, CurrentFirst, BatchesAssumption DEF PushSamplesOk, Pushing, Batch
  <2>3. /\ redirected' = [redirected EXCEPT ![c][n] = @ + 1]
        /\ trace' = [trace EXCEPT ![c][n] = @ + 1]
    BY <1>2, <2>1 DEF PushSamplesOk, Redirect, AppendBatch
  <2>4. redirected' \in [Report -> [Batch -> Nat]]
    BY <2>2, <2>3 DEF TypeOK
  <2>5. ASSUME NEW r \in Report, NEW b \in Batch PROVE redirected'[r][b] <= trace'[r][b]
    <3>1. /\ redirected[r][b] <= trace[r][b]
          /\ redirected[r][b] \in Nat /\ trace[r][b] \in Nat
      BY DEF TypeOK
    <3>2. CASE r = c /\ b = n
      <4>1. redirected'[r][b] = redirected[r][b] + 1 /\ trace'[r][b] = trace[r][b] + 1
        BY <2>2, <2>3, <3>2 DEF TypeOK
      <4> QED BY <3>1, <4>1
    <3>3. CASE ~ (r = c /\ b = n)
      <4>1. redirected'[r][b] = redirected[r][b] /\ trace'[r][b] = trace[r][b]
        BY <2>2, <2>3, <3>3 DEF TypeOK
      <4> QED BY <3>1, <4>1
    <3> QED BY <3>2, <3>3
  <2> QED BY <2>4, <2>5 DEF Portion
<1> QED BY <1>1, <1>2 DEF Next, Advance, ReportRun, BeginDrain, PushRunOk, PushRunFails,
     PushRunRejected, PushSamplesOk, PushSamplesFails, FinishLive, RemovePushed, Enqueue,
     Crash, vars

LEMMA TypesStep == TypeOK /\ Shaped /\ InOrder /\ [Next]_vars => (TypeOK /\ Shaped)'
<1> SUFFICES ASSUME TypeOK, Shaped, InOrder, [Next]_vars PROVE (TypeOK /\ Shaped)'
  OBVIOUS
<1>0. ShapedAs("idle", <<>>, -1, FALSE)
  BY DEF ShapedAs
<1>1. ASSUME NEW p \in Proc, NEW k, NEW it, NEW n, NEW l, Moves(p, k, it, n, l),
             Rest', ShapedAs(k, it, n, l)
      PROVE  (TypeOK /\ Shaped)'
  <2>p. Portion'
    BY <1>1, PortionStep DEF Rest
  <2>1. TypeOK'
    BY <1>1, <2>p DEF Moves, OpState, TypeOK, Rest, Portion
  <2>2. ASSUME NEW q \in Proc
        PROVE  ShapedAs(op'[q].kind, op'[q].items, op'[q].sent, op'[q].landed)
    BY <1>1, <2>2 DEF Moves, Shaped
  <2> QED BY <2>1, <2>2 DEF Shaped
<1>2. ASSUME NEW p \in Proc, op[p].kind # "idle"
      PROVE  /\ Current(p) \in Report /\ op[p] \in OpState
             /\ ShapedAs(op[p].kind, op[p].items, op[p].sent, op[p].landed)
  BY <1>2, CurrentFirst DEF TypeOK, Shaped, OpState
<1>3. ASSUME NEW p \in Proc, ReportRun(p) PROVE (TypeOK /\ Shaped)'
  <2>1. PICK r \in todo : Moves(p, "live", <<r>>, -1, FALSE) /\ todo' = todo \ {r}
    BY <1>3, ReportRunMoves
  <2>2. Rest'
    BY <1>3, <2>1 DEF ReportRun, TypeOK, Rest
  <2>3. ShapedAs("live", <<r>>, -1, FALSE)
    BY DEF ShapedAs
  <2> QED BY <1>1, <2>1, <2>2, <2>3
<1>4. ASSUME NEW p \in Proc, BeginDrain(p) PROVE (TypeOK /\ Shaped)'
  <2>1. Rest'
    BY <1>4 DEF BeginDrain, TypeOK, Rest
  <2>2. ShapedAs("drain", spool, -1, FALSE)
    BY <1>4 DEF BeginDrain, ShapedAs
  <2> QED BY <1>1, <1>4, <2>1, <2>2, BeginDrainMoves
<1>5. ASSUME NEW p \in Proc, PushRunOk(p) PROVE (TypeOK /\ Shaped)'
  <2>1. op[p].kind # "idle"
    BY <1>5 DEF PushRunOk, Pushing
  <2>2. Rest'
    BY <1>2, <1>5, <2>1 DEF PushRunOk, TypeOK, Rest
  <2>3. ShapedAs(op[p].kind, op[p].items, 0, op[p].landed)
    BY <1>2, <2>1 DEF ShapedAs
  <2> QED BY <1>1, <1>5, <2>2, <2>3, PushRunOkMoves
<1>6. ASSUME NEW p \in Proc, Pushing(p), NEW l, GiveUp(p, l), Rest'
      PROVE  (TypeOK /\ Shaped)'
  <2>1. op[p].kind # "idle"
    BY <1>6 DEF Pushing
  <2>2. ASSUME op[p].kind = "live"
        PROVE  ShapedAs("enqueue", op[p].items, op[p].sent, op[p].landed)
    BY <1>2, <2>1, <2>2 DEF ShapedAs
  <2> QED BY <1>0, <1>1, <1>6, <2>2, GiveUpMoves
<1>7. ASSUME NEW p \in Proc, PushRunFails(p) PROVE (TypeOK /\ Shaped)'
  <2>1. Pushing(p) /\ GiveUp(p, FALSE) /\ op[p].kind # "idle"
    BY <1>7 DEF PushRunFails, Pushing
  <2>2. Rest'
    BY <1>2, <1>7, <2>1 DEF PushRunFails, Fails, GiveUp, TypeOK, Rest
  <2> QED BY <1>6, <2>1, <2>2
<1>8. ASSUME NEW p \in Proc, PushRunRejected(p) PROVE (TypeOK /\ Shaped)'
  <2>1. Pushing(p) /\ GiveUp(p, FALSE) /\ op[p].kind # "idle"
    BY <1>8 DEF PushRunRejected, Pushing
  <2>2. Rest'
    BY <1>2, <1>8, <2>1 DEF PushRunRejected, GiveUp, TypeOK, Rest
  <2> QED BY <1>6, <2>1, <2>2
<1>9. ASSUME NEW p \in Proc, Pushing(p), op[p].sent \in 0 .. Batches - 1, AppendBatch(p)
      PROVE  trace' \in [Report -> [Batch -> Nat]]
  <2>1. Current(p) \in Report /\ op[p].sent + 1 \in Batch
    BY <1>2, <1>9, BatchesAssumption DEF Pushing, Batch
  <2> QED BY <1>9, <2>1 DEF AppendBatch, TypeOK
<1>10. ASSUME NEW p \in Proc, PushSamplesOk(p) PROVE (TypeOK /\ Shaped)'
  <2>1. op[p].kind # "idle"
    BY <1>10 DEF PushSamplesOk, Pushing
  <2>n. fails' \in Nat
    <3>1. fails' = fails \/ fails' = fails + 1
      BY <1>10 DEF PushSamplesOk, Redirect, Fails
    <3> QED BY <3>1 DEF TypeOK
  <2>2. Rest'
    BY <1>9, <1>10, <2>n DEF PushSamplesOk, TypeOK, Rest
  <2>3. ShapedAs(op[p].kind, op[p].items, op[p].sent + 1, TRUE)
    BY <1>2, <2>1 DEF ShapedAs
  <2> QED BY <1>1, <1>10, <2>2, <2>3, PushSamplesOkMoves
<1>11. ASSUME NEW p \in Proc, PushSamplesFails(p) PROVE (TypeOK /\ Shaped)'
  <2>1. Pushing(p) /\ op[p].kind # "idle"
    BY <1>11 DEF PushSamplesFails, Pushing
  <2>2. PICK l \in BOOLEAN : GiveUp(p, l)
    BY <1>2, <1>11, <2>1 DEF PushSamplesFails, OpState
  <2>3. trace' \in [Report -> [Batch -> Nat]]
    BY <1>9, <1>11 DEF PushSamplesFails, TypeOK
  <2>4. abandoned' \in [Report -> Nat]
    BY <1>2, <2>1, <2>2 DEF GiveUp, TypeOK
  <2>5. Rest'
    BY <1>11, <2>3, <2>4 DEF PushSamplesFails, Fails, TypeOK, Rest
  <2> QED BY <1>6, <2>1, <2>2, <2>5
<1>12. ASSUME NEW p \in Proc, FinishLive(p) PROVE (TypeOK /\ Shaped)'
  <2>1. Rest'
    BY <1>12 DEF FinishLive, TypeOK, Rest
  <2> QED BY <1>0, <1>1, <1>12, <2>1, StopMoves
<1>13. ASSUME NEW p \in Proc, RemovePushed(p) PROVE (TypeOK /\ Shaped)'
  <2>1. spool' = spool \/ (spool # <<>> /\ spool' = Tail(spool))
    BY <1>13, RemovesHead
  <2>2. spool \in Seq(Report) /\ (spool # <<>> => Tail(spool) \in Seq(Report))
    BY HeadTailProperties DEF TypeOK
  <2>3. Rest'
    BY <1>13, <2>1, <2>2 DEF RemovePushed, TypeOK, Rest
  <2>4. Tail(op[p].items) # <<>> => ShapedAs("drain", Tail(op[p].items), -1, FALSE)
    BY DEF ShapedAs
  <2> QED BY <1>0, <1>1, <1>13, <2>3, <2>4, RemovePushedMoves
<1>14. ASSUME NEW p \in Proc, Enqueue(p) PROVE (TypeOK /\ Shaped)'
  <2>1. Rest'
    BY <1>2, <1>14 DEF Enqueue, TypeOK, Rest
  <2> QED BY <1>0, <1>1, <1>14, <2>1, StopMoves
<1>15. ASSUME NEW p \in Proc, Crash(p) PROVE (TypeOK /\ Shaped)'
  <2>1. Rest'
    BY <1>2, <1>15 DEF Crash, TypeOK, Rest
  <2> QED BY <1>0, <1>1, <1>15, <2>1, StopMoves
<1>16. CASE UNCHANGED vars
  BY <1>16 DEF vars, TypeOK, Shaped
<1> QED BY <1>3, <1>4, <1>5, <1>7, <1>8, <1>10, <1>11, <1>12, <1>13, <1>14, <1>15, <1>16
     DEF Next, Advance

-----------------------------------------------------------------------------
(* Where the reports are                                                   *)

LEMMA OthersKept ==
  ASSUME NEW p \in Proc, NEW k, NEW it, NEW n, NEW l, Moves(p, k, it, n, l),
         NEW q \in Proc \ {p}
  PROVE  /\ op'[q] = op[q] /\ Held(q)' = Held(q) /\ Listed(q)' = Listed(q)
         /\ Draining(q)' <=> Draining(q)
BY DEF Moves, Held, Listed, Draining, ItemSet, Current

LEMMA OwnAfter ==
  ASSUME NEW p \in Proc, NEW k, NEW it, NEW n, NEW l, Moves(p, k, it, n, l)
  PROVE  /\ Held(p)' = IF k \in {"live", "enqueue"} THEN {Head(it)} ELSE {}
         /\ Listed(p)' = IF k = "drain" THEN Elems(it) ELSE {}
         /\ Draining(p)' <=> k = "drain"
BY DEF Moves, Held, Listed, Draining, ItemSet, Current

LEMMA IdleAfter ==
  ASSUME NEW p \in Proc, Moves(p, "idle", <<>>, -1, FALSE)
  PROVE  Held(p)' = {} /\ Listed(p)' = {} /\ ~ Draining(p)'
BY DEF Moves, Held, Listed, Draining

LEMMA LiveAfter ==
  ASSUME NEW p \in Proc, NEW r, Moves(p, "live", <<r>>, -1, FALSE)
  PROVE  Held(p)' = {r} /\ Listed(p)' = {} /\ ~ Draining(p)'
<1>1. op'[p].kind = "live" /\ op'[p].items = <<r>>
  BY DEF Moves
<1> QED BY <1>1 DEF Held, Listed, Draining, Current

(* A step that moves no report keeps every one in its place.               *)
LEMMA PlacesKept ==
  ASSUME OnePlace, NEW p \in Proc, NEW k, NEW it, NEW n, NEW l, Moves(p, k, it, n, l),
         UNCHANGED <<todo, spool, lost>>,
         Held(p)' \subseteq Held(p), Listed(p)' \subseteq Listed(p),
         k = "drain" => Unique(it)
  PROVE  OnePlace'
<1>1. /\ Unique(spool)' /\ (todo \cap SpoolSet = {})' /\ (todo \cap lost = {})'
      /\ (SpoolSet \cap lost = {})' /\ SpoolSet' = SpoolSet
  BY DEF OnePlace, Unique, SpoolSet
<1>2. \A q \in Proc : Held(q)' \subseteq Held(q) /\ Listed(q)' \subseteq Listed(q)
  BY OthersKept
<1>3. ASSUME NEW q \in Proc, Draining(q)' PROVE Unique(op[q].items)'
  <2>1. CASE q = p
    BY <1>3, <2>1, OwnAfter DEF Moves, Unique
  <2>2. CASE q # p
    BY <1>3, <2>2, OthersKept DEF OnePlace, Unique
  <2> QED BY <2>1, <2>2
<1> QED BY <1>1, <1>2, <1>3 DEF OnePlace

LEMMA PlacesStep == Core /\ InOrder /\ [Next]_vars => OnePlace'
<1> SUFFICES ASSUME Core, InOrder, [Next]_vars PROVE OnePlace'
  OBVIOUS
<1>t. TypeOK /\ Shaped /\ OnePlace /\ spool \in Seq(Report) /\ Unique(spool)
      /\ SpoolSet = Elems(spool)
  BY DEF Core, TypeOK, OnePlace, SpoolSet, Elems
<1>h. ASSUME NEW p \in Proc, op[p].kind \in {"live", "enqueue"}
      PROVE  /\ Held(p) = {Current(p)} /\ Listed(p) = {}
             /\ Current(p) \in Report /\ Current(p) \notin todo \cup SpoolSet \cup lost
  BY <1>t, <1>h, CurrentFirst DEF Held, Listed, OnePlace
<1>1. ASSUME NEW p \in Proc, ReportRun(p) PROVE OnePlace'
  <2>1. PICK r \in todo : Moves(p, "live", <<r>>, -1, FALSE) /\ todo' = todo \ {r}
    BY <1>1, <1>t, ReportRunMoves
  <2>2. Held(p)' = {r} /\ Listed(p)' = {} /\ ~ Draining(p)'
    BY <2>1, LiveAfter
  <2>3. UNCHANGED <<spool, lost>> /\ SpoolSet' = SpoolSet /\ Unique(spool)'
    BY <1>1, <1>t DEF ReportRun, SpoolSet, Unique
  <2>4. \A q \in Proc \ {p} : /\ op'[q] = op[q] /\ Held(q)' = Held(q)
                              /\ Listed(q)' = Listed(q) /\ (Draining(q)' <=> Draining(q))
    BY <2>1, OthersKept
  <2>5. \A q \in Proc : Draining(q)' => Unique(op[q].items)'
    BY <1>t, <2>2, <2>4 DEF OnePlace, Unique
  <2> QED BY <1>t, <2>1, <2>2, <2>3, <2>4, <2>5 DEF OnePlace
<1>2. ASSUME NEW p \in Proc, BeginDrain(p) PROVE OnePlace'
  <2>1. Moves(p, "drain", spool, -1, FALSE)
    BY <1>2, <1>t, BeginDrainMoves
  <2>2. Held(p)' = {} /\ Listed(p)' = SpoolSet /\ op'[p].items = spool
    BY <1>t, <2>1, OwnAfter DEF Moves
  <2>3. UNCHANGED <<todo, spool, lost>> /\ SpoolSet' = SpoolSet /\ Unique(spool)'
    BY <1>2, <1>t DEF BeginDrain, SpoolSet, Unique
  <2>4. \A q \in Proc \ {p} : /\ op'[q] = op[q] /\ Held(q)' = Held(q)
                              /\ Listed(q)' = Listed(q) /\ (Draining(q)' <=> Draining(q))
    BY <2>1, OthersKept
  <2>5. \A q \in Proc : Draining(q)' => Unique(op[q].items)'
    BY <1>t, <2>2, <2>4 DEF OnePlace, Unique
  <2> QED BY <1>t, <2>2, <2>3, <2>4, <2>5 DEF OnePlace
<1>3. ASSUME NEW p \in Proc, PushRunOk(p) \/ PushSamplesOk(p) PROVE OnePlace'
  <2>1. PICK n, l : Moves(p, op[p].kind, op[p].items, n, l)
    BY <1>3, <1>t, PushRunOkMoves, PushSamplesOkMoves
  <2>2. Held(p)' = Held(p) /\ Listed(p)' = Listed(p)
    BY <2>1, OwnAfter DEF Held, Listed, Current, ItemSet
  <2>3. UNCHANGED <<todo, spool, lost>>
    BY <1>3 DEF PushRunOk, PushSamplesOk
  <2>4. op[p].kind = "drain" => Unique(op[p].items)
    BY <1>t DEF OnePlace, Draining
  <2> QED BY <1>t, <2>1, <2>2, <2>3, <2>4, PlacesKept
<1>4. ASSUME NEW p \in Proc, Pushing(p), NEW l, GiveUp(p, l),
             UNCHANGED <<todo, spool, lost>>
      PROVE  OnePlace'
  <2>1. CASE /\ op[p].kind = "live"
             /\ Moves(p, "enqueue", op[p].items, op[p].sent, op[p].landed)
    <3>1. Held(p)' = Held(p) /\ Listed(p)' = {}
      BY <2>1, OwnAfter DEF Held, Current
    <3> QED BY <1>4, <1>t, <2>1, <3>1, PlacesKept
  <2>2. CASE Moves(p, "idle", <<>>, -1, FALSE)
    <3>1. Held(p)' = {} /\ Listed(p)' = {} /\ ~ Draining(p)'
      BY <2>2, IdleAfter
    <3> QED BY <1>4, <1>t, <2>2, <3>1, PlacesKept
  <2> QED BY <1>4, <1>t, <2>1, <2>2, GiveUpMoves
<1>5. ASSUME NEW p \in Proc, PushRunFails(p) \/ PushRunRejected(p) \/ PushSamplesFails(p)
      PROVE  OnePlace'
  <2>1. PICK l : GiveUp(p, l)
    BY <1>5 DEF PushRunFails, PushRunRejected, PushSamplesFails
  <2>2. Pushing(p) /\ UNCHANGED <<todo, spool, lost>>
    BY <1>5 DEF PushRunFails, PushRunRejected, PushSamplesFails
  <2> QED BY <1>4, <2>1, <2>2
<1>6. ASSUME NEW p \in Proc, FinishLive(p) PROVE OnePlace'
  <2>1. Moves(p, "idle", <<>>, -1, FALSE)
    BY <1>6, <1>t, StopMoves
  <2>2. Held(p)' = {} /\ Listed(p)' = {} /\ ~ Draining(p)'
    BY <2>1, IdleAfter
  <2> QED BY <1>6, <1>t, <2>1, <2>2, PlacesKept DEF FinishLive
<1>7. ASSUME NEW p \in Proc, RemovePushed(p) PROVE OnePlace'
  <2>1. /\ op[p].kind = "drain" /\ op[p].items # <<>> /\ op[p].items \in Seq(Report)
        /\ Unique(op[p].items)
    BY <1>7, <1>t, CurrentFirst DEF RemovePushed, TypeOK, Shaped, ShapedAs, OnePlace, Draining
  <2>2. PICK k, it : Moves(p, k, it, -1, FALSE) /\ Held(p)' = {} /\
                     Listed(p)' \subseteq Listed(p) /\ (k = "drain" => Unique(it))
    <3>1. Elems(Tail(op[p].items)) \subseteq Elems(op[p].items) /\ Unique(Tail(op[p].items))
      BY <2>1, TailElems
    <3>2. CASE Moves(p, "idle", <<>>, -1, FALSE)
      <4>1. Held(p)' = {} /\ Listed(p)' \subseteq Listed(p)
        BY <3>2, IdleAfter
      <4>2. "idle" = "drain" => Unique(<<>>)
        OBVIOUS
      <4> QED BY <3>2, <4>1, <4>2
    <3>3. CASE Moves(p, "drain", Tail(op[p].items), -1, FALSE)
      <4>1. Held(p)' = {} /\ Listed(p)' \subseteq Listed(p)
        BY <2>1, <3>1, <3>3, OwnAfter DEF Listed, ItemSet
      <4> QED BY <3>1, <3>3, <4>1
    <3> QED BY <1>7, <1>t, <3>2, <3>3, RemovePushedMoves
  <2>3. UNCHANGED <<todo, lost>>
    BY <1>7 DEF RemovePushed
  <2>4. SpoolSet' \subseteq SpoolSet /\ Unique(spool)'
    <3>1. CASE spool' = spool
      BY <1>t, <3>1 DEF SpoolSet, Unique
    <3>2. CASE spool # <<>> /\ spool' = Tail(spool)
      <4>1. Elems(Tail(spool)) \subseteq Elems(spool) /\ Unique(Tail(spool))
        BY <1>t, <3>2, TailElems
      <4> QED BY <1>t, <3>2, <4>1 DEF SpoolSet, Elems, Unique
    <3> QED BY <1>7, <1>t, <3>1, <3>2, RemovesHead
  <2>5. \A q \in Proc \ {p} : /\ op'[q] = op[q] /\ Held(q)' = Held(q)
                              /\ Listed(q)' = Listed(q) /\ (Draining(q)' <=> Draining(q))
    BY <2>2, OthersKept
  <2>6. \A q \in Proc : Held(q)' \subseteq Held(q) /\ Listed(q)' \subseteq Listed(q)
    BY <2>2, <2>5
  <2>7. \A q \in Proc : Draining(q)' => Unique(op[q].items)'
    BY <1>t, <2>2, <2>5, OwnAfter DEF OnePlace, Unique, Moves
  <2> QED BY <1>t, <2>3, <2>4, <2>6, <2>7 DEF OnePlace
<1>8. ASSUME NEW p \in Proc, Enqueue(p) PROVE OnePlace'
  <2>1. Moves(p, "idle", <<>>, -1, FALSE)
    BY <1>8, <1>t, StopMoves
  <2>2. Held(p)' = {} /\ Listed(p)' = {} /\ ~ Draining(p)'
    BY <2>1, IdleAfter
  <2>3. /\ Held(p) = {Current(p)} /\ Current(p) \notin todo \cup SpoolSet \cup lost
        /\ Current(p) \in Report
    BY <1>8, <1>h DEF Enqueue
  <2>4. UNCHANGED <<todo, lost>> /\ spool' = Append(spool, Current(p))
    BY <1>8 DEF Enqueue
  <2>5. SpoolSet' = SpoolSet \cup {Current(p)} /\ Unique(spool')
    BY <1>t, <2>3, <2>4, AppendElems DEF SpoolSet, Elems
  <2>6. \A q \in Proc \ {p} : /\ op'[q] = op[q] /\ Held(q)' = Held(q)
                              /\ Listed(q)' = Listed(q) /\ (Draining(q)' <=> Draining(q))
    BY <2>1, OthersKept
  <2>7. \A q \in Proc : Draining(q)' => Unique(op[q].items)'
    BY <1>t, <2>2, <2>6 DEF OnePlace, Unique
  <2>8. \A q \in Proc \ {p} : Current(p) \notin Held(q)
    BY <1>t, <2>3 DEF OnePlace
  <2>9. Unique(spool)'
    BY <2>5 DEF Unique
  <2> QED BY <1>t, <2>2, <2>3, <2>4, <2>5, <2>6, <2>7, <2>8, <2>9 DEF OnePlace
<1>9. ASSUME NEW p \in Proc, Crash(p) PROVE OnePlace'
  <2>1. Moves(p, "idle", <<>>, -1, FALSE)
    BY <1>9, <1>t, StopMoves
  <2>2. Held(p)' = {} /\ Listed(p)' = {} /\ ~ Draining(p)'
    BY <2>1, IdleAfter
  <2>3. UNCHANGED <<todo, spool>> /\ lost' = lost \cup Held(p)
    BY <1>9, <1>t DEF Crash, Held, TypeOK, Kinds
  <2>4. SpoolSet' = SpoolSet /\ Unique(spool)'
    BY <1>t, <2>3 DEF SpoolSet, Unique
  <2>5. \A q \in Proc \ {p} : /\ op'[q] = op[q] /\ Held(q)' = Held(q)
                              /\ Listed(q)' = Listed(q) /\ (Draining(q)' <=> Draining(q))
    BY <2>1, OthersKept
  <2>6. \A q \in Proc : Draining(q)' => Unique(op[q].items)'
    BY <1>t, <2>2, <2>5 DEF OnePlace, Unique
  <2> QED BY <1>t, <2>2, <2>3, <2>4, <2>5, <2>6 DEF OnePlace
<1>10. CASE UNCHANGED vars
  BY <1>10, <1>t DEF vars, OnePlace, Unique, SpoolSet, Held, Listed, Current, ItemSet,
     Elems, Draining
<1> QED BY <1>1, <1>2, <1>3, <1>5, <1>6, <1>7, <1>8, <1>9, <1>10 DEF Next, Advance

LEMMA LostStep == Core /\ [Next]_vars => LostCounted'
<1> SUFFICES ASSUME Core, [Next]_vars PROVE LostCounted'
  OBVIOUS
<1>1. IsFiniteSet(lost) /\ Cardinality(lost) <= crashes /\ crashes \in Nat
  BY DEF Core, LostCounted, TypeOK
<1>2. ASSUME NEW p \in Proc, Crash(p) PROVE LostCounted'
  <2>1. crashes' = crashes + 1
    BY <1>2 DEF Crash
  <2>2. CASE lost' = lost
    BY <1>1, <2>1, <2>2, FS_CardinalityType DEF LostCounted
  <2>3. CASE lost' = lost \cup {Current(p)}
    <3>1. /\ IsFiniteSet(lost') /\ Cardinality(lost) \in Nat
          /\ Cardinality(lost') = Cardinality(lost) \/ Cardinality(lost') = Cardinality(lost) + 1
      BY <1>1, <2>3, FS_AddElement, FS_CardinalityType
    <3> QED BY <1>1, <2>1, <3>1 DEF LostCounted
  <2> QED BY <1>2, <2>2, <2>3 DEF Crash
<1>3. ASSUME UNCHANGED <<lost, crashes>> PROVE LostCounted'
  BY <1>1, <1>3 DEF LostCounted
<1> QED BY <1>2, <1>3 DEF Next, Advance, ReportRun, BeginDrain, PushRunOk, PushRunFails,
     PushRunRejected, PushSamplesOk, PushSamplesFails, FinishLive, RemovePushed, Enqueue, vars

-----------------------------------------------------------------------------
(* The order of a drain's list                                             *)
LEMMA OrderStep == Core /\ InOrder /\ [Next]_vars => InOrder'
<1> SUFFICES ASSUME Core, InOrder, [Next]_vars PROVE InOrder'
  OBVIOUS
<1>t. TypeOK /\ Shaped /\ OnePlace /\ spool \in Seq(Report) /\ Unique(spool)
      /\ SpoolSet = Elems(spool) /\ Len(spool) \in Nat
  BY LenProperties DEF Core, TypeOK, OnePlace, SpoolSet, Elems
<1>1. ASSUME UNCHANGED spool,
             \A q \in Proc : Draining(q)' => Draining(q) /\ op'[q].items = op[q].items
      PROVE  InOrder'
  BY <1>1 DEF InOrder
<1>2. ASSUME NEW p \in Proc, ReportRun(p) PROVE InOrder'
  <2>1. PICK r \in todo : Moves(p, "live", <<r>>, -1, FALSE)
    BY <1>2, <1>t, ReportRunMoves
  <2>2. UNCHANGED spool
    BY <1>2 DEF ReportRun
  <2> QED BY <1>1, <2>1, <2>2, LiveAfter, OthersKept
<1>3. ASSUME NEW p \in Proc, BeginDrain(p) PROVE InOrder'
  <2>1. Moves(p, "drain", spool, -1, FALSE) /\ spool' = spool
    BY <1>3, <1>t, BeginDrainMoves DEF BeginDrain
  <2>2. Follows(op'[p].items, spool')
    BY <1>t, <2>1, FollowsItself DEF Moves
  <2>3. \A q \in Proc \ {p} : Draining(q)' => Draining(q) /\ op'[q].items = op[q].items
    BY <2>1, OthersKept
  <2> QED BY <2>1, <2>2, <2>3 DEF InOrder
<1>4. ASSUME NEW p \in Proc, PushRunOk(p) \/ PushSamplesOk(p) PROVE InOrder'
  <2>1. PICK n, l : Moves(p, op[p].kind, op[p].items, n, l)
    BY <1>4, <1>t, PushRunOkMoves, PushSamplesOkMoves
  <2>2. UNCHANGED spool
    BY <1>4 DEF PushRunOk, PushSamplesOk
  <2>3. \A q \in Proc : Draining(q)' => Draining(q) /\ op'[q].items = op[q].items
    BY <2>1 DEF Moves, Draining
  <2> QED BY <1>1, <2>2, <2>3
<1>5. ASSUME NEW p \in Proc, ~ Draining(p)', UNCHANGED spool,
             NEW k, NEW it, NEW n, NEW l, Moves(p, k, it, n, l)
      PROVE  InOrder'
  BY <1>1, <1>5, OthersKept
<1>6. ASSUME NEW p \in Proc, PushRunFails(p) \/ PushRunRejected(p) \/ PushSamplesFails(p)
      PROVE  InOrder'
  <2>1. PICK l : GiveUp(p, l)
    BY <1>6 DEF PushRunFails, PushRunRejected, PushSamplesFails
  <2>2. Pushing(p) /\ UNCHANGED spool
    BY <1>6 DEF PushRunFails, PushRunRejected, PushSamplesFails
  <2>3. CASE Moves(p, "enqueue", op[p].items, op[p].sent, op[p].landed)
    <3>1. ~ Draining(p)'
      BY <2>3 DEF Moves, Draining
    <3> QED BY <1>5, <2>2, <2>3, <3>1
  <2>4. CASE Moves(p, "idle", <<>>, -1, FALSE)
    BY <1>5, <2>2, <2>4, IdleAfter
  <2> QED BY <1>t, <2>1, <2>2, <2>3, <2>4, GiveUpMoves
<1>7. ASSUME NEW p \in Proc, FinishLive(p) \/ Crash(p) PROVE InOrder'
  <2>1. Moves(p, "idle", <<>>, -1, FALSE) /\ UNCHANGED spool
    BY <1>7, <1>t, StopMoves DEF FinishLive, Crash
  <2> QED BY <1>5, <2>1, IdleAfter
<1>8. ASSUME NEW p \in Proc, Enqueue(p) PROVE InOrder'
  <2>1. Moves(p, "idle", <<>>, -1, FALSE) /\ spool' = Append(spool, Current(p))
    BY <1>8, <1>t, StopMoves DEF Enqueue
  <2>2. op[p].kind = "enqueue" /\ Held(p) = {Current(p)} /\ Current(p) \in Report
    BY <1>8, <1>t, CurrentFirst DEF Enqueue, Held
  <2>3. ASSUME NEW q \in Proc, Draining(q)' PROVE Follows(op'[q].items, spool')
    <3>1. q # p /\ Draining(q) /\ op'[q] = op[q]
      BY <2>1, <2>3, IdleAfter, OthersKept
    <3>2. Current(p) \notin Elems(op[q].items)
      BY <1>t, <2>2, <3>1 DEF OnePlace, Listed, Draining, ItemSet
    <3>3. Follows(op[q].items, spool) /\ op[q].items \in Seq(Report)
      BY <1>t, <3>1 DEF InOrder, TypeOK
    <3> QED BY <1>t, <2>1, <2>2, <3>1, <3>2, <3>3, FollowsAppended
  <2> QED BY <2>3 DEF InOrder
<1>9. ASSUME NEW p \in Proc, RemovePushed(p) PROVE InOrder'
  <2> DEFINE it == op[p].items
  <2>1. Draining(p) /\ it # <<>> /\ it \in Seq(Report) /\ Current(p) = it[1]
    BY <1>9, <1>t, CurrentFirst DEF RemovePushed, TypeOK, Shaped, ShapedAs, Draining
  <2>2. spool' = RemoveFirst(spool, it[1]) /\ Follows(it, spool)
    BY <1>9, <2>1 DEF RemovePushed, InOrder
  <2>3. ASSUME NEW q \in Proc \ {p}, Draining(q)' PROVE Follows(op'[q].items, spool')
    <3>1. op'[q] = op[q] /\ Draining(q)
      BY <1>9, <1>t, <2>3, RemovePushedMoves, OthersKept
    <3>2. op[q].items \in Seq(Report) /\ Follows(op[q].items, spool)
      BY <1>t, <3>1 DEF TypeOK, InOrder
    <3>3. \/ spool' = spool
          \/ spool # <<>> /\ spool' = Tail(spool)
      BY <1>t, <2>1, <2>2, FollowsRemoved
    <3> QED BY <1>t, <3>1, <3>2, <3>3, FollowsTail
  <2>4. Draining(p)' => op'[p].items = Tail(it)
    BY <1>9, <1>t, RemovePushedMoves DEF Moves, Draining
  <2> QED BY <1>t, <2>1, <2>2, <2>3, <2>4, FollowsRemoved DEF InOrder
<1>10. CASE UNCHANGED vars
  BY <1>1, <1>10 DEF vars, Draining
<1> QED BY <1>2, <1>3, <1>4, <1>6, <1>7, <1>8, <1>9, <1>10 DEF Next, Advance

-----------------------------------------------------------------------------
(* What has left is upstream                                               *)

(* A report is complete when each of its batches was taken.                *)
LEMMA CompleteIs ==
  ASSUME TypeOK, NEW r \in Report
  PROVE  Complete(r) <=> r \in rows /\ \A b \in Batch : trace[r][b] > 0
<1>1. ASSUME NEW b \in Batch
      PROVE  Appended(r, b) > 0 \/ redirected[r][b] > 0 <=> trace[r][b] > 0
  <2>1. /\ redirected[r][b] \in Nat /\ trace[r][b] \in Nat
        /\ redirected[r][b] <= trace[r][b]
    BY DEF TypeOK
  <2> QED BY <2>1 DEF Appended
<1> QED BY <1>1 DEF Complete

LEMMA CompleteIsAfter ==
  ASSUME (TypeOK)', NEW r \in Report
  PROVE  Complete(r)' <=> r \in rows' /\ \A b \in Batch : trace'[r][b] > 0
<1>1. ASSUME NEW b \in Batch
      PROVE  Appended(r, b)' > 0 \/ redirected'[r][b] > 0 <=> trace'[r][b] > 0
  <2>1. /\ redirected'[r][b] \in Nat /\ trace'[r][b] \in Nat
        /\ redirected'[r][b] <= trace'[r][b]
    BY DEF TypeOK
  <2> QED BY <2>1 DEF Appended
<1> QED BY <1>1 DEF Complete

LEMMA CompleteStays ==
  ASSUME TypeOK, (TypeOK)', Shaped, [Next]_vars, NEW r \in Report, Complete(r)
  PROVE  Complete(r)'
<1>1. \A b \in Batch : trace[r][b] \in Nat /\ trace'[r][b] \in Nat
  BY DEF TypeOK
<1> QED BY <1>1, Grows, CompleteIs, CompleteIsAfter

LEMMA CompleteAtEnd ==
  ASSUME TypeOK, Shaped, Answered, NEW p \in Proc, Pushing(p), op[p].sent = Batches
  PROVE  Complete(Current(p))
<1>1. /\ Current(p) \in rows
      /\ \A b \in Batch : trace[Current(p)][b] > 0
  BY BatchesAssumption DEF Answered, Batch
<1>2. Current(p) \in Report
  BY CurrentFirst DEF Pushing
<1> QED BY <1>1, <1>2, CompleteIs

LEMMA AnsweredStep == Core /\ (TypeOK)' /\ Answered /\ [Next]_vars => Answered'
<1> SUFFICES ASSUME Core, (TypeOK)', Answered, [Next]_vars PROVE Answered'
  OBVIOUS
<1>t. TypeOK /\ Shaped
  BY DEF Core
<1>c. ASSUME NEW p \in Proc, Pushing(p)
      PROVE  Current(p) \in Report /\ op[p].sent \in -1 .. Batches
  BY <1>t, <1>c, CurrentFirst DEF Pushing, TypeOK
<1>g. ASSUME NEW q \in Proc, Pushing(q), Pushing(q)', op'[q].sent = op[q].sent,
             op'[q].items = op[q].items
      PROVE  /\ op'[q].sent >= 0 => Current(q)' \in rows'
             /\ \A b \in 1 .. op'[q].sent : trace'[Current(q)'][b] > 0
  <2>1. Current(q)' = Current(q) /\ Current(q) \in Report
    BY <1>c, <1>g DEF Current
  <2>2. ASSUME NEW b \in 1 .. op[q].sent PROVE trace'[Current(q)][b] > 0
    <3>1. b \in Batch /\ trace[Current(q)][b] > 0
      BY <1>c, <1>g, <2>2, BatchesAssumption DEF Answered, Batch
    <3>2. trace[Current(q)][b] <= trace'[Current(q)][b]
      BY <1>t, <2>1, <3>1, Grows
    <3>3. trace[Current(q)][b] \in Nat /\ trace'[Current(q)][b] \in Nat
      BY <1>t, <2>1, <3>1 DEF TypeOK
    <3> QED BY <3>1, <3>2, <3>3
  <2>3. op[q].sent >= 0 => Current(q) \in rows'
    BY <1>g, <1>t, Grows DEF Answered
  <2> QED BY <1>g, <2>1, <2>2, <2>3
<1>1. ASSUME NEW p \in Proc, NEW k, NEW it, NEW l, Moves(p, k, it, -1, l) PROVE Answered'
  <2>1. ASSUME NEW q \in Proc, Pushing(q)'
        PROVE  /\ op'[q].sent >= 0 => Current(q)' \in rows'
               /\ \A b \in 1 .. op'[q].sent : trace'[Current(q)'][b] > 0
    <3>1. CASE q = p
      BY <1>1, <3>1 DEF Moves
    <3>2. CASE q # p
      <4>1. op'[q] = op[q] /\ Pushing(q)
        BY <1>1, <2>1, <3>2 DEF Moves, Pushing
      <4> QED BY <1>g, <2>1, <4>1
    <3> QED BY <3>1, <3>2
  <2> QED BY <2>1 DEF Answered
<1>2. ASSUME NEW p \in Proc, Moves(p, "enqueue", op[p].items, op[p].sent, op[p].landed)
      PROVE  Answered'
  <2>1. ASSUME NEW q \in Proc, Pushing(q)' PROVE op'[q] = op[q] /\ Pushing(q)
    BY <1>2, <2>1 DEF Moves, Pushing
  <2> QED BY <1>g, <2>1 DEF Answered
<1>3. ASSUME NEW p \in Proc, PushRunOk(p) PROVE Answered'
  <2>1. Moves(p, op[p].kind, op[p].items, 0, op[p].landed)
    BY <1>t, <1>3, PushRunOkMoves
  <2>2. Current(p)' = Current(p) /\ op'[p].sent = 0 /\ Current(p) \in rows'
    BY <1>3, <2>1 DEF Moves, Current, PushRunOk
  <2>3. ASSUME NEW q \in Proc \ {p}, Pushing(q)' PROVE op'[q] = op[q] /\ Pushing(q)
    BY <2>1, <2>3 DEF Moves, Pushing
  <2>4. \A b \in 1 .. op'[p].sent : trace'[Current(p)'][b] > 0
    BY <2>2
  <2> QED BY <1>g, <2>2, <2>3, <2>4 DEF Answered
<1>4. ASSUME NEW p \in Proc, PushSamplesOk(p) PROVE Answered'
  <2> DEFINE n == op[p].sent
  <2>1. Moves(p, op[p].kind, op[p].items, n + 1, TRUE)
    BY <1>t, <1>4, PushSamplesOkMoves
  <2>2. /\ Current(p)' = Current(p) /\ op'[p].sent = n + 1 /\ Pushing(p)
        /\ n \in 0 .. Batches - 1 /\ Current(p) \in Report
    BY <1>4, <1>c, <2>1 DEF Moves, Current, PushSamplesOk
  <2>3. ASSUME NEW q \in Proc \ {p}, Pushing(q)' PROVE op'[q] = op[q] /\ Pushing(q)
    BY <2>1, <2>3 DEF Moves, Pushing
  <2>4. Current(p) \in rows'
    BY <1>t, <2>2, Grows DEF Answered
  <2>5. ASSUME NEW b \in 1 .. n + 1 PROVE trace'[Current(p)][b] > 0
    <3>1. b \in Batch /\ n + 1 \in Batch
      BY <2>2, BatchesAssumption DEF Batch
    <3>2. trace[Current(p)][b] \in Nat /\ trace'[Current(p)][b] \in Nat
      BY <1>t, <2>2, <3>1 DEF TypeOK
    <3>3. CASE b = n + 1
      <4>1. trace'[Current(p)][b] = trace[Current(p)][b] + 1
        BY <1>4, <1>t, <2>2, <3>1, <3>3 DEF PushSamplesOk, AppendBatch, TypeOK
      <4> QED BY <3>2, <4>1
    <3>4. CASE b # n + 1
      <4>1. trace[Current(p)][b] > 0
        BY <2>2, <3>4 DEF Answered
      <4> QED BY <1>t, <2>2, <3>1, <3>2, <4>1, Grows
    <3> QED BY <3>3, <3>4
  <2> QED BY <1>g, <2>2, <2>3, <2>4, <2>5 DEF Answered
<1>5. ASSUME NEW p \in Proc, PushRunFails(p) \/ PushRunRejected(p) \/ PushSamplesFails(p)
      PROVE  Answered'
  <2>1. PICK l : GiveUp(p, l)
    BY <1>5 DEF PushRunFails, PushRunRejected, PushSamplesFails
  <2>2. Pushing(p)
    BY <1>5 DEF PushRunFails, PushRunRejected, PushSamplesFails
  <2> QED BY <1>t, <1>1, <1>2, <2>1, <2>2, GiveUpMoves
<1>6. CASE UNCHANGED vars
  <2>1. \A q \in Proc : op'[q] = op[q] /\ (Pushing(q)' <=> Pushing(q))
    BY <1>6 DEF vars, Pushing
  <2> QED BY <1>g, <2>1 DEF Answered
<1>7. ASSUME NEW p \in Proc, ReportRun(p) \/ BeginDrain(p) \/ RemovePushed(p)
             \/ FinishLive(p) \/ Enqueue(p) \/ Crash(p)
      PROVE  Answered'
  <2>1. \E k, it : Moves(p, k, it, -1, FALSE)
    BY <1>7, <1>t, ReportRunMoves, BeginDrainMoves, RemovePushedMoves, StopMoves
  <2> QED BY <1>1, <2>1
<1> QED BY <1>3, <1>4, <1>5, <1>6, <1>7 DEF Next, Advance

LEMMA InHandHeld ==
  /\ InHand = UNION {Held(p) : p \in Proc}
  /\ InHand' = UNION {Held(p)' : p \in Proc}
BY DEF InHand, Held

LEMMA LeftStep == Core /\ (TypeOK)' /\ InOrder /\ Delivered /\ [Next]_vars => LeftUpstream'
<1> SUFFICES ASSUME Core, (TypeOK)', InOrder, Delivered, [Next]_vars PROVE LeftUpstream'
  OBVIOUS
<1>t. TypeOK /\ Shaped /\ OnePlace /\ Answered /\ LeftUpstream
  BY DEF Core, Delivered
<1>g. \A r \in Report : Complete(r) => Complete(r)'
  BY <1>t, CompleteStays
<1>l. lost \subseteq lost'
  BY <1>t, Grows
(* A step under which only complete or lost reports leave their place      *)
<1>1. ASSUME \A r \in Report : Placed(r) => Placed(r)' \/ Complete(r)' \/ r \in lost',
             \A q \in Proc : Listed(q)' \subseteq Listed(q) \cup SpoolSet,
             \A r \in SpoolSet \ SpoolSet' : Complete(r)',
             \A q \in Proc : Listed(q)' \subseteq Report
      PROVE  LeftUpstream'
  <2>1. ASSUME NEW r \in Report, ~ Placed(r)' PROVE Complete(r)' \/ r \in lost'
    BY <1>1, <1>t, <1>g, <1>l, <2>1 DEF LeftUpstream, Placed
  <2>2. ASSUME NEW q \in Proc, NEW r \in Listed(q)', r \notin SpoolSet' PROVE Complete(r)'
    BY <1>1, <1>t, <1>g, <2>2 DEF LeftUpstream
  <2> QED BY <2>1, <2>2 DEF LeftUpstream, Placed
<1>s. SpoolSet \subseteq Report /\ \A q \in Proc : Listed(q) \subseteq Report
  <2>1. SpoolSet \subseteq Report
    BY <1>t DEF TypeOK, SpoolSet
  <2>2. ASSUME NEW q \in Proc PROVE Elems(op[q].items) \subseteq Report
    BY <1>t DEF TypeOK, Elems
  <2> QED BY <2>1, <2>2 DEF Listed, ItemSet
<1>k. ASSUME UNCHANGED spool PROVE SpoolSet' = SpoolSet
  BY <1>k DEF SpoolSet
(* A step of p that neither takes nor loses a report                       *)
<1>2. ASSUME NEW p \in Proc, NEW k, NEW it, NEW n, NEW l, Moves(p, k, it, n, l),
             UNCHANGED <<todo, spool>>, Listed(p)' \subseteq Listed(p),
             \A r \in Held(p) \ Held(p)' : Complete(r)' \/ r \in lost'
      PROVE  LeftUpstream'
  <2>1. \A q \in Proc \ {p} : Held(q)' = Held(q) /\ Listed(q)' = Listed(q)
    BY <1>2, OthersKept
  <2>2. \A r \in Report : Placed(r) => Placed(r)' \/ Complete(r)' \/ r \in lost'
    BY <1>2, <1>k, <2>1, InHandHeld DEF Placed
  <2> QED BY <1>1, <1>2, <1>k, <1>s, <2>1, <2>2
<1>3. ASSUME NEW p \in Proc, ReportRun(p) PROVE LeftUpstream'
  <2>1. PICK r \in todo : Moves(p, "live", <<r>>, -1, FALSE) /\ todo' = todo \ {r}
    BY <1>3, <1>t, ReportRunMoves
  <2>2. /\ Held(p)' = {r} /\ Listed(p)' = {}
        /\ \A q \in Proc \ {p} : Held(q)' = Held(q) /\ Listed(q)' = Listed(q)
    BY <2>1, LiveAfter, OthersKept
  <2>3. Held(p) = {} /\ SpoolSet' = SpoolSet
    BY <1>3 DEF ReportRun, Held, SpoolSet
  <2>4. \A x \in Report : Placed(x) => Placed(x)'
    BY <2>1, <2>2, <2>3, InHandHeld DEF Placed
  <2> QED BY <1>1, <1>s, <2>2, <2>3, <2>4
<1>4. ASSUME NEW p \in Proc, BeginDrain(p) PROVE LeftUpstream'
  <2>1. Moves(p, "drain", spool, -1, FALSE)
    BY <1>4, <1>t, BeginDrainMoves
  <2>2. Listed(p)' = SpoolSet
    BY <2>1, OwnAfter DEF SpoolSet, Elems
  <2>3. /\ \A q \in Proc \ {p} : Held(q)' = Held(q) /\ Listed(q)' = Listed(q)
        /\ Held(p) = {} /\ SpoolSet' = SpoolSet /\ todo' = todo
    BY <1>4, <2>1, OthersKept DEF BeginDrain, Held, SpoolSet
  <2>4. \A r \in Report : Placed(r) => Placed(r)'
    BY <2>3, InHandHeld DEF Placed
  <2> QED BY <1>1, <1>s, <2>2, <2>3, <2>4
<1>5. ASSUME NEW p \in Proc, PushRunOk(p) \/ PushSamplesOk(p) PROVE LeftUpstream'
  <2>1. PICK n, l : Moves(p, op[p].kind, op[p].items, n, l)
    BY <1>5, <1>t, PushRunOkMoves, PushSamplesOkMoves
  <2>2. Held(p)' = Held(p) /\ Listed(p)' = Listed(p)
    BY <2>1, OwnAfter DEF Held, Listed, Current, ItemSet
  <2>3. UNCHANGED <<todo, spool>>
    BY <1>5 DEF PushRunOk, PushSamplesOk
  <2> QED BY <1>2, <2>1, <2>2, <2>3
<1>6. ASSUME NEW p \in Proc, PushRunFails(p) \/ PushRunRejected(p) \/ PushSamplesFails(p)
      PROVE  LeftUpstream'
  <2>1. PICK l : GiveUp(p, l)
    BY <1>6 DEF PushRunFails, PushRunRejected, PushSamplesFails
  <2>2. Pushing(p) /\ UNCHANGED <<todo, spool>>
    BY <1>6 DEF PushRunFails, PushRunRejected, PushSamplesFails
  <2>3. CASE /\ op[p].kind = "live"
             /\ Moves(p, "enqueue", op[p].items, op[p].sent, op[p].landed)
    <3>1. Held(p)' = Held(p) /\ Listed(p)' = {}
      BY <2>3, OwnAfter DEF Held, Current
    <3> QED BY <1>2, <2>2, <2>3, <3>1
  <2>4. CASE op[p].kind = "drain" /\ Moves(p, "idle", <<>>, -1, FALSE)
    <3>1. Held(p) = {} /\ Listed(p)' = {}
      BY <2>4, IdleAfter DEF Held
    <3> QED BY <1>2, <2>2, <2>4, <3>1
  <2> QED BY <1>t, <2>1, <2>2, <2>3, <2>4, GiveUpMoves
<1>7. ASSUME NEW p \in Proc, FinishLive(p) PROVE LeftUpstream'
  <2>1. Moves(p, "idle", <<>>, -1, FALSE) /\ UNCHANGED <<todo, spool>>
    BY <1>7, <1>t, StopMoves DEF FinishLive
  <2>2. Held(p) = {Current(p)} /\ Complete(Current(p)) /\ Current(p) \in Report
    BY <1>7, <1>t, CompleteAtEnd, CurrentFirst DEF FinishLive, Held, Pushing
  <2> QED BY <1>2, <1>g, <2>1, <2>2, IdleAfter
<1>8. ASSUME NEW p \in Proc, RemovePushed(p) PROVE LeftUpstream'
  <2>1. Held(p) = {} /\ UNCHANGED <<todo, lost>> /\ op[p].kind = "drain"
    BY <1>8 DEF RemovePushed, Held
  <2>2. Complete(Current(p)) /\ Current(p) \in Report
    BY <1>8, <1>t, CompleteAtEnd, CurrentFirst DEF RemovePushed, Pushing
  <2>3. Listed(p)' \subseteq Listed(p) /\ \A q \in Proc \ {p} :
          Held(q)' = Held(q) /\ Listed(q)' = Listed(q)
    <3>1. op[p].items # <<>> /\ op[p].items \in Seq(Report) /\ Unique(op[p].items)
      BY <1>t, <2>1 DEF TypeOK, Shaped, ShapedAs, OnePlace, Draining
    <3>2. Elems(Tail(op[p].items)) \subseteq Elems(op[p].items)
      BY <3>1, TailElems
    <3>3. CASE Moves(p, "idle", <<>>, -1, FALSE)
      BY <3>3, IdleAfter, OthersKept
    <3>4. CASE Moves(p, "drain", Tail(op[p].items), -1, FALSE)
      BY <2>1, <3>2, <3>4, OwnAfter, OthersKept DEF Listed, ItemSet
    <3> QED BY <1>8, <1>t, <3>3, <3>4, RemovePushedMoves
  <2>4. SpoolSet \ SpoolSet' \subseteq {Current(p)}
    <3>1. CASE spool' = spool
      BY <3>1 DEF SpoolSet
    <3>2. CASE spool # <<>> /\ spool[1] = Current(p) /\ spool' = Tail(spool)
      <4>1. spool \in Seq(Report) /\ Unique(spool)
        BY <1>t DEF TypeOK, OnePlace
      <4>2. Elems(Tail(spool)) = Elems(spool) \ {spool[1]}
        BY <3>2, <4>1, TailElems
      <4> QED BY <3>2, <4>2 DEF SpoolSet, Elems
    <3> QED BY <1>8, <1>t, <3>1, <3>2, RemovesHead
  <2>5. \A r \in Report : Placed(r) => Placed(r)' \/ Complete(r)'
    BY <1>g, <2>1, <2>2, <2>3, <2>4, InHandHeld DEF Placed
  <2> QED BY <1>1, <1>g, <1>s, <2>2, <2>3, <2>4, <2>5
<1>9. ASSUME NEW p \in Proc, Enqueue(p) PROVE LeftUpstream'
  <2>1. Moves(p, "idle", <<>>, -1, FALSE) /\ spool' = Append(spool, Current(p))
        /\ todo' = todo
    BY <1>9, <1>t, StopMoves DEF Enqueue
  <2>2. Held(p) = {Current(p)} /\ Current(p) \in Report
    BY <1>9, <1>t, CurrentFirst DEF Enqueue, Held
  <2>3. SpoolSet' = SpoolSet \cup {Current(p)}
    <3>1. spool \in Seq(Report)
      BY <1>t DEF TypeOK
    <3>2. Elems(Append(spool, Current(p))) = Elems(spool) \cup {Current(p)}
      BY <2>2, <3>1, AppendElems
    <3> QED BY <2>1, <3>2 DEF SpoolSet, Elems
  <2>4. /\ Listed(p)' = {}
        /\ \A q \in Proc \ {p} : Held(q)' = Held(q) /\ Listed(q)' = Listed(q)
    BY <2>1, IdleAfter, OthersKept
  <2>5. \A r \in Report : Placed(r) => Placed(r)'
    BY <2>1, <2>2, <2>3, <2>4, InHandHeld DEF Placed
  <2> QED BY <1>1, <1>s, <2>3, <2>4, <2>5
<1>10. ASSUME NEW p \in Proc, Crash(p) PROVE LeftUpstream'
  <2>1. Moves(p, "idle", <<>>, -1, FALSE) /\ UNCHANGED <<todo, spool>>
        /\ Held(p) \subseteq lost'
    BY <1>10, <1>t, StopMoves DEF Crash, Held
  <2> QED BY <1>2, <2>1, IdleAfter
<1>11. CASE UNCHANGED vars
  <2>1. /\ \A r \in Report : Placed(r)' <=> Placed(r)
        /\ \A q \in Proc : Listed(q)' = Listed(q)
        /\ SpoolSet' = SpoolSet
    BY <1>11 DEF vars, Placed, SpoolSet, InHand, Listed, ItemSet, Elems, Current
  <2> QED BY <1>1, <1>s, <2>1
<1> QED BY <1>3, <1>4, <1>5, <1>6, <1>7, <1>8, <1>9, <1>10, <1>11 DEF Next, Advance

-----------------------------------------------------------------------------
(* The first three layers are an inductive invariant of their own.         *)
LEMMA SafeInitially == Init => Safe
<1> SUFFICES ASSUME Init PROVE Safe
  OBVIOUS
<1>1. TypeOK /\ Shaped
  BY TypesInitially
<1>2. SpoolSet = {} /\ InHand = {} /\ \A p \in Proc : op[p].kind = "idle"
  BY DEF Init, SpoolSet, InHand, Idle
<1>3. \A p \in Proc : Held(p) = {} /\ Listed(p) = {} /\ ~ Draining(p) /\ ~ Pushing(p)
  BY <1>2 DEF Held, Listed, Draining, Pushing
<1>4. OnePlace
  BY <1>2, <1>3 DEF OnePlace, Unique, Init
<1>5. LostCounted
  BY FS_EmptySet DEF LostCounted, Init
<1>6. Delivered /\ InOrder
  BY <1>2, <1>3 DEF Delivered, Answered, LeftUpstream, InOrder, Init
<1> QED BY <1>1, <1>4, <1>5, <1>6 DEF Safe, Core

LEMMA SafeStep == Safe /\ [Next]_vars => Safe'
<1> SUFFICES ASSUME Safe, [Next]_vars PROVE Safe'
  OBVIOUS
<1>1. (TypeOK /\ Shaped)'
  BY TypesStep DEF Safe, Core
<1>2. Core'
  BY <1>1, PlacesStep, LostStep DEF Safe, Core
<1>3. InOrder'
  BY OrderStep DEF Safe
<1>4. Delivered'
  BY <1>1, AnsweredStep, LeftStep DEF Safe, Delivered
<1> QED BY <1>2, <1>3, <1>4 DEF Safe

(* The state of the spool, of the processes and of the upstream store      *)
(* always has its type.                                                    *)
THEOREM TypeCorrect == Spec => []TypeOK
<1>1. Safe => TypeOK
  BY DEF Safe, Core
<1> QED BY <1>1, SafeInitially, SafeStep, PTL DEF Spec

(* A report leaves the spool, or the hands of the process that pushed it,  *)
(* only when it is upstream with its whole trace, but for batches that were *)
(* answered by a redirect, whatever calls fail and however the drains of   *)
(* any number of processes overlap; at most one report is lost for every   *)
(* process killed, and never a queued one.                                 *)
THEOREM NothingIsLost == Spec => []NothingLost
<1>1. Safe => NothingLost
  BY DEF Safe, Core, OnePlace, LostCounted, Delivered, LeftUpstream, NothingLost
<1> QED BY <1>1, SafeInitially, SafeStep, PTL DEF Spec

(* Every step of the reporter is a step of the store-and-forward queue     *)
(* over the spool, or leaves queue and deliveries alone.                   *)
THEOREM SpoolIsStoreAndForward == Spec => ImplementsStoreAndForward
<1> DEFINE Done == {r \in Report : Complete(r)}
<1>1. Init => Queue!Init
  BY DEF Init, Queue!Init
<1>2. ASSUME Safe, Safe', [Next]_vars PROVE [Queue!Next]_<<spool, Done>>
  <2>t. TypeOK /\ Shaped /\ (TypeOK)' /\ Answered /\ InOrder
    BY <1>2 DEF Safe, Core, Delivered
  <2>g. \A r \in Report : Complete(r) => Complete(r)'
    BY <1>2, <2>t, CompleteStays
  (* a call may complete the report it is about, and no other *)
  <2>1. ASSUME NEW r \in Report, spool' = spool,
               \A x \in Report \ {r} : Complete(x)' => Complete(x)
        PROVE  [Queue!Next]_<<spool, Done>>
    <3>1. Done' = Done \/ Done' = Done \cup {r}
      BY <2>1, <2>g
    <3>2. CASE Done' = Done
      BY <2>1, <3>2
    <3>3. CASE Done' = Done \cup {r}
      BY <2>1, <3>3 DEF Queue!Next, Queue!Deliver
    <3> QED BY <3>1, <3>2, <3>3
  <2>2. ASSUME UNCHANGED <<rows, trace>> PROVE Done' = Done
    BY <2>2, <2>t, CompleteIs, CompleteIsAfter
  <2>3. ASSUME NEW p \in Proc, \/ PushRunOk(p) \/ PushRunFails(p) \/ PushRunRejected(p)
                               \/ PushSamplesOk(p) \/ PushSamplesFails(p)
        PROVE  [Queue!Next]_<<spool, Done>>
    <3>1. Current(p) \in Report /\ spool' = spool
      BY <2>3, <2>t, CurrentFirst DEF PushRunOk, PushRunFails, PushRunRejected, PushSamplesOk,
         PushSamplesFails, Pushing
    <3>2. ASSUME NEW x \in Report \ {Current(p)}
          PROVE  (x \in rows' <=> x \in rows) /\ trace'[x] = trace[x]
      BY <2>3, <2>t, <3>1 DEF PushRunOk, PushRunFails, PushRunRejected, PushSamplesOk,
         PushSamplesFails, AppendBatch, TypeOK
    <3>3. \A x \in Report \ {Current(p)} : Complete(x)' => Complete(x)
      BY <2>t, <3>2, CompleteIs, CompleteIsAfter
    <3> QED BY <2>1, <3>1, <3>3
  <2>4. ASSUME NEW p \in Proc, RemovePushed(p) PROVE [Queue!Next]_<<spool, Done>>
    <3>1. Complete(Current(p)) /\ Current(p) \in Report
      BY <2>4, <2>t, CompleteAtEnd, CurrentFirst DEF RemovePushed, Pushing
    <3>2. Done' = Done
      BY <2>2, <2>4 DEF RemovePushed
    <3>3. CASE spool' = spool
      BY <3>2, <3>3
    <3>4. CASE spool # <<>> /\ spool[1] = Current(p) /\ spool' = Tail(spool)
      <4>1. Head(spool) = Current(p)
        BY <3>4, <2>t DEF TypeOK
      <4>2. Queue!Leave
        BY <3>1, <3>2, <3>4, <4>1 DEF Queue!Leave
      <4> QED BY <4>2 DEF Queue!Next
    <3> QED BY <2>4, <2>t, <3>3, <3>4, RemovesHead
  <2>5. ASSUME NEW p \in Proc, Enqueue(p) PROVE [Queue!Next]_<<spool, Done>>
    <3>1. Current(p) \in Report /\ spool' = Append(spool, Current(p))
      BY <2>5, <2>t, CurrentFirst DEF Enqueue
    <3>2. Done' = Done
      BY <2>2, <2>5 DEF Enqueue
    <3> QED BY <3>1, <3>2 DEF Queue!Next, Queue!Accept
  <2>6. ASSUME NEW p \in Proc, ReportRun(p) \/ BeginDrain(p) \/ FinishLive(p) \/ Crash(p)
        PROVE  [Queue!Next]_<<spool, Done>>
    BY <2>2, <2>6 DEF ReportRun, BeginDrain, FinishLive, Crash
  <2>7. CASE UNCHANGED vars
    BY <2>2, <2>7 DEF vars
  <2> QED BY <1>2, <2>3, <2>4, <2>5, <2>6, <2>7 DEF Next, Advance
<1> QED BY <1>1, <1>2, SafeInitially, SafeStep, PTL
       DEF Spec, ImplementsStoreAndForward, Queue!Spec

-----------------------------------------------------------------------------
(* Counting the batches upstream                                           *)
LEMMA AtFinite ==
  ASSUME NEW r, NEW b
  PROVE  /\ IsFiniteSet(At(r, b)) /\ Cardinality(At(r, b)) \in Nat
         /\ IsFiniteSet(Without(r)) /\ Cardinality(Without(r)) \in Nat
<1>1. At(r, b) \subseteq Proc /\ Without(r) \subseteq Proc
  BY DEF At, Without
<1> QED BY <1>1, ProcAssumption, FS_Subset, FS_CardinalityType

Own(p, r, b) == IF p \in At(r, b) THEN 1 ELSE 0

(* What a step of p adds to the pushes that ended                          *)
LEMMA EndedAfter ==
  ASSUME TypeOK, (TypeOK)', NEW p \in Proc, NEW r \in Report, NEW b \in Batch,
         \A q \in Proc \ {p} : op'[q] = op[q]
  PROVE  /\ Ended(r, b) \in Int /\ Ended(r, b)' \in Int
         /\ Ended(r, b)' = Ended(r, b) + (trace'[r][b] - trace[r][b])
                             + (Own(p, r, b) - Own(p, r, b)')
<1>1. At(r, b)' \ {p} = At(r, b) \ {p}
  BY DEF At, Pushing, Current
<1>2. /\ IsFiniteSet(At(r, b)) /\ Cardinality(At(r, b)) \in Nat
      /\ IsFiniteSet(At(r, b)') /\ Cardinality(At(r, b)') \in Nat
  <2>1. At(r, b)' \subseteq Proc
    BY DEF At
  <2> QED BY <2>1, AtFinite, ProcAssumption, FS_Subset, FS_CardinalityType
<1>3. trace[r][b] \in Nat /\ trace'[r][b] \in Nat
  BY DEF TypeOK
<1>4. Cardinality(At(r, b)') - Own(p, r, b)' = Cardinality(At(r, b)) - Own(p, r, b)
  BY <1>1, <1>2, OneMore DEF Own
<1>5. Own(p, r, b) \in Int /\ Own(p, r, b)' \in Int
  BY DEF Own
<1> QED BY <1>2, <1>3, <1>4, <1>5 DEF Ended

(* A push of c that ends with the first m batches appended                 *)
Adds(c, m) ==
  \A r \in Report, b \in Batch :
    Ended(r, b)' = Ended(r, b) + IF r = c /\ b <= m THEN 1 ELSE 0

LEMMA EndedTyped ==
  ASSUME TypeOK, NEW r \in Report, NEW b \in Batch
  PROVE  Ended(r, b) \in Int
BY AtFinite DEF TypeOK, Ended

(* A step after which p pushes nothing                                     *)
LEMMA StopAdds ==
  ASSUME TypeOK, (TypeOK)', Shaped, NEW p \in Proc, UNCHANGED trace,
         \A q \in Proc \ {p} : op'[q] = op[q],
         Pushing(p)' => op'[p].sent < 1
  PROVE  IF Pushing(p) THEN Adds(Current(p), op[p].sent) ELSE \A c : Adds(c, 0)
<1>1. ASSUME NEW r \in Report, NEW b \in Batch
      PROVE  Ended(r, b)' = Ended(r, b) + Own(p, r, b)
  <2>1. Own(p, r, b)' = 0
    BY <1>1, BatchesAssumption DEF Own, At, Batch, TypeOK
  <2>2. trace[r][b] \in Nat
    BY DEF TypeOK
  <2>3. Own(p, r, b) \in Int
    BY DEF Own
  <2> QED BY <2>1, <2>2, <2>3, EndedAfter
<1>2. CASE Pushing(p)
  <2>1. \A r \in Report, b \in Batch :
          Own(p, r, b) = IF r = Current(p) /\ b <= op[p].sent THEN 1 ELSE 0
    BY <1>2, BatchesAssumption DEF Own, At, Batch, TypeOK
  <2> QED BY <1>1, <1>2, <2>1 DEF Adds
<1>3. CASE ~ Pushing(p)
  <2>1. \A r \in Report, b \in Batch : Own(p, r, b) = 0 /\ ~ b <= 0
    BY <1>3, BatchesAssumption DEF Own, At, Batch
  <2> QED BY <1>1, <1>3, <2>1, EndedTyped DEF Adds
<1> QED BY <1>2, <1>3

LEMMA BatchTaken ==
  ASSUME TypeOK, NEW p \in Proc, Current(p) \in Report, op[p].sent + 1 \in Batch,
         AppendBatch(p), NEW r \in Report, NEW b \in Batch
  PROVE  trace'[r][b] =
           trace[r][b] + IF r = Current(p) /\ b = op[p].sent + 1 THEN 1 ELSE 0
<1>1. trace \in [Report -> [Batch -> Nat]]
  BY DEF TypeOK
<1>2. trace' = [trace EXCEPT ![Current(p)] =
                  [@ EXCEPT ![op[p].sent + 1] = trace[Current(p)][op[p].sent + 1] + 1]]
  BY <1>1 DEF AppendBatch
<1>3. CASE r = Current(p)
  BY <1>1, <1>2, <1>3
<1>4. CASE r # Current(p)
  BY <1>1, <1>2, <1>4
<1> QED BY <1>3, <1>4

LEMMA PushSamplesOkAdds ==
  ASSUME TypeOK, (TypeOK)', Shaped, NEW p \in Proc, PushSamplesOk(p)
  PROVE  \A c : Adds(c, 0)
<1> DEFINE n == op[p].sent
<1>1. Moves(p, op[p].kind, op[p].items, n + 1, TRUE)
  BY PushSamplesOkMoves
<1>2. /\ Current(p)' = Current(p) /\ op'[p].sent = n + 1 /\ Pushing(p) /\ Pushing(p)'
      /\ n \in 0 .. Batches - 1 /\ Current(p) \in Report /\ n + 1 \in Batch
  BY <1>1, CurrentFirst, BatchesAssumption DEF Moves, Current, PushSamplesOk, Pushing, Batch
<1>3. ASSUME NEW r \in Report, NEW b \in Batch
      PROVE  Ended(r, b)' = Ended(r, b) /\ ~ b <= 0
  <2>1. Own(p, r, b) = IF r = Current(p) /\ b <= n THEN 1 ELSE 0
    BY <1>2, BatchesAssumption DEF Own, At, Batch
  <2>2. Own(p, r, b)' = IF r = Current(p) /\ b <= n + 1 THEN 1 ELSE 0
    BY <1>2, BatchesAssumption DEF Own, At, Batch
  <2>3. trace'[r][b] = trace[r][b] + IF r = Current(p) /\ b = n + 1 THEN 1 ELSE 0
    BY <1>2, <1>3, BatchTaken DEF PushSamplesOk
  <2>4. trace[r][b] \in Nat /\ b \in Nat /\ b > 0
    BY BatchesAssumption DEF TypeOK, Batch
  <2>5. \A q \in Proc \ {p} : op'[q] = op[q]
    BY <1>1 DEF Moves
  <2> QED BY <1>2, <2>1, <2>2, <2>3, <2>4, <2>5, EndedAfter
<1> QED BY <1>3, EndedTyped DEF Adds

LEMMA PushSamplesFailsAdds ==
  ASSUME TypeOK, (TypeOK)', Shaped, NEW p \in Proc, PushSamplesFails(p), AppendBatch(p)
  PROVE  Adds(Current(p), op[p].sent + 1)
<1> DEFINE n == op[p].sent
<1>1. PICK l : GiveUp(p, l)
  BY DEF PushSamplesFails
<1>p. /\ Pushing(p) /\ n \in 0 .. Batches - 1
      /\ Current(p) \in Report /\ n + 1 \in Batch
  BY CurrentFirst, BatchesAssumption DEF PushSamplesFails, Pushing, Batch
<1>q. ~ Pushing(p)'
  <2>1. CASE op'[p].kind = "enqueue"
    BY <2>1 DEF Pushing
  <2>2. CASE op'[p].kind = "idle"
    BY <2>2 DEF Pushing
  <2> QED BY <1>1, <1>p, <2>1, <2>2, GiveUpMoves DEF Moves
<1>2. /\ Pushing(p) /\ ~ Pushing(p)' /\ n \in 0 .. Batches - 1
      /\ Current(p) \in Report /\ n + 1 \in Batch
  BY <1>p, <1>q
<1>3. \A q \in Proc \ {p} : op'[q] = op[q]
  BY <1>1, <1>2, GiveUpMoves DEF Moves
<1>4. ASSUME NEW r \in Report, NEW b \in Batch
      PROVE  Ended(r, b)' = Ended(r, b) + IF r = Current(p) /\ b <= n + 1 THEN 1 ELSE 0
  <2>1. Own(p, r, b) = IF r = Current(p) /\ b <= n THEN 1 ELSE 0
    BY <1>2, BatchesAssumption DEF Own, At, Batch
  <2>2. Own(p, r, b)' = 0
    BY <1>2 DEF Own, At
  <2>3. trace'[r][b] = trace[r][b] + IF r = Current(p) /\ b = n + 1 THEN 1 ELSE 0
    BY <1>p, <1>4, BatchTaken
  <2>4. trace[r][b] \in Nat /\ b \in Nat
    BY BatchesAssumption DEF TypeOK, Batch
  <2> QED BY <1>2, <1>3, <2>1, <2>2, <2>3, <2>4, EndedAfter
<1> QED BY <1>4 DEF Adds

(* A batch is appended once the row of its run is upstream.                *)
LEMMA RowsFirst ==
  ASSUME Safe, (TypeOK)', [Next]_vars, Layered, NEW r \in Report, NEW b \in Batch,
         trace'[r][b] > 0
  PROVE  r \in rows'
<1>t. TypeOK /\ Shaped /\ Answered /\ rows \subseteq rows'
  BY Grows DEF Safe, Core, Delivered
<1>b. trace[r][b] > 0 => r \in rows'
  BY <1>t DEF Layered
<1>1. CASE UNCHANGED trace
  BY <1>1, <1>b
<1>2. ASSUME NEW p \in Proc, Pushing(p), op[p].sent \in 0 .. Batches - 1, AppendBatch(p)
      PROVE  r \in rows'
  <2>1. CASE r = Current(p)
    BY <1>2, <1>t, <2>1 DEF Answered
  <2>2. CASE r # Current(p)
    <3>1. trace'[r] = trace[r]
      BY <1>2, <1>t, <2>2 DEF AppendBatch, TypeOK
    <3> QED BY <1>b, <3>1
  <2> QED BY <2>1, <2>2
<1> QED BY <1>1, <1>2 DEF Next, Advance, ReportRun, BeginDrain, PushRunOk, PushRunFails,
     PushRunRejected, PushSamplesOk, PushSamplesFails, FinishLive, RemovePushed, Enqueue,
     Crash, vars

LEMMA LayeredBy ==
  ASSUME Safe, (TypeOK)', [Next]_vars, Layered, NEW c, NEW m \in Int, Adds(c, m)
  PROVE  Layered'
<1>1. ASSUME NEW r \in Report, NEW b \in Batch
      PROVE  /\ 0 <= Ended(r, b)'
             /\ \A x \in 1 .. b : Ended(r, b)' <= Ended(r, x)'
  <2>1. Ended(r, b) \in Int /\ 0 <= Ended(r, b) /\ b \in Nat
    BY EndedTyped, BatchesAssumption DEF Safe, Core, Layered, Batch
  <2>2. Ended(r, b)' = Ended(r, b) + IF r = c /\ b <= m THEN 1 ELSE 0
    BY DEF Adds
  <2>3. ASSUME NEW x \in 1 .. b PROVE Ended(r, b)' <= Ended(r, x)'
    <3>1. x \in Batch /\ Ended(r, x) \in Int /\ Ended(r, b) <= Ended(r, x)
      BY <2>1, EndedTyped, BatchesAssumption DEF Safe, Core, Layered, Batch
    <3>2. Ended(r, x)' = Ended(r, x) + IF r = c /\ x <= m THEN 1 ELSE 0
      BY <3>1 DEF Adds
    <3> QED BY <2>1, <2>2, <3>1, <3>2
  <2> QED BY <2>1, <2>2, <2>3
<1>2. \A r \in Report, b \in Batch : trace'[r][b] > 0 => r \in rows'
  BY RowsFirst
<1> QED BY <1>1, <1>2 DEF Layered

LEMMA PaidBy ==
  ASSUME TypeOK, Paid, NEW c, NEW m \in Int, Adds(c, m),
         \A r \in Report : Room(r) \in Nat /\ Room(r)' \in Nat /\ Room(r) <= Room(r)',
         m >= 1 => Room(c) + 1 <= Room(c)'
  PROVE  Paid'
<1>1. ASSUME NEW r \in Report, NEW b \in Batch PROVE Ended(r, b)' <= Room(r)'
  <2>1. Ended(r, b) \in Int /\ Ended(r, b) <= Room(r) /\ b \in Nat /\ b >= 1
    BY EndedTyped, BatchesAssumption DEF Paid, Batch
  <2>2. Ended(r, b)' = Ended(r, b) + IF r = c /\ b <= m THEN 1 ELSE 0
    BY DEF Adds
  <2> QED BY <2>1, <2>2
<1> QED BY <1>1 DEF Paid

(* The room for duplicates shrinks for no report that stays where it is or *)
(* leaves, as long as no process lists one that has left.                  *)
LEMMA RoomGrows ==
  ASSUME TypeOK, (TypeOK)', NEW r \in Report,
         NEW d \in {0, 1}, abandoned[r] + d <= abandoned'[r],
         Placed(r)' => Placed(r),
         ~ Placed(r) => Without(r) \subseteq Without(r)'
  PROVE  Room(r) \in Nat /\ Room(r)' \in Nat /\ Room(r) + d <= Room(r)'
<1>1. abandoned[r] \in Nat /\ abandoned'[r] \in Nat
  BY DEF TypeOK
<1>2. IsFiniteSet(Without(r)') /\ Cardinality(Without(r)') \in Nat
  <2>1. Without(r)' \subseteq Proc
    BY DEF Without
  <2> QED BY <2>1, ProcAssumption, FS_Subset, FS_CardinalityType
<1>3. Cardinality(Without(r)) \in Nat
  BY AtFinite
<1>4. ~ Placed(r) => Cardinality(Without(r)) <= Cardinality(Without(r)')
  BY <1>2, FS_Subset
<1> QED BY <1>1, <1>2, <1>3, <1>4 DEF Room

(* A step pays for what it adds: it ends the first m batches of a push of  *)
(* c, and makes room for one more if there was a batch.                    *)
LEMMA CountsBy ==
  ASSUME Safe, (TypeOK)', [Next]_vars, Layered, Paid, NEW c, NEW m \in Int, Adds(c, m),
         \A r \in Report : abandoned[r] <= abandoned'[r],
         \A r \in Report : Placed(r)' => Placed(r),
         \A r \in Report : ~ Placed(r) => Without(r) \subseteq Without(r)',
         m >= 1 => Room(c) + 1 <= Room(c)'
  PROVE  Layered' /\ Paid'
<1>1. TypeOK
  BY DEF Safe, Core
<1>2. ASSUME NEW r \in Report
      PROVE  Room(r) \in Nat /\ Room(r)' \in Nat /\ Room(r) <= Room(r)'
  <2>1. abandoned[r] + 0 <= abandoned'[r]
    BY <1>1 DEF TypeOK
  <2>2. Room(r) \in Nat /\ Room(r)' \in Nat /\ Room(r) + 0 <= Room(r)'
    BY <1>1, <2>1, RoomGrows
  <2> QED BY <2>2
<1>3. Layered'
  BY LayeredBy
<1>4. Paid'
  BY <1>1, <1>2, PaidBy
<1> QED BY <1>3, <1>4

LEMMA ReportRunCounts ==
  ASSUME Safe, (TypeOK)', [Next]_vars, Layered, Paid, NEW p \in Proc, ReportRun(p)
  PROVE  Layered' /\ Paid'
<1>t. TypeOK /\ Shaped
  BY DEF Safe, Core
<1>1. PICK x \in todo : Moves(p, "live", <<x>>, -1, FALSE) /\ todo' = todo \ {x}
  BY <1>t, ReportRunMoves
<1>2. /\ Held(p)' = {x} /\ Listed(p)' = {}
      /\ \A q \in Proc \ {p} : Held(q)' = Held(q) /\ Listed(q)' = Listed(q)
  BY <1>1, LiveAfter, OthersKept
<1>3. SpoolSet' = SpoolSet /\ UNCHANGED <<abandoned, trace>> /\ ~ Pushing(p)
  BY DEF ReportRun, SpoolSet, Pushing
<1>4. Adds(x, 0)
  <2>1. op'[p].sent < 1 /\ \A q \in Proc \ {p} : op'[q] = op[q]
    BY <1>1 DEF Moves
  <2> QED BY <1>t, <1>3, <2>1, StopAdds
<1>5. \A r \in Report : Placed(r)' => Placed(r)
  BY <1>1, <1>2, <1>3, InHandHeld DEF Placed
<1>6. \A r \in Report : Without(r) \subseteq Without(r)'
  BY <1>2 DEF Without
<1>7. \A r \in Report : abandoned[r] <= abandoned'[r]
  BY <1>t, <1>3 DEF TypeOK
<1> QED BY <1>4, <1>5, <1>6, <1>7, CountsBy

LEMMA BeginDrainCounts ==
  ASSUME Safe, (TypeOK)', [Next]_vars, Layered, Paid, NEW p \in Proc, BeginDrain(p)
  PROVE  Layered' /\ Paid'
<1>t. TypeOK /\ Shaped
  BY DEF Safe, Core
<1>1. Moves(p, "drain", spool, -1, FALSE)
  BY <1>t, BeginDrainMoves
<1>2. /\ Held(p)' = {} /\ Listed(p)' = SpoolSet
      /\ \A q \in Proc \ {p} : Held(q)' = Held(q) /\ Listed(q)' = Listed(q)
  BY <1>1, OwnAfter, OthersKept DEF SpoolSet, Elems
<1>3. SpoolSet' = SpoolSet /\ UNCHANGED <<todo, abandoned, trace>> /\ ~ Pushing(p)
  BY DEF BeginDrain, SpoolSet, Pushing
<1>4. \A c : Adds(c, 0)
  <2>1. op'[p].sent < 1 /\ \A q \in Proc \ {p} : op'[q] = op[q]
    BY <1>1 DEF Moves
  <2> QED BY <1>t, <1>3, <2>1, StopAdds
<1>5. \A r \in Report : Placed(r)' => Placed(r)
  BY <1>2, <1>3, InHandHeld DEF Placed
<1>6. \A r \in Report : ~ Placed(r) => Without(r) \subseteq Without(r)'
  BY <1>2 DEF Without, Placed
<1>7. \A r \in Report : abandoned[r] <= abandoned'[r]
  BY <1>t, <1>3 DEF TypeOK
<1> QED BY <1>4, <1>5, <1>6, <1>7, CountsBy

(* A step that neither ends a push nor moves a report                      *)
LEMMA NothingCounts ==
  ASSUME Safe, (TypeOK)', [Next]_vars, Layered, Paid,
         NEW c, NEW m \in Int, Adds(c, m), m < 1,
         UNCHANGED <<todo, abandoned>>, SpoolSet' \cup InHand' = SpoolSet \cup InHand,
         \A q \in Proc : Listed(q)' \subseteq Listed(q)
  PROVE  Layered' /\ Paid'
<1>t. TypeOK
  BY DEF Safe, Core
<1>1. \A r \in Report : Placed(r)' => Placed(r)
  BY DEF Placed
<1>2. \A r \in Report : Without(r) \subseteq Without(r)'
  BY DEF Without
<1>3. \A r \in Report : abandoned[r] <= abandoned'[r]
  BY <1>t DEF TypeOK
<1> QED BY <1>1, <1>2, <1>3, CountsBy

LEMMA PushOkCounts ==
  ASSUME Safe, (TypeOK)', [Next]_vars, Layered, Paid,
         NEW p \in Proc, PushRunOk(p) \/ PushSamplesOk(p)
  PROVE  Layered' /\ Paid'
<1>t. TypeOK /\ Shaped
  BY DEF Safe, Core
<1>1. PICK n, l : Moves(p, op[p].kind, op[p].items, n, l)
  BY <1>t, PushRunOkMoves, PushSamplesOkMoves
<1>2. /\ Held(p)' = Held(p) /\ Listed(p)' = Listed(p)
      /\ \A q \in Proc \ {p} : Held(q)' = Held(q) /\ Listed(q)' = Listed(q)
  BY <1>1, OwnAfter, OthersKept DEF Held, Listed, Current, ItemSet
<1>3. SpoolSet' = SpoolSet /\ UNCHANGED <<todo, abandoned>> /\ Pushing(p)
  BY DEF PushRunOk, PushSamplesOk, SpoolSet
<1>4. \E m \in {-1, 0} : Adds(Current(p), m)
  <2>1. CASE PushRunOk(p)
    <3>1. Moves(p, op[p].kind, op[p].items, 0, op[p].landed)
      BY <1>t, <2>1, PushRunOkMoves
    <3>2. op'[p].sent < 1 /\ \A q \in Proc \ {p} : op'[q] = op[q]
      BY <3>1 DEF Moves
    <3>3. op[p].sent = -1 /\ UNCHANGED trace
      BY <2>1 DEF PushRunOk
    <3> QED BY <1>t, <1>3, <3>2, <3>3, StopAdds
  <2>2. CASE PushSamplesOk(p)
    BY <1>t, <2>2, PushSamplesOkAdds
  <2> QED BY <2>1, <2>2
<1>5. InHand' = InHand
  BY <1>2, InHandHeld
<1> QED BY <1>2, <1>3, <1>4, <1>5, NothingCounts

LEMMA EnqueueCounts ==
  ASSUME Safe, (TypeOK)', [Next]_vars, Layered, Paid, NEW p \in Proc, Enqueue(p)
  PROVE  Layered' /\ Paid'
<1>t. TypeOK /\ Shaped
  BY DEF Safe, Core
<1>1. /\ Moves(p, "idle", <<>>, -1, FALSE) /\ spool' = Append(spool, Current(p))
      /\ UNCHANGED <<todo, abandoned, trace>> /\ ~ Pushing(p)
  BY <1>t, StopMoves DEF Enqueue, Pushing
<1>2. Held(p) = {Current(p)} /\ Current(p) \in Report
  BY <1>t, CurrentFirst DEF Enqueue, Held
<1>3. SpoolSet' = SpoolSet \cup {Current(p)}
  <2>1. spool \in Seq(Report)
    BY <1>t DEF TypeOK
  <2>2. Elems(Append(spool, Current(p))) = Elems(spool) \cup {Current(p)}
    BY <1>2, <2>1, AppendElems
  <2> QED BY <1>1, <2>2 DEF SpoolSet, Elems
<1>4. /\ Listed(p)' = {} /\ Held(p)' = {}
      /\ \A q \in Proc \ {p} : Held(q)' = Held(q) /\ Listed(q)' = Listed(q)
  BY <1>1, IdleAfter, OthersKept
<1>5. SpoolSet' \cup InHand' = SpoolSet \cup InHand
  BY <1>2, <1>3, <1>4, InHandHeld
<1>6. Adds(Current(p), 0)
  <2>1. op'[p].sent < 1 /\ \A q \in Proc \ {p} : op'[q] = op[q]
    BY <1>1 DEF Moves
  <2> QED BY <1>t, <1>1, <2>1, StopAdds
<1> QED BY <1>1, <1>4, <1>5, <1>6, NothingCounts

(* A push given up is paid for by the count of abandoned pushes.           *)
LEMMA AbandonedCounts ==
  ASSUME Safe, (TypeOK)', [Next]_vars, Layered, Paid, NEW c \in Report, NEW d \in {0, 1},
         abandoned' = [abandoned EXCEPT ![c] = @ + d],
         NEW m \in Int, Adds(c, m), m >= 1 => d = 1,
         \A r \in Report : Placed(r)' => Placed(r),
         \A r \in Report : Without(r) \subseteq Without(r)'
  PROVE  Layered' /\ Paid'
<1>t. TypeOK
  BY DEF Safe, Core
<1>1. \A r \in Report : abandoned[r] <= abandoned'[r]
  BY <1>t DEF TypeOK
<1>2. abandoned[c] + d <= abandoned'[c]
  BY <1>t DEF TypeOK
<1>3. Room(c) + d <= Room(c)'
  BY <1>t, <1>2, RoomGrows
<1> QED BY <1>1, <1>3, CountsBy

LEMMA GiveUpCounts ==
  ASSUME Safe, (TypeOK)', [Next]_vars, Layered, Paid,
         NEW p \in Proc, Pushing(p), NEW l \in BOOLEAN, GiveUp(p, l),
         UNCHANGED <<todo, spool>>,
         NEW m \in Int, Adds(Current(p), m), m >= 1 => l
  PROVE  Layered' /\ Paid'
<1>t. TypeOK /\ Shaped
  BY DEF Safe, Core
<1>1. /\ Held(p)' = Held(p) /\ Listed(p)' = {}
      /\ \A q \in Proc \ {p} : Held(q)' = Held(q) /\ Listed(q)' = Listed(q)
  <2>1. CASE /\ op[p].kind = "live"
             /\ Moves(p, "enqueue", op[p].items, op[p].sent, op[p].landed)
    BY <2>1, OwnAfter, OthersKept DEF Held, Current
  <2>2. CASE op[p].kind = "drain" /\ Moves(p, "idle", <<>>, -1, FALSE)
    BY <2>2, IdleAfter, OthersKept DEF Held
  <2> QED BY <1>t, <2>1, <2>2, GiveUpMoves
<1>2. SpoolSet' = SpoolSet /\ InHand' = InHand
  BY <1>1, InHandHeld DEF SpoolSet
<1>3. \A r \in Report : Placed(r)' => Placed(r)
  BY <1>2 DEF Placed
<1>4. \A r \in Report : Without(r) \subseteq Without(r)'
  BY <1>1 DEF Without
<1>5. Current(p) \in Report
  BY <1>t, CurrentFirst DEF Pushing
<1>6. \E d \in {0, 1} : /\ abandoned' = [abandoned EXCEPT ![Current(p)] = @ + d]
                        /\ m >= 1 => d = 1
  BY DEF GiveUp
<1> QED BY <1>3, <1>4, <1>5, <1>6, AbandonedCounts

LEMMA FailCounts ==
  ASSUME Safe, (TypeOK)', [Next]_vars, Layered, Paid, NEW p \in Proc,
         PushRunFails(p) \/ PushRunRejected(p) \/ PushSamplesFails(p)
  PROVE  Layered' /\ Paid'
<1>t. TypeOK /\ Shaped
  BY DEF Safe, Core
<1>1. Pushing(p) /\ UNCHANGED <<todo, spool>>
  BY DEF PushRunFails, PushRunRejected, PushSamplesFails
<1>2. op[p].sent \in Int /\ op[p].landed \in BOOLEAN
      /\ (op[p].sent > 0 => op[p].landed)
  BY <1>t, BatchesAssumption DEF TypeOK, Shaped, ShapedAs
(* the batch that failed did not land, or it is the run push that failed   *)
<1>3. ASSUME UNCHANGED trace, NEW l \in BOOLEAN, GiveUp(p, l), op[p].sent >= 1 => l
      PROVE  Layered' /\ Paid'
  <2>1. ~ Pushing(p)' /\ \A q \in Proc \ {p} : op'[q] = op[q]
    <3>1. CASE op'[p].kind = "enqueue"
      BY <1>t, <1>1, <1>3, <3>1, GiveUpMoves DEF Moves, Pushing
    <3>2. CASE op'[p].kind = "idle"
      BY <1>t, <1>1, <1>3, <3>2, GiveUpMoves DEF Moves, Pushing
    <3> QED BY <1>t, <1>1, <1>3, <3>1, <3>2, GiveUpMoves DEF Moves
  <2>2. Adds(Current(p), op[p].sent)
    BY <1>t, <1>1, <1>3, <2>1, StopAdds
  <2> QED BY <1>1, <1>2, <1>3, <2>2, GiveUpCounts
<1>4. CASE PushRunFails(p) \/ PushRunRejected(p)
  <2>1. UNCHANGED trace /\ GiveUp(p, FALSE) /\ op[p].sent = -1
    BY <1>4 DEF PushRunFails, PushRunRejected
  <2>2. op[p].sent >= 1 => FALSE
    BY <2>1
  <2>3. FALSE \in BOOLEAN
    OBVIOUS
  <2> QED BY <1>3, <2>1, <2>2, <2>3
<1>5. CASE PushSamplesFails(p) /\ UNCHANGED trace /\ GiveUp(p, op[p].landed)
  BY <1>2, <1>3, <1>5
<1>6. CASE PushSamplesFails(p) /\ AppendBatch(p) /\ GiveUp(p, TRUE)
  <2>1. Adds(Current(p), op[p].sent + 1) /\ op[p].sent + 1 \in Int
    BY <1>t, <1>2, <1>6, PushSamplesFailsAdds
  <2> QED BY <1>1, <1>6, <2>1, GiveUpCounts
<1> QED BY <1>4, <1>5, <1>6 DEF PushSamplesFails

LEMMA CrashCounts ==
  ASSUME Safe, (TypeOK)', [Next]_vars, Layered, Paid, NEW p \in Proc, Crash(p)
  PROVE  Layered' /\ Paid'
<1>t. TypeOK /\ Shaped
  BY DEF Safe, Core
<1>1. Moves(p, "idle", <<>>, -1, FALSE) /\ UNCHANGED <<todo, spool, trace>>
  BY <1>t, StopMoves DEF Crash
<1>2. /\ Held(p)' = {} /\ Listed(p)' = {}
      /\ \A q \in Proc \ {p} : Held(q)' = Held(q) /\ Listed(q)' = Listed(q)
  BY <1>1, IdleAfter, OthersKept
<1>3. \A r \in Report : Placed(r)' => Placed(r)
  <2>1. SpoolSet' = SpoolSet /\ InHand' \subseteq InHand
    BY <1>1, <1>2, InHandHeld DEF SpoolSet
  <2> QED BY <1>1, <2>1 DEF Placed
<1>4. \A r \in Report : Without(r) \subseteq Without(r)'
  BY <1>2 DEF Without
<1>5. Current(p) \in Report
  BY <1>t, CurrentFirst DEF Crash
<1>6. /\ op[p].sent \in Int /\ op[p].landed \in BOOLEAN
      /\ (op[p].sent > 0 => op[p].landed)
  BY <1>t, BatchesAssumption DEF TypeOK, Shaped, ShapedAs
<1>7. \E m \in Int : Adds(Current(p), m) /\ (m >= 1 => op[p].landed)
  <2>1. op'[p].sent < 1 /\ \A q \in Proc \ {p} : op'[q] = op[q]
    BY <1>1 DEF Moves
  <2>2. IF Pushing(p) THEN Adds(Current(p), op[p].sent) ELSE \A c : Adds(c, 0)
    BY <1>t, <1>1, <2>1, StopAdds
  <2> QED BY <1>6, <2>2
<1>8. \E d \in {0, 1} : /\ abandoned' = [abandoned EXCEPT ![Current(p)] = @ + d]
                        /\ op[p].landed => d = 1
  BY DEF Crash
<1> QED BY <1>3, <1>4, <1>5, <1>6, <1>7, <1>8, AbandonedCounts

(* A push that came to its end is paid for by the process that made it: it *)
(* no longer lists the report, which now has no place any more.            *)
LEMMA EndCounts ==
  ASSUME Safe, (TypeOK)', [Next]_vars, Layered, Paid, NEW p \in Proc, NEW c \in Report,
         Adds(c, Batches), UNCHANGED abandoned,
         \A r \in Report : Placed(r)' => Placed(r),
         \A r \in Report : ~ Placed(r) => Without(r) \subseteq Without(r)',
         ~ Placed(c)', c \notin Listed(p)',
         ~ Placed(c) => p \notin Without(c)
  PROVE  Layered' /\ Paid'
<1>t. TypeOK
  BY DEF Safe, Core
<1>1. \A r \in Report : abandoned[r] <= abandoned'[r]
  BY <1>t DEF TypeOK
<1>2. abandoned[c] \in Nat /\ abandoned'[c] = abandoned[c]
  BY <1>t DEF TypeOK
<1>3. /\ p \in Without(c)' /\ Without(c)' \subseteq Proc
      /\ IsFiniteSet(Without(c)') /\ Cardinality(Without(c)') \in Nat
  <2>1. p \in Without(c)' /\ Without(c)' \subseteq Proc
    BY DEF Without
  <2> QED BY <2>1, ProcAssumption, FS_Subset, FS_CardinalityType
<1>4. Room(c) + 1 <= Room(c)'
  <2>1. Room(c)' = abandoned[c] + Cardinality(Without(c)')
    BY <1>2 DEF Room
  <2>2. CASE Placed(c)
    <3>1. Cardinality({p}) = 1 /\ Cardinality({p}) <= Cardinality(Without(c)')
      BY <1>3, FS_Singleton, FS_Subset
    <3> QED BY <1>2, <1>3, <2>1, <2>2, <3>1 DEF Room
  <2>3. CASE ~ Placed(c)
    <3>1. Cardinality(Without(c) \cup {p}) = Cardinality(Without(c)) + 1
      BY <2>3, AtFinite, FS_AddElement
    <3>2. Cardinality(Without(c) \cup {p}) <= Cardinality(Without(c)')
      BY <1>3, <2>3, FS_Subset
    <3>3. Cardinality(Without(c)) \in Nat
      BY AtFinite
    <3> QED BY <1>2, <1>3, <2>1, <2>3, <3>1, <3>2, <3>3 DEF Room
  <2> QED BY <2>2, <2>3
<1> QED BY <1>1, <1>4, CountsBy, BatchesAssumption

LEMMA FinishLiveCounts ==
  ASSUME Safe, (TypeOK)', [Next]_vars, Layered, Paid, NEW p \in Proc, FinishLive(p)
  PROVE  Layered' /\ Paid'
<1>t. TypeOK /\ Shaped /\ OnePlace
  BY DEF Safe, Core
<1>c. PICK c : c = Current(p)
  OBVIOUS
<1>1. /\ Moves(p, "idle", <<>>, -1, FALSE) /\ UNCHANGED <<todo, spool, trace, abandoned>>
      /\ Pushing(p) /\ op[p].sent = Batches
  BY <1>t, StopMoves DEF FinishLive, Pushing
<1>2. /\ Held(p)' = {} /\ Listed(p)' = {}
      /\ \A q \in Proc \ {p} : Held(q)' = Held(q) /\ Listed(q)' = Listed(q)
  BY <1>1, IdleAfter, OthersKept
<1>3. Held(p) = {c} /\ c \in Report
  BY <1>c, <1>t, CurrentFirst DEF FinishLive, Held
<1>4. SpoolSet' = SpoolSet
  BY <1>1 DEF SpoolSet
<1>5. \A r \in Report : Placed(r)' => Placed(r)
  BY <1>1, <1>2, <1>4, InHandHeld DEF Placed
<1>6. ~ Placed(c)' /\ Placed(c)
  <2>1. c \notin todo \cup SpoolSet /\ \A q \in Proc \ {p} : c \notin Held(q)
    BY <1>t, <1>3 DEF OnePlace
  <2>2. c \notin UNION {Held(q)' : q \in Proc}
    BY <1>2, <2>1
  <2>3. c \notin InHand' /\ c \in InHand
    BY <1>3, <2>2, InHandHeld
  <2> QED BY <1>1, <1>4, <2>1, <2>3 DEF Placed
<1>7. \A r \in Report : Without(r) \subseteq Without(r)'
  BY <1>2 DEF Without
<1>8. Adds(c, Batches)
  <2>1. op'[p].sent < 1 /\ \A q \in Proc \ {p} : op'[q] = op[q]
    BY <1>1 DEF Moves
  <2> QED BY <1>c, <1>t, <1>1, <2>1, StopAdds
<1> QED BY <1>1, <1>2, <1>3, <1>5, <1>6, <1>7, <1>8, EndCounts

LEMMA RemovePushedCounts ==
  ASSUME Safe, (TypeOK)', [Next]_vars, Layered, Paid, NEW p \in Proc, RemovePushed(p)
  PROVE  Layered' /\ Paid'
<1>t. TypeOK /\ Shaped /\ OnePlace /\ InOrder
  BY DEF Safe, Core
<1>c. PICK c : c = Current(p)
  OBVIOUS
<1>1. /\ UNCHANGED <<todo, trace, abandoned>> /\ Pushing(p) /\ op[p].sent = Batches
      /\ op[p].kind = "drain" /\ Held(p) = {}
  BY DEF RemovePushed, Pushing, Held
<1>2. c \in Report /\ c \in Listed(p) /\ c = op[p].items[1]
  BY <1>c, <1>t, <1>1, CurrentFirst DEF Listed
<1>3. /\ Held(p)' = {} /\ Listed(p)' \subseteq Listed(p) \ {c}
      /\ op'[p].sent = -1 /\ \A q \in Proc \ {p} : op'[q] = op[q]
      /\ \A q \in Proc \ {p} : Held(q)' = Held(q) /\ Listed(q)' = Listed(q)
  <2>1. op[p].items # <<>> /\ op[p].items \in Seq(Report) /\ Unique(op[p].items)
    BY <1>t, <1>1 DEF TypeOK, Shaped, ShapedAs, OnePlace, Draining
  <2>2. Elems(Tail(op[p].items)) = Elems(op[p].items) \ {op[p].items[1]}
    BY <2>1, TailElems
  <2>3. CASE Moves(p, "idle", <<>>, -1, FALSE)
    BY <2>3, IdleAfter, OthersKept DEF Moves
  <2>4. CASE Moves(p, "drain", Tail(op[p].items), -1, FALSE)
    <3>1. Held(p)' = {} /\ Listed(p)' = Elems(Tail(op[p].items))
      BY <2>4, OwnAfter
    <3> QED BY <1>1, <1>2, <2>2, <2>4, <3>1, OthersKept DEF Listed, ItemSet, Moves
  <2> QED BY <1>t, <2>3, <2>4, RemovePushedMoves
<1>4. SpoolSet' = SpoolSet \ {c}
  <2>1. CASE c \notin SpoolSet
    <3>1. spool' = spool
      BY <1>c, <1>t, <2>1, RemovesHead
    <3> QED BY <2>1, <3>1 DEF SpoolSet
  <2>2. CASE c \in SpoolSet
    <3>1. spool # <<>> /\ spool[1] = c /\ spool' = Tail(spool)
      BY <1>c, <1>t, <2>2, RemovesHead
    <3>2. spool \in Seq(Report) /\ Unique(spool)
      BY <1>t DEF TypeOK, OnePlace
    <3>3. Elems(Tail(spool)) = Elems(spool) \ {spool[1]}
      BY <3>1, <3>2, TailElems
    <3> QED BY <3>1, <3>3 DEF SpoolSet, Elems
  <2> QED BY <2>1, <2>2
<1>5. InHand' = InHand /\ c \notin InHand /\ c \notin todo
  <2>1. \A q \in Proc : Held(q)' = Held(q) /\ c \notin Held(q)
    BY <1>t, <1>1, <1>2, <1>3 DEF OnePlace
  <2> QED BY <1>t, <1>2, <2>1, InHandHeld DEF OnePlace
<1>6. \A r \in Report : Placed(r)' => Placed(r)
  BY <1>1, <1>4, <1>5 DEF Placed
<1>7. ~ Placed(c)'
  BY <1>1, <1>4, <1>5 DEF Placed
<1>8. \A r \in Report : Without(r) \subseteq Without(r)'
  BY <1>3 DEF Without
<1>9. p \notin Without(c)
  BY <1>2 DEF Without
<1>10. Adds(c, Batches)
  BY <1>c, <1>t, <1>1, <1>3, StopAdds
<1> QED BY <1>1, <1>2, <1>3, <1>6, <1>7, <1>8, <1>9, <1>10, EndCounts

LEMMA CountsStep == Safe /\ Safe' /\ Layered /\ Paid /\ [Next]_vars => Layered' /\ Paid'
<1> SUFFICES ASSUME Safe, Safe', Layered, Paid, [Next]_vars PROVE Layered' /\ Paid'
  OBVIOUS
<1>t. (TypeOK)'
  BY DEF Safe, Core
<1>1. CASE UNCHANGED vars
  <2>1. Layered'
    BY <1>1 DEF vars, Layered, Ended, At, Pushing, Current
  <2>2. Paid'
    BY <1>1 DEF vars, Paid, Ended, At, Pushing, Current, Room, Placed, Without, Listed,
       ItemSet, Elems, SpoolSet, InHand
  <2> QED BY <2>1, <2>2
<1>2. ASSUME NEW p \in Proc, ReportRun(p) \/ BeginDrain(p) PROVE Layered' /\ Paid'
  BY <1>t, <1>2, ReportRunCounts, BeginDrainCounts
<1>3. ASSUME NEW p \in Proc, Advance(p) PROVE Layered' /\ Paid'
  BY <1>t, <1>3, PushOkCounts, FailCounts, FinishLiveCounts, RemovePushedCounts,
     EnqueueCounts DEF Advance
<1>4. ASSUME NEW p \in Proc, Crash(p) PROVE Layered' /\ Paid'
  BY <1>t, <1>4, CrashCounts
<1> QED BY <1>1, <1>2, <1>3, <1>4 DEF Next

LEMMA InvInitially == Init => IInv
<1> SUFFICES ASSUME Init PROVE IInv
  OBVIOUS
<1>1. Safe
  BY SafeInitially
<1>2. ASSUME NEW r \in Report, NEW b \in Batch
      PROVE  trace[r][b] = 0 /\ Ended(r, b) = 0
  <2>1. At(r, b) = {} /\ trace[r][b] = 0
    BY <1>2 DEF Init, At, Pushing, Idle
  <2>2. Cardinality({}) = 0
    BY FS_EmptySet
  <2> QED BY <2>1, <2>2 DEF Ended
<1>3. Layered
  <2>1. \A b \in Batch : 1 .. b \subseteq Batch
    BY BatchesAssumption DEF Batch
  <2> QED BY <1>2, <2>1 DEF Layered
<1>4. ASSUME NEW r \in Report PROVE 0 <= Room(r)
  <2>1. abandoned[r] = 0
    BY <1>4 DEF Init
  <2>2. Placed(r)
    BY <1>4 DEF Init, Placed
  <2> QED BY <2>1, <2>2 DEF Room
<1>5. Paid
  BY <1>2, <1>4 DEF Paid
<1> QED BY <1>1, <1>3, <1>5 DEF IInv

LEMMA InvStep == IInv /\ [Next]_vars => IInv'
<1> SUFFICES ASSUME IInv, [Next]_vars PROVE IInv'
  OBVIOUS
<1>1. Safe /\ Layered /\ Paid
  BY DEF IInv
<1>2. Safe'
  BY <1>1, SafeStep
<1>3. Layered' /\ Paid'
  BY <1>1, <1>2, CountsStep
<1> QED BY <1>2, <1>3 DEF IInv

(* Upstream no trace has a hole but by a redirect of the missing batch:    *)
(* none without its run row, none ahead of the ones before it, wherever a  *)
(* push was cut short.                                                     *)
THEOREM TracesHaveNoHole == Spec => []TraceHasNoHole
<1>1. ASSUME IInv PROVE TraceHasNoHole
  <2>t. TypeOK /\ Layered
    BY <1>1 DEF IInv, Safe, Core
  <2>1. ASSUME NEW r \in Report, NEW b \in Batch, NEW c \in 1 .. b
        PROVE  trace[r][c] >= trace[r][b]
    <3>1. c \in Batch /\ c <= b
      BY BatchesAssumption DEF Batch
    <3>2. Ended(r, b) <= Ended(r, c)
      BY <2>t DEF Layered
    <3>3. At(r, b) \subseteq At(r, c)
      BY <2>t, <3>1, BatchesAssumption DEF At, TypeOK, Batch
    <3>4. Cardinality(At(r, b)) <= Cardinality(At(r, c))
      BY <3>3, AtFinite, FS_Subset
    <3>5. /\ Cardinality(At(r, b)) \in Nat /\ Cardinality(At(r, c)) \in Nat
          /\ trace[r][b] \in Nat /\ trace[r][c] \in Nat
      BY <2>t, <3>1, AtFinite DEF TypeOK
    <3> QED BY <3>2, <3>4, <3>5 DEF Ended
  <2>2. ASSUME NEW r \in Report, NEW b \in Batch
        PROVE  /\ redirected[r][b] \in Nat /\ trace[r][b] \in Nat
               /\ redirected[r][b] <= trace[r][b]
    BY <2>t DEF TypeOK
  <2>3. ASSUME NEW r \in Report, NEW b \in Batch, Appended(r, b) > 0
        PROVE  r \in rows
    <3>1. trace[r][b] > 0
      BY <2>2, <2>3 DEF Appended
    <3> QED BY <2>t, <3>1 DEF Layered
  <2>4. ASSUME NEW r \in Report, NEW b \in Batch, NEW c \in 1 .. b
        PROVE  Appended(r, c) + redirected[r][c] >= Appended(r, b)
    <3>1. c \in Batch
      BY BatchesAssumption DEF Batch
    <3> QED BY <2>1, <2>2, <3>1 DEF Appended
  <2> QED BY <2>3, <2>4 DEF TraceHasNoHole
<1> QED BY <1>1, InvInitially, InvStep, PTL DEF Spec

(* However many pushes fail, and at whatever batch, a batch is upstream at *)
(* most once for every process, and once for every push that was given up  *)
(* after a batch of it was taken.                                          *)
THEOREM DuplicatesAreAccounted == Spec => []DuplicatesAccounted
<1>1. ASSUME IInv PROVE DuplicatesAccounted
  <2>t. TypeOK /\ Paid /\ OnePlace /\ Shaped
    BY <1>1 DEF IInv, Safe, Core
  <2>1. ASSUME NEW r \in Report, NEW b \in Batch
        PROVE  trace[r][b] <= Cardinality(Proc) + abandoned[r]
    <3>1. /\ Ended(r, b) <= Room(r) /\ trace[r][b] \in Nat /\ abandoned[r] \in Nat
          /\ IsFiniteSet(At(r, b)) /\ Cardinality(At(r, b)) \in Nat
          /\ IsFiniteSet(Without(r)) /\ Cardinality(Without(r)) \in Nat
          /\ Cardinality(Proc) \in Nat
      BY <2>t, AtFinite, ProcAssumption, FS_CardinalityType DEF Paid, TypeOK
    <3>2. At(r, b) \subseteq Proc /\ Without(r) \subseteq Proc
      BY DEF At, Without
    <3>3. CASE Placed(r)
      <4>1. Cardinality(At(r, b)) <= Cardinality(Proc)
        BY <3>2, ProcAssumption, FS_Subset
      <4> QED BY <3>1, <3>3, <4>1 DEF Ended, Room
    <3>4. CASE ~ Placed(r)
      <4>1. At(r, b) \cap Without(r) = {}
        <5>1. ASSUME NEW p \in At(r, b), p \in Without(r) PROVE FALSE
          <6>1. p \in Proc /\ Pushing(p) /\ Current(p) = r
            BY <5>1 DEF At
          <6>2. r \in ItemSet(p)
            BY <2>t, <6>1, CurrentFirst DEF Pushing
          <6>3. op[p].kind # "live"
            BY <3>4, <6>1 DEF Placed, InHand
          <6> QED BY <5>1, <6>1, <6>2, <6>3 DEF Without, Listed, Pushing
        <5> QED BY <5>1
      <4>2. Cardinality(At(r, b) \cup Without(r))
              = Cardinality(At(r, b)) + Cardinality(Without(r))
        BY <3>1, <4>1, FS_Union, FS_EmptySet
      <4>3. Cardinality(At(r, b) \cup Without(r)) <= Cardinality(Proc)
        BY <3>2, ProcAssumption, FS_Subset
      <4> QED BY <3>1, <3>4, <4>2, <4>3 DEF Ended, Room
    <3> QED BY <3>3, <3>4
  <2>2. ASSUME NEW r \in Report, NEW b \in Batch
        PROVE  Appended(r, b) <= Cardinality(Proc) + abandoned[r]
    <3>1. /\ redirected[r][b] \in Nat /\ trace[r][b] \in Nat
          /\ abandoned[r] \in Nat /\ Cardinality(Proc) \in Nat
      BY <2>t, ProcAssumption, FS_CardinalityType DEF TypeOK
    <3>2. trace[r][b] <= Cardinality(Proc) + abandoned[r]
      BY <2>1
    <3> QED BY <3>1, <3>2 DEF Appended
  <2> QED BY <2>2 DEF DuplicatesAccounted
<1> QED BY <1>1, InvInitially, InvStep, PTL DEF Spec

-----------------------------------------------------------------------------
(* What a component that calls the reporter builds on.                     *)
LEMMA SafeAlways == Spec => []Safe
BY SafeInitially, SafeStep, PTL DEF Spec

(* A report in the hands of a process after one of its calls was in them   *)
(* before: a process comes by one in report_run alone.                     *)
LEMMA HandKept ==
  ASSUME TypeOK, Shaped, NEW p \in Proc, Advance(p)
  PROVE  /\ UNCHANGED <<todo, lost, crashes>>
         /\ op'[p].kind \in {"live", "enqueue"} =>
              op[p].kind \in {"live", "enqueue"} /\ op'[p].items = op[p].items
<1>1. UNCHANGED <<todo, lost, crashes>>
  BY DEF Advance, PushRunOk, PushRunFails, PushRunRejected, PushSamplesOk,
     PushSamplesFails, FinishLive, RemovePushed, Enqueue
<1> DEFINE Same == op'[p].kind \in {"live", "enqueue"} =>
              op[p].kind \in {"live", "enqueue"} /\ op'[p].items = op[p].items
<1>2. CASE PushRunOk(p)
  BY <1>1, <1>2, PushRunOkMoves DEF Moves
<1>3. CASE PushSamplesOk(p)
  BY <1>1, <1>3, PushSamplesOkMoves DEF Moves
<1>4. ASSUME Pushing(p), NEW l, GiveUp(p, l)
      PROVE  Same
  BY <1>4, GiveUpMoves DEF Moves
<1>5. CASE PushRunFails(p) \/ PushRunRejected(p) \/ PushSamplesFails(p)
  BY <1>1, <1>4, <1>5 DEF PushRunFails, PushRunRejected, PushSamplesFails
<1>6. CASE FinishLive(p) \/ Enqueue(p)
  BY <1>1, <1>6, StopMoves DEF Moves
<1>7. CASE RemovePushed(p)
  BY <1>1, <1>7, RemovePushedMoves DEF Moves
<1> QED BY <1>1, <1>2, <1>3, <1>5, <1>6, <1>7 DEF Advance

(* Nothing is in the hands of an idle process.                             *)
LEMMA StopsIdle ==
  ASSUME TypeOK, Shaped, NEW p \in Proc, Crash(p)
  PROVE  op'[p].kind = "idle"
BY StopMoves DEF Moves
=============================================================================
