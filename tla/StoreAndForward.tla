-------------------------- MODULE StoreAndForward --------------------------
(***************************************************************************)
(* What a store-and-forward queue promises, whoever works on it: an item   *)
(* that was accepted into the queue leaves it from the head, and only once *)
(* it has been delivered.  Both spools of the controller are meant to be   *)
(* one: the run reports' (reporter.py) and the benchmark bundles'          *)
(* (bench/submission.py).                                                  *)
(***************************************************************************)
EXTENDS Sequences

CONSTANT Item

VARIABLES
  queue,      \* accepted and still held, oldest first
  delivered   \* what has reached the other side

Init == queue = <<>> /\ delivered \subseteq Item

Accept(i) == queue' = Append(queue, i) /\ UNCHANGED delivered

(* Delivery, of anything at any time: it may also go past the queue *)
Deliver(i) == delivered' = delivered \cup {i} /\ UNCHANGED queue

Leave ==
  /\ queue # <<>> /\ Head(queue) \in delivered
  /\ queue' = Tail(queue)
  /\ UNCHANGED delivered

Next == Leave \/ \E i \in Item : Accept(i) \/ Deliver(i)

Spec == Init /\ [][Next]_<<queue, delivered>>
=============================================================================
