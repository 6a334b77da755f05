------------------------------ MODULE WorkQueue ------------------------------
(***************************************************************************)
(* The work queue that every controller of the operator is built around:   *)
(* the rate limited queue of k8s.io/client-go, as the controllers use it   *)
(* (Add in the informer handlers, Get / Done / Forget in processNextItem). *)
(* The library is not part of the repository; these operators give the     *)
(* three methods as functions from queue to queue.                         *)
(*                                                                         *)
(*   order       the keys waiting for a worker, oldest first               *)
(*   dirty       the keys that need processing                             *)
(*   processing  the keys a worker holds between Get and Done              *)
(***************************************************************************)
EXTENDS Sequences, Integers, FiniteSets

EmptyQueue == [order |-> << >>, dirty |-> {}, processing |-> {}]

\* Mutants of Enqueue: a key a worker holds is put into the order at once; a
\* key a worker holds is not added at all.
EnqueueHeld(q, k) ==
  IF k \in q.dirty THEN q
  ELSE [q EXCEPT !.order = Append(@, k), !.dirty = @ \cup {k}]

EnqueueUnlessHeld(q, k) ==
  IF k \in q.dirty \cup q.processing THEN q
  ELSE [q EXCEPT !.order = Append(@, k), !.dirty = @ \cup {k}]

\* Add: a key already dirty is not added twice, and a key a worker holds is
\* only marked: Done will put it back into the order.
Enqueue(q, k) ==
  IF k \in q.dirty THEN q
  ELSE [order      |-> IF k \in q.processing THEN q.order ELSE Append(q.order, k),
        dirty      |-> q.dirty \cup {k},
        processing |-> q.processing]

\* Get, on a queue whose order is not empty.
Dequeue(q) ==
  [order      |-> Tail(q.order),
   dirty      |-> q.dirty \ {Head(q.order)},
   processing |-> q.processing \cup {Head(q.order)}]

\* Mutant of Finish: what was added while the worker held the key is forgotten.
FinishForgets(q, k) ==
  [q EXCEPT !.dirty = @ \ {k}, !.processing = @ \ {k}]

\* Done.
Finish(q, k) ==
  [order      |-> IF k \in q.dirty THEN Append(q.order, k) ELSE q.order,
   dirty      |-> q.dirty,
   processing |-> q.processing \ {k}]

\* The queue right after a start: the informer has added every key once.
FilledQueue(keys) ==
  [order |-> keys, dirty |-> {keys[i] : i \in DOMAIN keys}, processing |-> {}]

\* The orders in which an informer may add the keys of a set.
Orders(S) ==
  {keys \in [1 .. Cardinality(S) -> S] : \A i, j \in DOMAIN keys : keys[i] = keys[j] => i = j}

QueueOf(Keys) == [order : Seq(Keys), dirty : SUBSET Keys, processing : SUBSET Keys]

(* The keys in the order are exactly the dirty keys no worker holds, each  *)
(* once: none is lost and none is handed out twice.                        *)
WellFormed(q) ==
  /\ {q.order[i] : i \in DOMAIN q.order} = q.dirty \ q.processing
  /\ \A i, j \in DOMAIN q.order : q.order[i] = q.order[j] => i = j
=============================================================================
