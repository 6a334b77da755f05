--------------------------- MODULE WorkQueueProofs ---------------------------
(***************************************************************************)
(* What every operation of the work queue preserves: the shape of a queue  *)
(* and its well-formedness, for any set of keys.                           *)
(***************************************************************************)
EXTENDS WorkQueue, FiniteSetTheorems, TLAPS

\* Adding a key leaves a queue of keys, whatever a worker holds.
LEMMA EnqueueType ==
  ASSUME NEW Keys, NEW q \in QueueOf(Keys), NEW k \in Keys
  PROVE  Enqueue(q, k) \in QueueOf(Keys)
BY DEF QueueOf, Enqueue

\* Taking the oldest key leaves a queue of keys.
LEMMA DequeueType ==
  ASSUME NEW Keys, NEW q \in QueueOf(Keys), q.order # << >>
  PROVE  Dequeue(q) \in QueueOf(Keys) /\ Head(q.order) \in Keys
BY DEF QueueOf, Dequeue

\* Finishing a key leaves a queue of keys.
LEMMA FinishType ==
  ASSUME NEW Keys, NEW q \in QueueOf(Keys), NEW k \in Keys
  PROVE  Finish(q, k) \in QueueOf(Keys)
BY DEF QueueOf, Finish

\* Appending a key that is not in a sequence without duplicates.
LEMMA AppendKey ==
  ASSUME NEW Keys, NEW s \in Seq(Keys), NEW k \in Keys,
         k \notin {s[i] : i \in DOMAIN s},
         \A i, j \in DOMAIN s : s[i] = s[j] => i = j
  PROVE  LET t == Append(s, k)
         IN  /\ {t[i] : i \in DOMAIN t} = {s[i] : i \in DOMAIN s} \cup {k}
             /\ \A i, j \in DOMAIN t : t[i] = t[j] => i = j
<1> DEFINE t == Append(s, k)
<1>1. /\ DOMAIN s = 1 .. Len(s) /\ DOMAIN t = 1 .. Len(s) + 1 /\ Len(s) \in Nat
      /\ t[Len(s) + 1] = k
      /\ \A i \in 1 .. Len(s) : t[i] = s[i]
  OBVIOUS
<1> HIDE DEF t
<1>2. {t[i] : i \in DOMAIN t} = {s[i] : i \in DOMAIN s} \cup {k}
  BY <1>1
<1>3. ASSUME NEW i \in DOMAIN t, NEW j \in DOMAIN t, t[i] = t[j]
      PROVE  i = j
  <2>1. CASE i \in 1 .. Len(s) /\ j \in 1 .. Len(s)
    BY <1>1, <1>3, <2>1
  <2>2. CASE i = Len(s) + 1 \/ j = Len(s) + 1
    BY <1>1, <1>3, <2>2
  <2> QED BY <1>1, <2>1, <2>2
<1> QED BY <1>2, <1>3 DEF t

\* Removing the head of a non-empty sequence without duplicates.
LEMMA TailKey ==
  ASSUME NEW Keys, NEW s \in Seq(Keys), s # << >>,
         \A i, j \in DOMAIN s : s[i] = s[j] => i = j
  PROVE  LET t == Tail(s)
         IN  /\ {t[i] : i \in DOMAIN t} = {s[i] : i \in DOMAIN s} \ {Head(s)}
             /\ \A i, j \in DOMAIN t : t[i] = t[j] => i = j
<1> DEFINE t == Tail(s)
<1>1. /\ DOMAIN s = 1 .. Len(s) /\ DOMAIN t = 1 .. Len(s) - 1 /\ Len(s) \in Nat
      /\ Head(s) = s[1] /\ Len(s) > 0
      /\ \A i \in 1 .. Len(s) - 1 : t[i] = s[i + 1]
  OBVIOUS
<1> HIDE DEF t
<1>2. \A i \in 1 .. Len(s) : i # 1 => i - 1 \in 1 .. Len(s) - 1 /\ s[i] = t[i - 1]
  BY <1>1
<1>3. {t[i] : i \in DOMAIN t} = {s[i] : i \in DOMAIN s} \ {Head(s)}
  <2>1. ASSUME NEW i \in DOMAIN t PROVE t[i] \in {s[j] : j \in DOMAIN s} \ {Head(s)}
    BY <1>1
  <2>2. ASSUME NEW j \in DOMAIN s, s[j] # Head(s) PROVE s[j] \in {t[i] : i \in DOMAIN t}
    BY <1>1, <1>2, <2>2
  <2> QED BY <2>1, <2>2
<1>4. \A i, j \in DOMAIN t : t[i] = t[j] => i = j
  BY <1>1
<1> QED BY <1>3, <1>4 DEF t

\* Adding a key keeps the queue well formed: the key is in the order or a
\* worker that holds it will find it dirty.
THEOREM EnqueueWellFormed ==
  ASSUME NEW Keys, NEW q \in QueueOf(Keys), NEW k \in Keys, WellFormed(q)
  PROVE  WellFormed(Enqueue(q, k)) /\ k \in Enqueue(q, k).dirty
<1>1. CASE k \in q.dirty
  BY <1>1 DEF Enqueue
<1>2. CASE k \notin q.dirty /\ k \in q.processing
  BY <1>2 DEF Enqueue, WellFormed, QueueOf
<1>3. CASE k \notin q.dirty /\ k \notin q.processing
  <2>1. q.order \in Seq(Keys) /\ k \notin {q.order[i] : i \in DOMAIN q.order}
    BY <1>3 DEF WellFormed, QueueOf
  <2>2. \A i, j \in DOMAIN q.order : q.order[i] = q.order[j] => i = j
    BY DEF WellFormed
  <2>3. LET t == Append(q.order, k)
        IN  /\ {t[i] : i \in DOMAIN t} = {q.order[i] : i \in DOMAIN q.order} \cup {k}
            /\ \A i, j \in DOMAIN t : t[i] = t[j] => i = j
    BY <2>1, <2>2, AppendKey, Zenon
  <2> QED BY <1>3, <2>3 DEF Enqueue, WellFormed, QueueOf
<1> QED BY <1>1, <1>2, <1>3

\* Get keeps the queue well formed, and hands out a key no worker holds.
THEOREM DequeueWellFormed ==
  ASSUME NEW Keys, NEW q \in QueueOf(Keys), q.order # << >>, WellFormed(q)
  PROVE  WellFormed(Dequeue(q)) /\ Head(q.order) \notin q.processing
<1>1. q.order \in Seq(Keys) /\ (\A i, j \in DOMAIN q.order : q.order[i] = q.order[j] => i = j)
  BY DEF WellFormed, QueueOf
<1>2. LET t == Tail(q.order)
      IN  /\ {t[i] : i \in DOMAIN t} = {q.order[i] : i \in DOMAIN q.order} \ {Head(q.order)}
          /\ \A i, j \in DOMAIN t : t[i] = t[j] => i = j
  BY <1>1, TailKey, Zenon
<1>3. Head(q.order) \in {q.order[i] : i \in DOMAIN q.order}
  BY <1>1
<1> QED BY <1>2, <1>3 DEF Dequeue, WellFormed, QueueOf

\* Done keeps the queue well formed: a key that became dirty while a worker
\* held it is put back into the order.
THEOREM FinishWellFormed ==
  ASSUME NEW Keys, NEW q \in QueueOf(Keys), NEW k \in Keys, WellFormed(q), k \in q.processing
  PROVE  WellFormed(Finish(q, k))
<1>1. CASE k \notin q.dirty
  BY <1>1 DEF Finish, WellFormed, QueueOf
<1>2. CASE k \in q.dirty
  <2>1. q.order \in Seq(Keys) /\ k \notin {q.order[i] : i \in DOMAIN q.order}
    BY DEF WellFormed, QueueOf
  <2>2. \A i, j \in DOMAIN q.order : q.order[i] = q.order[j] => i = j
    BY DEF WellFormed
  <2>3. LET t == Append(q.order, k)
        IN  /\ {t[i] : i \in DOMAIN t} = {q.order[i] : i \in DOMAIN q.order} \cup {k}
            /\ \A i, j \in DOMAIN t : t[i] = t[j] => i = j
    BY <2>1, <2>2, AppendKey, Zenon
  <2> QED BY <1>2, <2>3 DEF Finish, WellFormed, QueueOf
<1> QED BY <1>1, <1>2

\* The queue right after a start: every key is there, whatever order the informer
\* added them in, and it is well formed.
THEOREM FilledQueueHolds ==
  ASSUME NEW Keys, IsFiniteSet(Keys), NEW keys \in Orders(Keys)
  PROVE  /\ FilledQueue(keys) \in QueueOf(Keys) /\ WellFormed(FilledQueue(keys))
         /\ FilledQueue(keys).dirty = Keys /\ FilledQueue(keys).processing = {}
<1> DEFINE n == Cardinality(Keys)
<1>1. n \in Nat /\ IsFiniteSet(1 .. n) /\ Cardinality(1 .. n) = n
  BY FS_CardinalityType, FS_Interval
<1>2. keys \in [1 .. n -> Keys] /\ \A i, j \in 1 .. n : keys[i] = keys[j] => i = j
  BY DEF Orders
<1> HIDE DEF n
<1>3. keys \in Injection(1 .. n, Keys)
  BY <1>2 DEF Injection, IsInjective
<1>4. keys \in Surjection(1 .. n, Keys)
  BY <1>1, <1>3, FS_Injection DEF n
<1>5. {keys[i] : i \in DOMAIN keys} = Keys
  BY <1>2, <1>4 DEF Surjection
<1>6. keys \in Seq(Keys)
  BY <1>1, <1>2
<1> QED BY <1>2, <1>5, <1>6 DEF FilledQueue, QueueOf, WellFormed
=============================================================================
