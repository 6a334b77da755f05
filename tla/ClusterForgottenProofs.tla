----------------------- MODULE ClusterForgottenProofs ------------------------
(***************************************************************************)
(* No SDSCluster that waits or has failed is forgotten while the API       *)
(* server answers, for any clusters, workers and goroutines, any relists   *)
(* and restarts, and whatever the cluster-manager-api answers.             *)
(*                                                                         *)
(* NotForgotten alone is not inductive: a worker that finds Error in the   *)
(* store starts nothing.  That is harmless because Error, when the version *)
(* does not say so, was assigned by a goroutine that has still to save it; *)
(* the second part of KeptOne says so of every object of that version.     *)
(***************************************************************************)
EXTENDS ClusterControllerProofs

Unsettled(c) == Current(c).phase \in {"Waiting", "Failed"}

\* A worker has still to look at what the store has of c.
Queued(c) ==
  \/ c \in queue.dirty
  \/ \E w \in Workers : working[w] = [key |-> c, done |-> FALSE]

\* Goroutine s is on its way for the latest version of c.
ActsFor(c, s) == tasks[c][s].pc # "idle" /\ heap[c][tasks[c][s].obj].ver = Latest(c)

\* An unsettled resource is looked at, or acted for, and an object that shows of
\* its latest version what that version does not say is about to be saved.
KeptOne(c) ==
  Unsettled(c) =>
    /\ heap[c][Stored(c)].ver = Latest(c) => Queued(c) \/ \E s \in Slots : ActsFor(c, s)
    /\ \A o \in 1 .. Stored(c) :
         heap[c][o].ver = Latest(c) /\ heap[c][o].phase # Current(c).phase =>
           \E s \in Slots : tasks[c][s].pc = "save" /\ ActsFor(c, s)

Kept == \A c \in Clusters : KeptOne(c)

-----------------------------------------------------------------------------
(* What a step may do to one cluster *)

\* Nothing, as long as its key is not dropped.
LEMMA KeptSame ==
  ASSUME NEW c \in Clusters, KeptOne(c), Queued(c) => Queued(c)',
         log'[c] = log[c], heap'[c] = heap[c], tasks'[c] = tasks[c]
  PROVE  KeptOne(c)'
BY DEF KeptOne, Unsettled, ActsFor, Current, Latest, Stored

\* Write a version: no object is of that version yet.
LEMMA KeptWritten ==
  ASSUME Core, NEW c \in Clusters, NEW v, log'[c] = Append(log[c], v), heap'[c] = heap[c]
  PROVE  KeptOne(c)'
<1>1. /\ Len(log[c]) \in Nat /\ Stored(c) \in 1 .. Len(heap[c]) /\ Stored(c) = Len(heap[c])
      /\ \A o \in 1 .. Len(heap[c]) : heap[c][o].ver \in 1 .. Len(log[c])
  BY CoreTypes DEF ObjectOK, Stored
<1>2. log[c] \in Seq(Version)
  BY DEF Core
<1>3. Latest(c)' = Len(log[c]) + 1
  BY <1>2 DEF Latest
<1>4. \A o \in 1 .. Len(heap[c]) : heap'[c][o].ver # Latest(c)'
  BY <1>1, <1>3
<1>5. Stored(c)' = Stored(c)
  BY DEF Stored
<1> QED BY <1>1, <1>4, <1>5 DEF KeptOne

\* Decode a version into a new object, which shows what the version says, and add
\* the key.
LEMMA KeptObserved ==
  ASSUME Core, Rest, NEW c \in Clusters, KeptOne(c), NEW v \in 1 .. Len(log[c]),
         Observe(c, v), UNCHANGED <<log, working, tasks>>
  PROVE  KeptOne(c)'
<1> DEFINE x == [phase |-> log[c][v].phase, ver |-> v]
<1>1. /\ heap[c] \in Seq(Object) /\ heap'[c] = Append(heap[c], x)
      /\ \A s \in Slots : tasks[c][s].obj \in 1 .. Len(heap[c])
  BY CoreTypes DEF Core, Observe, TaskOK
<1>2. x.ver = v /\ x.phase = log[c][v].phase
  OBVIOUS
<1> HIDE DEF x
<1>3. /\ Stored(c)' = Stored(c) + 1 /\ Stored(c) \in Nat /\ Stored(c) = Len(heap[c])
      /\ heap'[c][Stored(c) + 1] = x
      /\ \A o \in 1 .. Stored(c) : heap'[c][o] = heap[c][o]
  BY <1>1 DEF Stored
<1>4. c \in queue'.dirty
  BY EnqueueWellFormed DEF Observe, Enqueue
<1>5. Latest(c)' = Latest(c) /\ Current(c)' = Current(c) /\ Unsettled(c)' = Unsettled(c)
  BY DEF Latest, Current, Unsettled
<1>6. \A s \in Slots : ActsFor(c, s) => ActsFor(c, s)' /\ tasks'[c][s].pc = tasks[c][s].pc
  BY <1>1, <1>3, <1>5 DEF ActsFor
<1>7. ASSUME Unsettled(c), NEW o \in 1 .. Stored(c)', heap'[c][o].ver = Latest(c),
             heap'[c][o].phase # Current(c).phase
      PROVE  \E s \in Slots : tasks'[c][s].pc = "save" /\ ActsFor(c, s)'
  <2>1. o # Stored(c) + 1
    BY <1>2, <1>3, <1>7 DEF Current
  <2>2. o \in 1 .. Stored(c)
    BY <1>3, <1>7, <2>1
  <2>3. PICK s \in Slots : tasks[c][s].pc = "save" /\ ActsFor(c, s)
    BY <1>3, <1>7, <2>2 DEF KeptOne
  <2> QED BY <1>6, <2>3
<1> QED BY <1>4, <1>5, <1>7 DEF KeptOne, Queued

\* Move one goroutine on, which ends only when it acts for no unsettled version.
LEMMA KeptMoved ==
  ASSUME NEW c \in Clusters, KeptOne(c), Queued(c) => Queued(c)', NEW s \in Slots,
         log'[c] = log[c], heap'[c] = heap[c],
         \A r \in Slots : r # s => tasks'[c][r] = tasks[c][r],
         Unsettled(c) /\ ActsFor(c, s) =>
           /\ tasks[c][s].pc # "save" /\ tasks'[c][s].pc # "idle"
           /\ tasks'[c][s].obj = tasks[c][s].obj
  PROVE  KeptOne(c)'
<1>1. /\ Latest(c)' = Latest(c) /\ Current(c)' = Current(c) /\ Unsettled(c)' = Unsettled(c)
      /\ Stored(c)' = Stored(c)
  BY DEF Latest, Current, Unsettled, Stored
<1>2. ASSUME Unsettled(c), NEW r \in Slots, ActsFor(c, r) PROVE ActsFor(c, r)'
  BY <1>1, <1>2 DEF ActsFor
<1>3. ASSUME Unsettled(c), NEW r \in Slots, tasks[c][r].pc = "save", ActsFor(c, r)
      PROVE  tasks'[c][r].pc = "save" /\ ActsFor(c, r)'
  BY <1>2, <1>3
<1> QED BY <1>1, <1>2, <1>3 DEF KeptOne

\* An object of which the phase is assigned keeps its version, and the others all.
LEMMA PhaseAssigned ==
  ASSUME NEW h \in Seq(Object), NEW b \in 1 .. Len(h), NEW p,
         NEW g, g = [h EXCEPT ![b].phase = p]
  PROVE  /\ Len(g) = Len(h)
         /\ \A o \in 1 .. Len(h) : g[o].ver = h[o].ver
         /\ \A o \in 1 .. Len(h) : o # b => g[o] = h[o]
<1>1. DOMAIN h = 1 .. Len(h) /\ h[b] \in Object
  OBVIOUS
<1>2. Len(g) = Len(h)
  BY <1>1
<1>3. \A o \in 1 .. Len(h) : o # b => g[o] = h[o]
  BY <1>1
<1>4. g[b] = [h[b] EXCEPT !.phase = p]
  BY <1>1
<1>5. g[b].ver = h[b].ver
  <2>1. PICK q \in Phases, v \in Nat \ {0} : h[b] = [phase |-> q, ver |-> v]
    BY <1>1 DEF Object
  <2> QED BY <1>4, <2>1
<1> QED BY <1>2, <1>3, <1>5

\* Assign a phase to an object, and go to save it.
LEMMA KeptAssigned ==
  ASSUME Core, NEW c \in Clusters, KeptOne(c), Queued(c) => Queued(c)', NEW s \in Slots,
         NEW p, log' = log, heap' = [heap EXCEPT ![c][tasks[c][s].obj].phase = p],
         Goto(c, s, "save")
  PROVE  KeptOne(c)'
<1> DEFINE b == tasks[c][s].obj
<1>1. b \in 1 .. Len(heap[c]) /\ heap[c] \in Seq(Object) /\ b = tasks[c][s].obj
  BY CoreTypes DEF Core, TaskOK
<1> HIDE DEF b
<1>2. heap'[c] = [heap[c] EXCEPT ![b].phase = p]
  BY <1>1 DEF Core
<1>3. /\ Stored(c)' = Stored(c) /\ Stored(c) = Len(heap[c])
      /\ \A o \in 1 .. Stored(c) : heap'[c][o].ver = heap[c][o].ver
      /\ \A o \in 1 .. Stored(c) : o # b => heap'[c][o] = heap[c][o]
  <2>1. /\ Len(heap'[c]) = Len(heap[c])
        /\ \A o \in 1 .. Len(heap[c]) : heap'[c][o].ver = heap[c][o].ver
        /\ \A o \in 1 .. Len(heap[c]) : o # b => heap'[c][o] = heap[c][o]
    <3> DEFINE h == heap[c]  g == heap'[c]
    <3>1. h \in Seq(Object) /\ b \in 1 .. Len(h) /\ g = [h EXCEPT ![b].phase = p]
      BY <1>1, <1>2
    <3> HIDE DEF h, g
    <3>2. /\ Len(g) = Len(h)
          /\ \A o \in 1 .. Len(h) : g[o].ver = h[o].ver
          /\ \A o \in 1 .. Len(h) : o # b => g[o] = h[o]
      BY <3>1, PhaseAssigned
    <3> QED BY <3>2 DEF h, g
  <2> QED BY <2>1 DEF Stored
<1>4. /\ tasks'[c][s].pc = "save" /\ tasks'[c][s].obj = b
      /\ \A r \in Slots : r # s => tasks'[c][r] = tasks[c][r]
      /\ \A r \in Slots : tasks[c][r].obj \in 1 .. Stored(c)
  <2>1. tasks \in [Clusters -> [Slots -> Task]]
    BY DEF Core
  <2>2. tasks' = [tasks EXCEPT ![c][s] = [pc |-> "save", obj |-> @.obj,
                                          fresh |-> tasks[c][s].fresh, tries |-> tasks[c][s].tries]]
    BY DEF Goto, Move
  <2>3. /\ tasks'[c][s].pc = "save" /\ tasks'[c][s].obj = tasks[c][s].obj
        /\ \A r \in Slots : r # s => tasks'[c][r] = tasks[c][r]
    BY <2>1, <2>2
  <2>4. \A r \in Slots : tasks[c][r].obj \in 1 .. Len(heap[c])
    BY CoreTypes DEF TaskOK
  <2> QED BY <1>1, <1>3, <2>3, <2>4
<1>5. Latest(c)' = Latest(c) /\ Current(c)' = Current(c) /\ Unsettled(c)' = Unsettled(c)
  BY DEF Latest, Current, Unsettled
<1>6. ASSUME NEW r \in Slots, ActsFor(c, r) PROVE ActsFor(c, r)'
  BY <1>1, <1>3, <1>4, <1>5, <1>6 DEF ActsFor
<1>7. ASSUME NEW r \in Slots, ActsFor(c, r), tasks[c][r].pc = "save"
      PROVE  tasks'[c][r].pc = "save"
  BY <1>4, <1>7
<1>8. heap[c][b].ver = Latest(c) => ActsFor(c, s)'
  BY <1>1, <1>3, <1>4, <1>5 DEF ActsFor
<1>9. ASSUME Unsettled(c), NEW o \in 1 .. Stored(c), heap'[c][o].ver = Latest(c),
             heap'[c][o].phase # Current(c).phase
      PROVE  \E r \in Slots : tasks'[c][r].pc = "save" /\ ActsFor(c, r)'
  <2>1. CASE o = b
    BY <1>3, <1>4, <1>8, <1>9, <2>1
  <2>2. CASE o # b
    <3>1. PICK r \in Slots : tasks[c][r].pc = "save" /\ ActsFor(c, r)
      BY <1>3, <1>9, <2>2 DEF KeptOne
    <3> QED BY <1>6, <1>7, <3>1
  <2> QED BY <2>1, <2>2
<1>10. Stored(c) \in 1 .. Stored(c)
  BY <1>3, CoreTypes
<1> QED BY <1>3, <1>5, <1>6, <1>9, <1>10 DEF KeptOne

-----------------------------------------------------------------------------
(* The steps *)

\* A step of one cluster that drops no key leaves the others as they were.
LEMMA KeptElsewhere ==
  ASSUME Kept, NEW c \in Clusters, KeptOne(c)', \A d \in Clusters : Queued(d) => Queued(d)',
         \A d \in Clusters : d # c => /\ log'[d] = log[d] /\ heap'[d] = heap[d]
                                      /\ tasks'[d] = tasks[d]
  PROVE  Kept'
BY KeptSame DEF Kept

LEMMA ClientKept ==
  ASSUME Core, Kept, NEW c \in Clusters, Client(c)
  PROVE  Kept'
<1>1. PICK v : log' = [log EXCEPT ![c] = Append(@, v)]
  BY DEF Client, Create, Request, Withdraw, Write
<1>2. UNCHANGED <<heap, queue, working, tasks>>
  BY DEF Client, Create, Request, Withdraw
<1>3. log'[c] = Append(log[c], v) /\ \A d \in Clusters : d # c => log'[d] = log[d]
  BY <1>1 DEF Core
<1> QED BY <1>2, <1>3, KeptWritten, KeptElsewhere DEF Queued

LEMMA InformerKept ==
  ASSUME Core, Rest, Kept, NEW c \in Clusters, Deliver(c) \/ Relist(c)
  PROVE  Kept'
<1>1. UNCHANGED <<log, working, tasks>>
  BY DEF Deliver, Relist
<1>2. PICK v \in 1 .. Len(log[c]) : Observe(c, v)
  <2>1. /\ Latest(c) \in 1 .. Len(log[c]) /\ Latest(c) = Len(log[c]) /\ Len(log[c]) \in Nat
        /\ heap[c][Stored(c)].ver \in 1 .. Len(log[c])
    BY CoreTypes DEF ObjectOK, Latest
  <2> QED BY <2>1 DEF Deliver, Relist
<1>3. KeptOne(c)'
  BY <1>1, <1>2, KeptObserved DEF Kept
<1>4. \A d \in Clusters : Queued(d) => Queued(d)'
  BY <1>1, <1>2 DEF Queued, Observe, Enqueue
<1>5. \A d \in Clusters : d # c => heap'[d] = heap[d]
  BY <1>2 DEF Observe, Core
<1> QED BY <1>1, <1>3, <1>4, <1>5, KeptElsewhere

\* Taking a key leaves it to the worker, releasing one drops only what the worker
\* has looked at.
LEMMA GetItemKept ==
  ASSUME Rest, Kept, NEW w \in Workers, GetItem(w) \/ FinishItem(w)
  PROVE  Kept'
<1>1. UNCHANGED <<log, heap, tasks>>
  BY DEF GetItem, FinishItem
<1>2. ASSUME NEW d \in Clusters, Queued(d) PROVE Queued(d)'
  <2>1. CASE GetItem(w)
    <3>1. /\ queue'.dirty = queue.dirty \ {Head(queue.order)}
          /\ working' = [working EXCEPT ![w].key = Head(queue.order)]
          /\ working[w] = AtRest
      BY <2>1 DEF GetItem, Dequeue
    <3>2. CASE d = Head(queue.order)
      <4>1. working'[w] = [working[w] EXCEPT !.key = d]
        BY <3>1, <3>2 DEF Rest
      <4>2. working'[w] = [key |-> d, done |-> FALSE]
        <5>1. working'[w] = [AtRest EXCEPT !.key = d]
          BY <3>1, <4>1, Zenon
        <5> QED BY <5>1 DEF AtRest
      <4> QED BY <4>2 DEF Queued
    <3>3. CASE d # Head(queue.order)
      <4>1. working[w] # [key |-> d, done |-> FALSE]
        BY <3>1, ConstantsAssumption DEF AtRest
      <4> QED BY <1>2, <3>1, <3>3, <4>1 DEF Queued, Rest
    <3> QED BY <3>2, <3>3
  <2>2. CASE FinishItem(w)
    <3>1. /\ queue'.dirty = queue.dirty /\ working' = [working EXCEPT ![w] = AtRest]
          /\ working[w] # [key |-> d, done |-> FALSE]
      BY <2>2 DEF FinishItem, Finish
    <3> QED BY <1>2, <3>1 DEF Queued, Rest
  <2> QED BY <2>1, <2>2
<1> QED BY <1>1, <1>2, KeptSame DEF Kept

\* A worker that looks at what the store has of an unsettled resource starts a
\* goroutine, or finds what another one has assigned or is assigning.
LEMMA ProcessItemKept ==
  ASSUME Core, Rest, Kept, NEW w \in Workers, ProcessItem(w)
  PROVE  Kept'
<1>1. PICK c \in Clusters : c = working[w].key
  BY HeldKey DEF ProcessItem
<1> DEFINE o == Stored(c)
<1>2. /\ UNCHANGED <<log, heap, queue>> /\ working' = [working EXCEPT ![w].done = TRUE]
      /\ o \in 1 .. Len(heap[c]) /\ ObjectOK(log[c], heap[c], o)
  BY CoreTypes DEF ProcessItem
<1>3. PICK p \in Readable(c, o) :
        \/ Handler(p) = "idle" /\ UNCHANGED tasks
        \/ \E s \in Slots : /\ tasks[c][s].pc = "idle" /\ Handler(p) # "idle"
                            /\ tasks' = [tasks EXCEPT ![c][s] = Started(p, o)]
  BY <1>1 DEF ProcessItem
<1>4. ASSUME NEW d \in Clusters, d # c, Queued(d) PROVE Queued(d)'
  <2>1. working[w] # [key |-> d, done |-> FALSE]
    BY <1>1, <1>4
  <2> QED BY <1>2, <1>4, <2>1 DEF Queued, Rest
<1>5. \A d \in Clusters : d # c => tasks'[d] = tasks[d]
  BY <1>3 DEF Core
<1>6. \A d \in Clusters : d # c => KeptOne(d)'
  BY <1>2, <1>4, <1>5, KeptSame DEF Kept
<1>7. ASSUME NEW s \in Slots, tasks[c][s].pc # "idle" PROVE tasks'[c][s] = tasks[c][s]
  BY <1>3, <1>7 DEF Core
<1>8. /\ Latest(c)' = Latest(c) /\ Current(c)' = Current(c) /\ Unsettled(c)' = Unsettled(c)
      /\ Stored(c)' = Stored(c)
  BY <1>2 DEF Latest, Current, Unsettled, Stored
<1>9. ASSUME NEW s \in Slots, ActsFor(c, s) PROVE ActsFor(c, s)'
  BY <1>2, <1>7, <1>8, <1>9 DEF ActsFor
<1>10. ASSUME Unsettled(c), heap[c][o].ver = Latest(c) PROVE \E s \in Slots : ActsFor(c, s)'
  <2>1. Origin(c, o) = Current(c) /\ Current(c).phase \in {"Waiting", "Failed"}
    BY <1>10 DEF Origin, Current, Unsettled
  <2>2. heap[c][o].phase = Current(c).phase \/ heap[c][o].phase \in {"Failed", "Error"}
    BY <1>2, <2>1 DEF ObjectOK, Origin
  <2>3. CASE p # heap[c][o].phase
    <3>1. PICK s \in Slots : tasks[c][s].obj = o /\ Assigns(tasks[c][s]) # {}
      BY <2>3 DEF Readable
    <3>2. tasks[c][s].pc # "idle"
      BY <3>1 DEF Assigns
    <3>3. ActsFor(c, s)
      BY <1>10, <3>1, <3>2 DEF ActsFor
    <3> QED BY <1>9, <3>3
  <2>4. CASE p = heap[c][o].phase /\ p # Current(c).phase
    <3>1. PICK s \in Slots : ActsFor(c, s)
      BY <1>2, <1>10, <2>4 DEF Kept, KeptOne, Stored
    <3> QED BY <1>9, <3>1
  <2>5. CASE p = Current(c).phase
    <3>1. Handler(p) # "idle"
      BY <2>1, <2>5 DEF Handler
    <3>2. PICK s \in Slots : tasks' = [tasks EXCEPT ![c][s] = Started(p, o)]
      BY <1>3, <3>1
    <3>3. tasks'[c][s] = Started(p, o)
      BY <3>2 DEF Core
    <3>4. tasks'[c][s].pc # "idle" /\ tasks'[c][s].obj = o
      BY <3>1, <3>3 DEF Started
    <3> QED BY <1>2, <1>8, <1>10, <3>4 DEF ActsFor
  <2> QED BY <2>3, <2>4, <2>5
<1>11. ASSUME Unsettled(c), NEW i \in 1 .. Stored(c), heap[c][i].ver = Latest(c),
              heap[c][i].phase # Current(c).phase
       PROVE  \E s \in Slots : tasks'[c][s].pc = "save" /\ ActsFor(c, s)'
  <2>1. PICK s \in Slots : tasks[c][s].pc = "save" /\ ActsFor(c, s)
    BY <1>11 DEF Kept, KeptOne
  <2>2. tasks'[c][s] = tasks[c][s]
    BY <1>7, <2>1
  <2> QED BY <1>9, <2>1, <2>2
<1> HIDE DEF o
<1>12. KeptOne(c)'
  BY <1>2, <1>8, <1>10, <1>11 DEF KeptOne, o
<1> QED BY <1>6, <1>12 DEF Kept

\* A goroutine that moves on goes on acting for its object.
LEMMA MoveActs ==
  ASSUME Core, NEW c \in Clusters, NEW s \in Slots, NEW pc, NEW f, NEW n, pc # "idle",
         Move(c, s, pc, f, n)
  PROVE  tasks'[c][s].pc # "idle" /\ tasks'[c][s].obj = tasks[c][s].obj
BY DEF Move, Core

LEMMA NextTryActs ==
  ASSUME Core, NEW c \in Clusters, NEW s \in Slots, NextTry(c, s)
  PROVE  tasks'[c][s].pc # "idle" /\ tasks'[c][s].obj = tasks[c][s].obj
BY MoveActs DEF NextTry, Again, GiveUp

\* A goroutine's step changes no other goroutine.
LEMMA OneActs ==
  ASSUME Core, NEW c \in Clusters, NEW s \in Slots, Handle(c, s)
  PROVE  /\ \A d \in Clusters : d # c => tasks'[d] = tasks[d]
         /\ \A r \in Slots : r # s => tasks'[c][r] = tasks[c][r]
<1>1. PICK u : tasks' = [tasks EXCEPT ![c][s] = u]
  BY DEF Handle, WaitPoll, ReadFresh, Install, SaveReady, AssignFailed, Announce, Save,
         DeletePoll, Remove, NextTry, Again, GiveUp, Goto, Move, End
<1> QED BY <1>1 DEF Core

\* A step of a goroutine that neither writes nor assigns.
LEMMA HandlerMoves ==
  ASSUME Core, Kept, NEW c \in Clusters, NEW s \in Slots, Handle(c, s),
         UNCHANGED <<log, heap, queue, working>>,
         Unsettled(c) /\ ActsFor(c, s) =>
           /\ tasks[c][s].pc # "save" /\ tasks'[c][s].pc # "idle"
           /\ tasks'[c][s].obj = tasks[c][s].obj
  PROVE  Kept'
<1>1. KeptOne(c)'
  BY OneActs, KeptMoved DEF Kept, Queued
<1> QED BY <1>1, OneActs, KeptElsewhere DEF Queued

\* A step of a goroutine that writes.
LEMMA HandlerWrites ==
  ASSUME Core, Kept, NEW c \in Clusters, NEW s \in Slots, Handle(c, s),
         NEW p, Write(c, p), UNCHANGED <<heap, queue, working>>
  PROVE  Kept'
<1>1. PICK v : log' = [log EXCEPT ![c] = Append(@, v)]
  BY DEF Write
<1>2. log'[c] = Append(log[c], v) /\ \A d \in Clusters : d # c => log'[d] = log[d]
  BY <1>1 DEF Core
<1> QED BY <1>2, KeptWritten, OneActs, KeptElsewhere DEF Queued

LEMMA HandlerKept ==
  ASSUME Core, Kept, ~ApiFails, NEW c \in Clusters, NEW s \in Slots, Handle(c, s)
  PROVE  Kept'
<1> DEFINE t == tasks[c][s]
<1>1. CASE WaitPoll(c, s) \/ ReadFresh(c, s) \/ Install(c, s)
  <2>1. UNCHANGED <<log, heap, queue, working>> /\ t.pc # "save"
    BY <1>1 DEF WaitPoll, ReadFresh, Install
  <2>2. tasks'[c][s].pc # "idle" /\ tasks'[c][s].obj = t.obj
    BY <1>1, MoveActs, NextTryActs DEF WaitPoll, ReadFresh, Install, Goto, GiveUp
  <2> QED BY <2>1, <2>2, HandlerMoves
<1>2. CASE SaveReady(c, s)
  <2>1. UNCHANGED <<heap, queue, working>> /\ t.pc # "save"
    BY <1>2 DEF SaveReady
  <2>2. CASE Write(c, "Ready")
    BY <2>1, <2>2, HandlerWrites
  <2>3. CASE UNCHANGED log /\ NextTry(c, s)
    BY <2>1, <2>3, NextTryActs, HandlerMoves
  <2>4. CASE UNCHANGED log /\ Current(c).phase = "Ready"
    BY <2>1, <2>4, HandlerMoves DEF Unsettled
  <2> QED BY <1>2, <2>2, <2>3, <2>4 DEF SaveReady
<1>3. ASSUME NEW p, heap' = [heap EXCEPT ![c][t.obj].phase = p], Goto(c, s, "save"),
             UNCHANGED <<log, queue, working>>
      PROVE  Kept'
  <2>1. KeptOne(c)'
    BY <1>3, KeptAssigned DEF Kept, Queued
  <2>2. \A d \in Clusters : d # c => heap'[d] = heap[d]
    BY <1>3 DEF Core
  <2> QED BY <1>3, <2>1, <2>2, OneActs, KeptElsewhere DEF Queued
<1>4. CASE AssignFailed(c, s) \/ Announce(c, s)
  BY <1>3, <1>4 DEF AssignFailed, Announce
<1>5. CASE Save(c, s)
  <2>1. UNCHANGED <<heap, queue, working>>
    BY <1>5 DEF Save
  <2>2. CASE \E p \in Readable(c, t.obj) : Write(c, p)
    BY <2>1, <2>2, HandlerWrites
  <2>3. CASE ~Accepted(c, heap[c][t.obj].ver) /\ UNCHANGED log
    <3>1. ~(Unsettled(c) /\ ActsFor(c, s))
      BY <2>3 DEF Accepted, Unsettled, ActsFor, Live
    <3> QED BY <2>1, <2>3, <3>1, HandlerMoves
  <2> QED BY <1>5, <2>2, <2>3 DEF Save
<1>6. CASE DeletePoll(c, s) \/ Remove(c, s)
  <2>1. UNCHANGED <<heap, queue, working>>
    BY <1>6 DEF DeletePoll, Remove
  <2>2. CASE Write(c, "Gone")
    BY <2>1, <2>2, HandlerWrites
  <2>3. CASE UNCHANGED log
    <3>1. TaskOK(log[c], heap[c], t)
      BY CoreTypes
    <3>2. ~(Unsettled(c) /\ ActsFor(c, s))
      BY <1>6, <3>1 DEF DeletePoll, Remove, TaskOK, Unsettled, ActsFor, Current
    <3> QED BY <2>1, <2>3, <3>2, HandlerMoves
  <2> QED BY <1>6, <2>2, <2>3 DEF DeletePoll, Remove
<1> QED BY <1>1, <1>2, <1>4, <1>5, <1>6 DEF Handle

\* After a start the store shows what the server has, and every key is queued.
LEMMA RestartKept ==
  ASSUME Core, Restart
  PROVE  Kept'
<1>1. PICK keys \in Orders({c \in Clusters : Live(c)}) : queue' = FilledQueue(keys)
  BY DEF Restart
<1>2. queue'.dirty = {c \in Clusters : Live(c)}
  BY <1>1, ConstantsAssumption, FS_Subset, FilledQueueHolds
<1>3. ASSUME NEW c \in Clusters PROVE KeptOne(c)'
  <2>1. PICK p, n : p = Current(c).phase /\ n = Latest(c)
    OBVIOUS
  <2>2. heap'[c] = <<[phase |-> p, ver |-> n]>>
    BY <2>1 DEF Restart
  <2>3. Stored(c)' = 1 /\ heap'[c][1].phase = p
    BY <2>2 DEF Stored
  <2>4. Current(c)' = Current(c)
    BY DEF Restart, Current, Latest
  <2>5. \A o \in 1 .. Stored(c)' : heap'[c][o].phase = Current(c)'.phase
    BY <2>1, <2>3, <2>4
  <2>6. Unsettled(c)' => Queued(c)'
    BY <1>2, <2>4 DEF Unsettled, Queued, Live
  <2> QED BY <2>5, <2>6 DEF KeptOne
<1> QED BY <1>3 DEF Kept

LEMMA NextKept == ~ApiFails /\ Core /\ Rest /\ Kept /\ [Next]_vars => Kept'
<1> SUFFICES ASSUME ~ApiFails, Core, Rest, Kept, [Next]_vars PROVE Kept'
  OBVIOUS
<1>1. ASSUME NEW c \in Clusters, Client(c) \/ Deliver(c) \/ Relist(c) PROVE Kept'
  BY <1>1, ClientKept, InformerKept
<1>2. ASSUME NEW w \in Workers, GetItem(w) \/ ProcessItem(w) \/ FinishItem(w) PROVE Kept'
  BY <1>2, GetItemKept, ProcessItemKept
<1>3. ASSUME NEW c \in Clusters, NEW s \in Slots, Handle(c, s) PROVE Kept'
  BY <1>3, HandlerKept
<1>4. CASE Restart
  BY <1>4, RestartKept
<1>5. CASE UNCHANGED vars
  BY <1>5, KeptSame DEF Kept, Queued, vars
<1> QED BY <1>1, <1>2, <1>3, <1>4, <1>5 DEF Next

\* As long as the API server answers, an SDSCluster that waits or has failed is
\* never forgotten, through relists, restarts, refused updates and goroutines that
\* share its object (handleErr, controller.go:174).
THEOREM NeverForgotten == ApiFails = FALSE => (Spec => []NotForgotten)
<1> SUFFICES ASSUME ApiFails = FALSE PROVE Spec => []NotForgotten
  OBVIOUS
<1>1. Init => Core /\ Rest /\ Kept
  <2>1. Init => Kept
    BY DEF Init, Kept, KeptOne, Unsettled, Current, Latest
  <2> QED BY <2>1, InitInvariant
<1>2. Core /\ Rest /\ Kept /\ [Next]_vars => (Core /\ Rest /\ Kept)'
  BY NextInvariant, NextKept
<1>3. Kept => NotForgotten
  BY DEF Kept, KeptOne, NotForgotten, Unsettled, Queued, ActsFor
<1> QED BY <1>1, <1>2, <1>3, PTL DEF Spec
=============================================================================
