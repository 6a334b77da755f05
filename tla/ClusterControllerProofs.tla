----------------------- MODULE ClusterControllerProofs -----------------------
(***************************************************************************)
(* Theorems about the SDSCluster controller, for any set of clusters and   *)
(* workers, any number of handler goroutines, tries, versions, relists and *)
(* restarts, whatever the cluster-manager-api answers and whether or not   *)
(* the API server fails.                                                   *)
(*                                                                         *)
(* TypeOK is not inductive by itself: a step follows pointers (from a task *)
(* to an object, from an object to a version), so it is proved together    *)
(* with IndInv.  IndInv speaks of one cluster at a time; Local states it   *)
(* of one log L, heap H and family of tasks T, so that the lemmas on what  *)
(* a step does to them need no primes.                                     *)
(***************************************************************************)
EXTENDS ClusterController, WorkQueueProofs, FiniteSetTheorems

ObjectOK(L, H, o) ==
  /\ H[o].ver \in 1 .. Len(L)
  /\ H[o].phase # L[H[o].ver].phase =>
       \/ L[H[o].ver].phase = "Waiting" /\ H[o].phase \in {"Failed", "Error"}
       \/ L[H[o].ver].phase = "Failed"  /\ H[o].phase = "Error"

TaskOK(L, H, t) ==
  /\ t.obj \in 1 .. Len(H) /\ t.fresh \in 1 .. Len(L)
  /\ LET p == L[H[t.obj].ver].phase
     IN  /\ t.pc \in {"wait", "read", "install", "saveReady", "fail"} => p = "Waiting"
         /\ t.pc \in {"announce", "save"} => p \in {"Waiting", "Failed"}
         /\ t.pc = "save" => H[t.obj].phase # p
         /\ t.pc \in {"delete", "remove"} => p = "Deleting"

LocalType(L, H, T) == L \in Seq(Version) /\ H \in Seq(Object) /\ T \in [Slots -> Task]

Local(L, H, T) ==
  /\ Len(L) > 0 /\ Len(H) > 0
  /\ \A o \in 1 .. Len(H) : ObjectOK(L, H, o)
  /\ \A s \in Slots : TaskOK(L, H, T[s])

-----------------------------------------------------------------------------
(* One log, one heap, one family of tasks *)

\* Writing a version disturbs neither the objects nor the tasks.
LEMMA LocalWrite ==
  ASSUME NEW L, NEW H, NEW T, LocalType(L, H, T), Local(L, H, T), NEW v \in Version
  PROVE  LocalType(Append(L, v), H, T) /\ Local(Append(L, v), H, T)
<1> DEFINE M == Append(L, v)
<1>1. /\ M \in Seq(Version) /\ Len(M) = Len(L) + 1 /\ Len(L) \in Nat
      /\ \A i \in 1 .. Len(L) : M[i] = L[i]
  BY DEF LocalType
<1> HIDE DEF M
<1>2. ASSUME NEW o \in 1 .. Len(H) PROVE ObjectOK(M, H, o)
  BY <1>1 DEF Local, ObjectOK
<1>3. ASSUME NEW s \in Slots PROVE TaskOK(M, H, T[s])
  <2>1. TaskOK(L, H, T[s]) /\ ObjectOK(L, H, T[s].obj)
    BY DEF Local, TaskOK
  <2>2. M[H[T[s].obj].ver] = L[H[T[s].obj].ver]
    BY <1>1, <2>1 DEF ObjectOK
  <2> QED BY <1>1, <2>1, <2>2 DEF TaskOK
<1> QED BY <1>1, <1>2, <1>3 DEF LocalType, Local, M

\* Decoding a version into a new object disturbs nothing.
LEMMA LocalObserve ==
  ASSUME NEW L, NEW H, NEW T, LocalType(L, H, T), Local(L, H, T), NEW v \in 1 .. Len(L)
  PROVE  LET G == Append(H, [phase |-> L[v].phase, ver |-> v])
         IN  LocalType(L, G, T) /\ Local(L, G, T)
<1> DEFINE x == [phase |-> L[v].phase, ver |-> v]
           G == Append(H, x)
<1>1. x \in Object
  <2>1. Len(L) \in Nat /\ L[v] \in Version
    BY DEF LocalType
  <2>2. v \in Nat \ {0} /\ L[v].phase \in Phases
    BY <2>1 DEF Version
  <2> QED BY <2>2 DEF Object
<1>2. /\ G \in Seq(Object) /\ Len(G) = Len(H) + 1 /\ Len(H) \in Nat
      /\ G[Len(H) + 1] = x
      /\ \A i \in 1 .. Len(H) : G[i] = H[i]
  BY <1>1 DEF LocalType
<1>3. x.ver = v /\ x.phase = L[v].phase
  OBVIOUS
<1> HIDE DEF x, G
<1>4. ASSUME NEW o \in 1 .. Len(G) PROVE ObjectOK(L, G, o)
  <2>1. CASE o \in 1 .. Len(H) BY <1>2, <2>1 DEF Local, ObjectOK
  <2>2. CASE o = Len(H) + 1 BY <1>2, <1>3, <2>2 DEF ObjectOK
  <2> QED BY <1>2, <2>1, <2>2
<1>5. ASSUME NEW s \in Slots PROVE TaskOK(L, G, T[s])
  BY <1>2 DEF Local, TaskOK
<1> QED BY <1>2, <1>4, <1>5 DEF LocalType, Local, G, x

\* Moving one task on disturbs only that task.
LEMMA LocalTask ==
  ASSUME NEW L, NEW H, NEW T, LocalType(L, H, T), Local(L, H, T),
         NEW s \in Slots, NEW t \in Task, TaskOK(L, H, t)
  PROVE  LocalType(L, H, [T EXCEPT ![s] = t]) /\ Local(L, H, [T EXCEPT ![s] = t])
BY DEF LocalType, Local

\* Assigning Failed or Error to an object whose version may fail disturbs
\* nobody: the other goroutines that share the object are waiters or failers.
LEMMA LocalAssign ==
  ASSUME NEW L, NEW H, NEW T, LocalType(L, H, T), Local(L, H, T),
         NEW o \in 1 .. Len(H), NEW p,
         \/ L[H[o].ver].phase = "Waiting" /\ p \in {"Failed", "Error"}
         \/ L[H[o].ver].phase = "Failed"  /\ p = "Error"
  PROVE  LET G == [H EXCEPT ![o].phase = p]
         IN  LocalType(L, G, T) /\ Local(L, G, T)
<1> DEFINE G == [H EXCEPT ![o].phase = p]
<1>1. H[o] \in Object /\ p \in Phases
  BY DEF LocalType, Phases
<1>2. /\ G \in Seq(Object) /\ Len(G) = Len(H) /\ Len(H) \in Nat
      /\ G[o].phase = p /\ G[o].ver = H[o].ver
      /\ \A i \in 1 .. Len(H) : i # o => G[i] = H[i]
  BY <1>1 DEF LocalType, Object
<1> HIDE DEF G
<1>3. ASSUME NEW i \in 1 .. Len(G) PROVE ObjectOK(L, G, i)
  <2>1. ObjectOK(L, H, i) BY <1>2 DEF Local
  <2> QED BY <1>2, <2>1 DEF ObjectOK
<1>4. ASSUME NEW s \in Slots PROVE TaskOK(L, G, T[s])
  <2>1. TaskOK(L, H, T[s]) BY DEF Local
  <2>2. CASE T[s].obj = o BY <1>2, <2>1, <2>2 DEF TaskOK
  <2>3. CASE T[s].obj # o BY <1>2, <2>1, <2>3 DEF TaskOK
  <2> QED BY <2>2, <2>3
<1> QED BY <1>2, <1>3, <1>4 DEF LocalType, Local, G

-----------------------------------------------------------------------------
(* All clusters *)

Core ==
  /\ log \in [Clusters -> Seq(Version)]
  /\ heap \in [Clusters -> Seq(Object)]
  /\ tasks \in [Clusters -> [Slots -> Task]]
  /\ \A c \in Clusters : Local(log[c], heap[c], tasks[c])

Rest ==
  /\ queue \in QueueOf(Clusters)
  /\ working \in [Workers -> [key : Clusters, done : BOOLEAN] \cup {AtRest}]
  /\ sent \in [Clusters -> SUBSET (Nat \X Notices)]
  /\ relists \in 0 .. MaxRelists /\ restarts \in 0 .. MaxRestarts

\* Core and Rest are TypeOK and IndInv, taken apart differently.
LEMMA InvariantParts == TypeOK /\ IndInv <=> Core /\ Rest
<1>1. ASSUME TypeOK, IndInv PROVE Core /\ Rest
  <2>1. Rest /\ log \in [Clusters -> Seq(Version)] /\ heap \in [Clusters -> Seq(Object)]
             /\ tasks \in [Clusters -> [Slots -> Task]]
    BY <1>1 DEF TypeOK, Rest
  <2>2. PointersOK /\ SharedObjects /\ TasksOK
    BY <1>1 DEF IndInv
  <2>3. ASSUME NEW c \in Clusters PROVE Local(log[c], heap[c], tasks[c])
    <3>1. Len(log[c]) > 0 /\ Len(heap[c]) > 0
      BY <2>1, <2>2 DEF PointersOK, Stored, Latest
    <3>2. ASSUME NEW o \in 1 .. Len(heap[c]) PROVE ObjectOK(log[c], heap[c], o)
      BY <2>2 DEF PointersOK, SharedObjects, ObjectOK, Stored, Latest, Origin
    <3>3. ASSUME NEW s \in Slots PROVE TaskOK(log[c], heap[c], tasks[c][s])
      BY <2>2 DEF PointersOK, TasksOK, TaskOK, Stored, Latest, Origin
    <3> QED BY <3>1, <3>2, <3>3 DEF Local
  <2> QED BY <2>1, <2>3 DEF Core
<1>2. ASSUME Core, Rest PROVE TypeOK /\ IndInv
  <2>1. TypeOK
    BY <1>2 DEF TypeOK, Core, Rest
  <2>2. ASSUME NEW c \in Clusters
        PROVE  /\ Stored(c) \in Nat \ {0} /\ Latest(c) \in Nat \ {0}
               /\ \A o \in 1 .. Stored(c) : ObjectOK(log[c], heap[c], o)
               /\ \A s \in Slots : TaskOK(log[c], heap[c], tasks[c][s])
    BY <1>2 DEF Core, Local, Stored, Latest
  <2>3. PointersOK
    BY <2>2 DEF PointersOK, ObjectOK, TaskOK, Stored, Latest
  <2>4. SharedObjects
    BY <2>2 DEF SharedObjects, ObjectOK, Origin
  <2>5. TasksOK
    BY <2>2 DEF TasksOK, TaskOK, Origin
  <2> QED BY <2>1, <2>3, <2>4, <2>5 DEF IndInv
<1> QED BY <1>1, <1>2

\* The types of what the actions look at.
LEMMA CoreTypes ==
  ASSUME Core, NEW c \in Clusters
  PROVE  /\ Latest(c) \in 1 .. Len(log[c]) /\ Len(log[c]) \in Nat \ {0}
         /\ Current(c) \in Version
         /\ Stored(c) \in 1 .. Len(heap[c]) /\ Len(heap[c]) \in Nat \ {0}
         /\ \A o \in 1 .. Len(heap[c]) : /\ heap[c][o] \in Object
                                         /\ Origin(c, o) \in Version
                                         /\ ObjectOK(log[c], heap[c], o)
         /\ \A s \in Slots : tasks[c][s] \in Task /\ TaskOK(log[c], heap[c], tasks[c][s])
<1>1. log[c] \in Seq(Version) /\ Len(log[c]) > 0 /\ heap[c] \in Seq(Object) /\ Len(heap[c]) > 0
  BY DEF Core, Local
<1>2. \A o \in 1 .. Len(heap[c]) : ObjectOK(log[c], heap[c], o)
  BY DEF Core, Local
<1>3. \A s \in Slots : tasks[c][s] \in Task /\ TaskOK(log[c], heap[c], tasks[c][s])
  BY DEF Core, Local
<1>4. Latest(c) \in 1 .. Len(log[c]) /\ Len(log[c]) \in Nat \ {0} /\ Current(c) \in Version
  BY <1>1 DEF Latest, Current
<1>5. Stored(c) \in 1 .. Len(heap[c]) /\ Len(heap[c]) \in Nat \ {0}
  BY <1>1 DEF Stored
<1>6. \A o \in 1 .. Len(heap[c]) : heap[c][o] \in Object /\ Origin(c, o) \in Version
  BY <1>1, <1>2 DEF Origin, ObjectOK
<1> QED BY <1>2, <1>3, <1>4, <1>5, <1>6

\* A step that touches one cluster.
LEMMA CoreStep ==
  ASSUME Core, NEW c \in Clusters, NEW L, NEW H, NEW T,
         LocalType(L, H, T), Local(L, H, T),
         log' = [log EXCEPT ![c] = L],
         heap' = [heap EXCEPT ![c] = H],
         tasks' = [tasks EXCEPT ![c] = T]
  PROVE  Core'
BY DEF Core, LocalType

\* A version is written, or not, and one goroutine moves on.
LEMMA CoreTask ==
  ASSUME Core, NEW c \in Clusters, NEW s \in Slots, NEW t \in Task,
         TaskOK(log[c], heap[c], t),
         log' = log \/ \E v \in Version : log' = [log EXCEPT ![c] = Append(@, v)],
         heap' = heap,
         tasks' = [tasks EXCEPT ![c][s] = t]
  PROVE  Core'
<1> DEFINE T == [tasks[c] EXCEPT ![s] = t]
<1>1. LocalType(log[c], heap[c], tasks[c]) /\ Local(log[c], heap[c], tasks[c])
  BY DEF Core, LocalType
<1>2. LocalType(log[c], heap[c], T) /\ Local(log[c], heap[c], T)
  BY <1>1, LocalTask
<1>3. heap' = [heap EXCEPT ![c] = heap[c]] /\ tasks' = [tasks EXCEPT ![c] = T]
  BY DEF Core
<1> HIDE DEF T
<1>4. CASE log' = log
  <2>1. log' = [log EXCEPT ![c] = log[c]]
    BY <1>4 DEF Core
  <2> QED BY <1>2, <1>3, <2>1, CoreStep
<1>5. CASE \E v \in Version : log' = [log EXCEPT ![c] = Append(@, v)]
  <2>1. PICK v \in Version : log' = [log EXCEPT ![c] = Append(log[c], v)]
    BY <1>5
  <2>2. LocalType(Append(log[c], v), heap[c], T) /\ Local(Append(log[c], v), heap[c], T)
    BY <1>2, LocalWrite
  <2> QED BY <1>3, <2>1, <2>2, CoreStep
<1> QED BY <1>4, <1>5

\* A version is written by a client.
LEMMA CoreWrite ==
  ASSUME Core, NEW c \in Clusters, NEW v \in Version,
         log' = [log EXCEPT ![c] = Append(@, v)], UNCHANGED <<heap, tasks>>
  PROVE  Core'
<1> DEFINE L == Append(log[c], v)
<1>1. LocalType(log[c], heap[c], tasks[c]) /\ Local(log[c], heap[c], tasks[c])
  BY DEF Core, LocalType
<1>2. LocalType(L, heap[c], tasks[c]) /\ Local(L, heap[c], tasks[c])
  BY <1>1, LocalWrite
<1>3. log' = [log EXCEPT ![c] = L] /\ heap' = heap /\ tasks' = tasks
  OBVIOUS
<1> HIDE DEF L
<1> QED BY <1>2, <1>3 DEF Core, LocalType

\* An object is assigned a phase by a goroutine that then goes to save it.
LEMMA CoreAssign ==
  ASSUME Core, NEW c \in Clusters, NEW s \in Slots, NEW p \in {"Failed", "Error"},
         \/ Origin(c, tasks[c][s].obj).phase = "Waiting"
         \/ Origin(c, tasks[c][s].obj).phase = "Failed" /\ p = "Error",
         log' = log,
         heap' = [heap EXCEPT ![c][tasks[c][s].obj].phase = p],
         Goto(c, s, "save")
  PROVE  Core'
<1> DEFINE t == tasks[c][s]
           o == tasks[c][s].obj
           u == [pc |-> "save", obj |-> o, fresh |-> t.fresh, tries |-> t.tries]
           H == [heap[c] EXCEPT ![o].phase = p]
           T == [tasks[c] EXCEPT ![s] = u]
<1>1. LocalType(log[c], heap[c], tasks[c]) /\ Local(log[c], heap[c], tasks[c])
  BY DEF Core, LocalType
<1>2. /\ t \in Task /\ TaskOK(log[c], heap[c], t)
      /\ o \in 1 .. Len(heap[c]) /\ heap[c][o] \in Object
      /\ Origin(c, o) = log[c][heap[c][o].ver]
  BY CoreTypes DEF TaskOK, Origin
<1>3. LocalType(log[c], H, tasks[c]) /\ Local(log[c], H, tasks[c])
  BY <1>1, <1>2, LocalAssign
<1>4. u \in Task /\ u.obj = o /\ u.pc = "save" /\ u.fresh = t.fresh
  BY <1>2 DEF Task, Steps
<1>5. H[o].phase = p /\ H[o].ver = heap[c][o].ver /\ Len(H) = Len(heap[c])
  <2>1. heap[c] \in Seq(Object) /\ heap[c][o] \in [phase : Phases, ver : Nat \ {0}]
    BY <1>1, <1>2 DEF LocalType, Object
  <2> HIDE DEF o
  <2>2. H[o] = [heap[c][o] EXCEPT !.phase = p] /\ Len(H) = Len(heap[c])
    BY <1>2, <2>1
  <2> QED BY <2>1, <2>2
<1>6. TaskOK(log[c], H, u)
  BY <1>2, <1>4, <1>5 DEF TaskOK
<1>7. LocalType(log[c], H, T) /\ Local(log[c], H, T)
  BY <1>3, <1>4, <1>6, LocalTask
<1>8. /\ log' = [log EXCEPT ![c] = log[c]]
      /\ heap' = [heap EXCEPT ![c] = H] /\ tasks' = [tasks EXCEPT ![c] = T]
  BY DEF Core, Goto, Move
<1> HIDE DEF T, H
<1> QED BY <1>7, <1>8, CoreStep

\* A goroutine that ends leaves its slot idle.
LEMMA IdleTask ==
  ASSUME Core, NEW c \in Clusters
  PROVE  Idle \in Task /\ TaskOK(log[c], heap[c], Idle)
<1>1. Len(log[c]) \in Nat \ {0} /\ Len(heap[c]) \in Nat \ {0}
  BY CoreTypes
<1>2. Idle \in Task
  BY ConstantsAssumption DEF Idle, Task, Steps
<1> QED BY <1>1, <1>2 DEF Idle, TaskOK

WaiterSteps  == {"wait", "read", "install", "saveReady", "fail"}
DeleterSteps == {"delete", "remove"}

\* A waiter stays a waiter of its object, a deleter a deleter.
LEMMA MoveTask ==
  ASSUME Core, NEW c \in Clusters, NEW s \in Slots,
         NEW pc \in Steps, NEW f \in 1 .. Len(log[c]), NEW n \in 0 .. MaxTries - 1,
         \/ tasks[c][s].pc \in WaiterSteps /\ pc \in WaiterSteps
         \/ tasks[c][s].pc \in DeleterSteps /\ pc \in DeleterSteps,
         Move(c, s, pc, f, n)
  PROVE  \E u \in Task : TaskOK(log[c], heap[c], u) /\ tasks' = [tasks EXCEPT ![c][s] = u]
<1> DEFINE u == [pc |-> pc, obj |-> tasks[c][s].obj, fresh |-> f, tries |-> n]
<1>1. tasks[c][s] \in Task /\ TaskOK(log[c], heap[c], tasks[c][s]) /\ Len(log[c]) \in Nat
  BY CoreTypes
<1>2. u \in Task
  BY <1>1 DEF Task
<1>3. TaskOK(log[c], heap[c], u)
  BY <1>1 DEF TaskOK, WaiterSteps, DeleterSteps
<1>4. tasks' = [tasks EXCEPT ![c][s] = u]
  BY DEF Move
<1> QED BY <1>2, <1>3, <1>4

\* A goroutine that ends leaves its slot idle.
LEMMA EndTask ==
  ASSUME Core, NEW c \in Clusters, NEW s \in Slots, End(c, s)
  PROVE  \E u \in Task : TaskOK(log[c], heap[c], u) /\ tasks' = [tasks EXCEPT ![c][s] = u]
BY IdleTask DEF End

\* Going around the loop again, or giving up, a waiter stays a waiter.
LEMMA NextTryTask ==
  ASSUME Core, NEW c \in Clusters, NEW s \in Slots,
         tasks[c][s].pc \in WaiterSteps, NextTry(c, s)
  PROVE  \E u \in Task : TaskOK(log[c], heap[c], u) /\ tasks' = [tasks EXCEPT ![c][s] = u]
<1> DEFINE n == tasks[c][s].tries
<1>1. /\ n \in 0 .. MaxTries - 1 /\ MaxTries \in Nat \ {0}
      /\ 1 \in 1 .. Len(log[c]) /\ 0 \in 0 .. MaxTries - 1
      /\ {"wait", "fail"} \subseteq Steps \cap WaiterSteps
  BY CoreTypes, ConstantsAssumption DEF Task, Steps, WaiterSteps
<1>2. CASE n + 1 < MaxTries
  <2>1. n + 1 \in 0 .. MaxTries - 1
    BY <1>1, <1>2
  <2>2. Move(c, s, "wait", 1, n + 1)
    BY <1>2 DEF NextTry, Again
  <2> QED BY <1>1, <2>1, <2>2, MoveTask
<1>3. CASE ~(n + 1 < MaxTries)
  <2>1. Move(c, s, "fail", 1, 0)
    BY <1>3 DEF NextTry, Again, GiveUp
  <2> QED BY <1>1, <2>1, MoveTask
<1> QED BY <1>2, <1>3

\* A write of a phase is the write of a version.
LEMMA WriteVersion ==
  ASSUME Core, NEW c \in Clusters, NEW p \in Phases, Write(c, p)
  PROVE  \E v \in Version : log' = [log EXCEPT ![c] = Append(@, v)]
<1> DEFINE v == [Current(c) EXCEPT !.phase = p]
<1>1. v \in Version
  BY CoreTypes DEF Version
<1>2. log' = [log EXCEPT ![c] = Append(@, v)]
  BY DEF Write
<1> QED BY <1>1, <1>2

\* A reader finds a phase.
LEMMA ReadablePhase ==
  ASSUME Core, NEW c \in Clusters, NEW o \in 1 .. Len(heap[c])
  PROVE  Readable(c, o) \subseteq Phases
<1>1. heap[c][o].phase \in Phases
  BY CoreTypes DEF Object
<1> QED BY <1>1 DEF Readable, Phases

\* A notice of a version has a generation and a kind.
LEMMA NotifyType ==
  ASSUME sent \in [Clusters -> SUBSET (Nat \X Notices)], NEW c \in Clusters,
         NEW v \in Version, NEW k \in Notices, Notify(c, v, k)
  PROVE  sent' \in [Clusters -> SUBSET (Nat \X Notices)]
<1>1. v.gen \in Nat
  BY DEF Version
<1> DEFINE S == sent[c] \cup IF v.url THEN {<<v.gen, k>>} ELSE {}
<1>2. S \in SUBSET (Nat \X Notices)
  BY <1>1
<1>3. sent' = [sent EXCEPT ![c] = S]
  BY DEF Notify
<1> HIDE DEF S
<1> QED BY <1>2, <1>3

-----------------------------------------------------------------------------
(* The steps *)

\* A step of the client, of the informer, of a worker or of a goroutine keeps
\* everything its pointers lead to in order.
LEMMA ClientStep ==
  ASSUME Core, Rest, NEW c \in Clusters, Client(c)
  PROVE  Core' /\ Rest'
<1>1. Current(c) \in Version
  BY CoreTypes
<1>2. CASE Create(c)
  <2>1. PICK u \in BOOLEAN : log' = [log EXCEPT ![c] =
          Append(@, [phase |-> "Waiting", url |-> u, gen |-> Current(c).gen + 1])]
    BY <1>2 DEF Create
  <2>2. [phase |-> "Waiting", url |-> u, gen |-> Current(c).gen + 1] \in Version
    BY <1>1 DEF Version, Phases
  <2>3. Core'
    BY <1>2, <2>1, <2>2, CoreWrite DEF Create
  <2> QED BY <1>2, <2>3 DEF Create, Rest
<1>3. CASE Request(c)
  <2>1. PICK p \in Phases : Write(c, p)
    BY <1>3 DEF Request, Phases
  <2>2. Core'
    BY <1>3, <2>1, WriteVersion, CoreWrite DEF Request
  <2> QED BY <1>3, <2>2 DEF Request, Rest
<1>4. CASE Withdraw(c)
  <2>1. Write(c, "Gone") /\ "Gone" \in Phases
    BY <1>4 DEF Withdraw, Phases
  <2>2. Core'
    BY <1>4, <2>1, WriteVersion, CoreWrite DEF Withdraw
  <2> QED BY <1>4, <2>2 DEF Withdraw, Rest
<1> QED BY <1>2, <1>3, <1>4 DEF Client

\* The store takes a new object.
LEMMA ObserveStep ==
  ASSUME Core, Rest, NEW c \in Clusters, NEW v \in 1 .. Len(log[c]),
         Observe(c, v), UNCHANGED <<log, working, tasks, sent, restarts>>,
         relists' \in 0 .. MaxRelists
  PROVE  Core' /\ Rest'
<1> DEFINE H == Append(heap[c], [phase |-> log[c][v].phase, ver |-> v])
<1>1. LocalType(log[c], heap[c], tasks[c]) /\ Local(log[c], heap[c], tasks[c])
  BY DEF Core, LocalType
<1>2. LocalType(log[c], H, tasks[c]) /\ Local(log[c], H, tasks[c])
  BY <1>1, LocalObserve
<1>3. heap' = [heap EXCEPT ![c] = H] /\ log' = log /\ tasks' = tasks
  BY DEF Observe
<1> HIDE DEF H
<1>4. Core'
  BY <1>2, <1>3 DEF Core, LocalType
<1>5. Enqueue(queue, c) \in QueueOf(Clusters)
  BY EnqueueType DEF Rest
<1> QED BY <1>4, <1>5 DEF Observe, Rest

\* An event of the watch, and a new list of the informer, keep the invariant.
LEMMA InformerStep ==
  ASSUME Core, Rest, NEW c \in Clusters, Deliver(c) \/ Relist(c)
  PROVE  Core' /\ Rest'
<1>1. /\ Latest(c) \in 1 .. Len(log[c]) /\ Latest(c) = Len(log[c]) /\ Len(log[c]) \in Nat
      /\ heap[c][Stored(c)].ver \in 1 .. Len(log[c])
  BY CoreTypes DEF ObjectOK, Latest
<1>2. CASE Deliver(c)
  <2>1. heap[c][Stored(c)].ver + 1 \in 1 .. Len(log[c])
    BY <1>1, <1>2 DEF Deliver
  <2> QED BY <1>2, <2>1, ObserveStep DEF Deliver, Rest
<1>3. CASE Relist(c)
  <2>1. relists' \in 0 .. MaxRelists
    BY <1>3, ConstantsAssumption DEF Relist, Rest
  <2> QED BY <1>1, <1>3, <2>1, ObserveStep DEF Relist
<1> QED BY <1>2, <1>3

\* A worker that does not rest holds the key of a cluster.
LEMMA HeldKey ==
  ASSUME Rest, NEW w \in Workers
  PROVE  /\ working[w] = AtRest => working[w].key = NoKey /\ ~working[w].done
         /\ working[w] # AtRest => /\ working[w].key \in Clusters /\ working[w].key # NoKey
                                   /\ working[w] \in [key : Clusters, done : BOOLEAN]
BY ConstantsAssumption DEF Rest, AtRest

\* A worker that takes a key, or releases it, keeps the invariant.
LEMMA GetItemStep ==
  ASSUME Core, Rest, NEW w \in Workers, GetItem(w) \/ FinishItem(w)
  PROVE  Core' /\ Rest'
<1>1. Core'
  BY DEF GetItem, FinishItem, Core
<1>2. CASE GetItem(w)
  <2> DEFINE k == Head(queue.order)
             h == [working[w] EXCEPT !.key = k]
  <2>1. Dequeue(queue) \in QueueOf(Clusters) /\ k \in Clusters
    BY <1>2, DequeueType DEF GetItem, Rest
  <2>2. h \in [key : Clusters, done : BOOLEAN]
    <3>1. working[w] \in [key : {NoKey}, done : BOOLEAN]
      BY <1>2 DEF GetItem, AtRest
    <3> HIDE DEF k
    <3> QED BY <2>1, <3>1
  <2>3. working' = [working EXCEPT ![w] = h]
    BY <1>2 DEF GetItem
  <2> HIDE DEF h
  <2> QED BY <1>1, <1>2, <2>1, <2>2, <2>3 DEF GetItem, Rest
<1>3. CASE FinishItem(w)
  <2>1. working[w].key \in Clusters
    BY <1>3, HeldKey DEF FinishItem
  <2>2. Finish(queue, working[w].key) \in QueueOf(Clusters)
    BY <2>1, FinishType DEF Rest
  <2> QED BY <1>1, <1>3, <2>2 DEF FinishItem, Rest
<1> QED BY <1>2, <1>3

\* The handler started for a phase the object can show is one TasksOK allows:
\* an assigned object shows Failed or Error, and its version waited or failed.
LEMMA ProcessItemStep ==
  ASSUME Core, Rest, NEW w \in Workers, ProcessItem(w)
  PROVE  Core' /\ Rest'
<1> DEFINE c == working[w].key
           o == Stored(c)
<1>1. c \in Clusters /\ working' \in [Workers -> [key : Clusters, done : BOOLEAN] \cup {AtRest}]
  <2> DEFINE h == [working[w] EXCEPT !.done = TRUE]
  <2>1. c \in Clusters /\ working[w] \in [key : Clusters, done : BOOLEAN]
    BY HeldKey DEF ProcessItem
  <2>2. h \in [key : Clusters, done : BOOLEAN] /\ working' = [working EXCEPT ![w] = h]
    BY <2>1 DEF ProcessItem
  <2> HIDE DEF h
  <2> QED BY <2>1, <2>2 DEF Rest
<1>2. PICK p \in Readable(c, o) :
        IF Handler(p) = "idle"
        THEN UNCHANGED <<tasks, sent>>
        ELSE /\ \E s \in Slots :
                  /\ tasks[c][s].pc = "idle"
                  /\ tasks' = [tasks EXCEPT ![c][s] = Started(p, o)]
             /\ IF p = "Waiting" THEN Notify(c, Origin(c, o), "InProgress") ELSE UNCHANGED sent
  BY DEF ProcessItem
<1>3. UNCHANGED <<log, heap, queue, relists, restarts>>
  BY DEF ProcessItem
<1>4. sent' \in [Clusters -> SUBSET (Nat \X Notices)]
  <2>1. Origin(c, o) \in Version /\ "InProgress" \in Notices
    BY <1>1, CoreTypes DEF Notices
  <2>2. CASE UNCHANGED sent
    BY <2>2 DEF Rest
  <2>3. CASE Notify(c, Origin(c, o), "InProgress")
    BY <1>1, <2>1, <2>3, NotifyType DEF Rest
  <2> QED BY <1>2, <2>2, <2>3
<1>6. Rest'
  BY <1>1, <1>3, <1>4 DEF Rest
<1>7. CASE Handler(p) = "idle"
  <2>1. UNCHANGED tasks
    BY <1>2, <1>7
  <2> QED BY <1>3, <1>6, <2>1 DEF Core
<1>8. CASE Handler(p) # "idle"
  <2> DEFINE u == Started(p, o)
  <2>1. PICK s \in Slots : tasks' = [tasks EXCEPT ![c][s] = u]
    BY <1>2, <1>8
  <2>2. o \in 1 .. Len(heap[c]) /\ ObjectOK(log[c], heap[c], o) /\ Idle \in Task
        /\ Len(heap[c]) \in Nat /\ Len(log[c]) \in Nat \ {0}
    BY <1>1, CoreTypes, IdleTask
  <2>3. \/ p = "Waiting"  /\ Handler(p) = "wait"
        \/ p = "Deleting" /\ Handler(p) = "delete"
        \/ p = "Failed"   /\ Handler(p) = "announce"
    BY <1>8 DEF Handler
  <2>4. p = heap[c][o].phase
    BY <2>3 DEF Readable
  <2>5. u \in Task /\ u.pc = Handler(p) /\ u.obj = o /\ u.fresh = 1
    <3>1. o \in Nat \ {0} /\ Handler(p) \in Steps /\ 0 \in 0 .. MaxTries - 1
      BY <2>2, <2>3, ConstantsAssumption DEF Steps
    <3> HIDE DEF o
    <3> QED BY <3>1 DEF Started, Task
  <2> HIDE DEF u, c, o
  <2>6. TaskOK(log[c], heap[c], u)
    BY <2>2, <2>3, <2>4, <2>5 DEF TaskOK, ObjectOK
  <2>7. Core'
    BY <1>1, <1>3, <2>1, <2>5, <2>6, CoreTask
  <2> QED BY <1>6, <2>7
<1> QED BY <1>7, <1>8

\* The goroutines that only move on: they write a version, or none.
LEMMA MovingStep ==
  ASSUME Core, Rest, NEW c \in Clusters, NEW s \in Slots,
         \E u \in Task : TaskOK(log[c], heap[c], u) /\ tasks' = [tasks EXCEPT ![c][s] = u],
         log' = log \/ (\E p \in Phases : Write(c, p)),
         UNCHANGED <<heap, queue, working, relists, restarts>>,
         sent' \in [Clusters -> SUBSET (Nat \X Notices)]
  PROVE  Core' /\ Rest'
<1>1. log' = log \/ \E v \in Version : log' = [log EXCEPT ![c] = Append(@, v)]
  BY WriteVersion
<1>2. Core'
  BY <1>1, CoreTask
<1> QED BY <1>2 DEF Rest

\* What a waiter does until it stores Ready or gives up keeps the invariant.
LEMMA WaiterStep ==
  ASSUME Core, Rest, NEW c \in Clusters, NEW s \in Slots,
         WaitPoll(c, s) \/ ReadFresh(c, s) \/ Install(c, s) \/ SaveReady(c, s)
  PROVE  Core' /\ Rest'
<1> DEFINE t == tasks[c][s]
           Moves == \E u \in Task : /\ TaskOK(log[c], heap[c], u)
                                    /\ tasks' = [tasks EXCEPT ![c][s] = u]
<1>1. /\ t \in Task /\ t.fresh \in 1 .. Len(log[c]) /\ t.tries \in 0 .. MaxTries - 1
      /\ Latest(c) \in 1 .. Len(log[c]) /\ log[c][t.fresh] \in Version
      /\ 1 \in 1 .. Len(log[c]) /\ 0 \in 0 .. MaxTries - 1
      /\ {"wait", "read", "install", "saveReady", "fail"} \subseteq Steps \cap WaiterSteps
  <2>1. t \in Task /\ t.fresh \in 1 .. Len(log[c]) /\ log[c] \in Seq(Version)
        /\ Latest(c) \in 1 .. Len(log[c]) /\ Len(log[c]) \in Nat \ {0}
    BY CoreTypes DEF Core, TaskOK
  <2>2. t.tries \in 0 .. MaxTries - 1 /\ MaxTries \in Nat \ {0}
    BY <2>1, ConstantsAssumption DEF Task
  <2>3. {"wait", "read", "install", "saveReady", "fail"} \subseteq Steps \cap WaiterSteps
    BY DEF Steps, WaiterSteps
  <2> QED BY <2>1, <2>2, <2>3
<1>2. CASE WaitPoll(c, s)
  <2>1. t.pc \in WaiterSteps
    BY <1>2 DEF WaitPoll, WaiterSteps
  <2>2. Goto(c, s, "read") \/ GiveUp(c, s) \/ NextTry(c, s)
    BY <1>2 DEF WaitPoll
  <2>3. ASSUME Goto(c, s, "read") PROVE Moves
    BY <1>1, <2>1, <2>3, MoveTask DEF Goto
  <2>4. ASSUME GiveUp(c, s) PROVE Moves
    BY <1>1, <2>1, <2>4, MoveTask DEF GiveUp
  <2>5. Moves
    BY <2>1, <2>2, <2>3, <2>4, NextTryTask
  <2> QED BY <1>2, <2>5, MovingStep DEF WaitPoll, Rest
<1>3. CASE ReadFresh(c, s)
  <2>1. t.pc \in WaiterSteps
    BY <1>3 DEF ReadFresh, WaiterSteps
  <2>2. Move(c, s, "install", Latest(c), t.tries) \/ NextTry(c, s)
    BY <1>3 DEF ReadFresh
  <2>3. Moves
    BY <1>1, <2>1, <2>2, MoveTask, NextTryTask
  <2> QED BY <1>3, <2>3, MovingStep DEF ReadFresh, Rest
<1>4. CASE Install(c, s)
  <2>1. t.pc \in WaiterSteps /\ Move(c, s, "saveReady", t.fresh, t.tries)
    BY <1>4 DEF Install, Goto, WaiterSteps
  <2>2. Moves
    BY <1>1, <2>1, MoveTask
  <2>3. sent' \in [Clusters -> SUBSET (Nat \X Notices)]
    BY <1>1, <1>4, NotifyType DEF Install, Rest, Notices
  <2> QED BY <1>4, <2>2, <2>3, MovingStep DEF Install, Rest
<1>5. CASE SaveReady(c, s)
  <2>1. t.pc \in WaiterSteps
    BY <1>5 DEF SaveReady, WaiterSteps
  <2>2. NextTry(c, s) \/ End(c, s)
    BY <1>5 DEF SaveReady
  <2>3. Moves
    BY <2>1, <2>2, EndTask, NextTryTask
  <2>4. log' = log \/ (\E p \in Phases : Write(c, p))
    BY <1>5 DEF SaveReady, Phases
  <2> QED BY <1>5, <2>3, <2>4, MovingStep DEF SaveReady, Rest
<1> QED BY <1>2, <1>3, <1>4, <1>5

\* Storing a shared object that has been assigned keeps the invariant.
LEMMA SaveStep ==
  ASSUME Core, Rest, NEW c \in Clusters, NEW s \in Slots, Save(c, s)
  PROVE  Core' /\ Rest'
<1>1. tasks[c][s].obj \in 1 .. Len(heap[c])
  BY CoreTypes DEF TaskOK
<1>2. log' = log \/ (\E p \in Phases : Write(c, p))
  BY <1>1, ReadablePhase DEF Save
<1> QED BY <1>2, EndTask, MovingStep DEF Save, Rest

\* What a deleter does keeps the invariant.
LEMMA DeleterStep ==
  ASSUME Core, Rest, NEW c \in Clusters, NEW s \in Slots, DeletePoll(c, s) \/ Remove(c, s)
  PROVE  Core' /\ Rest'
<1> DEFINE t == tasks[c][s]
           Moves == \E u \in Task : /\ TaskOK(log[c], heap[c], u)
                                    /\ tasks' = [tasks EXCEPT ![c][s] = u]
<1>1. /\ t.obj \in 1 .. Len(heap[c]) /\ t.tries \in 0 .. MaxTries - 1 /\ MaxTries \in Nat
      /\ Origin(c, t.obj) \in Version
      /\ 1 \in 1 .. Len(log[c]) /\ 0 \in 0 .. MaxTries - 1
      /\ {"delete", "remove"} \subseteq Steps \cap DeleterSteps
  <2>1. t \in Task /\ t.obj \in 1 .. Len(heap[c]) /\ Len(log[c]) \in Nat \ {0}
    BY CoreTypes DEF TaskOK
  <2>2. t.tries \in 0 .. MaxTries - 1 /\ MaxTries \in Nat \ {0}
    BY <2>1, ConstantsAssumption DEF Task
  <2>3. {"delete", "remove"} \subseteq Steps \cap DeleterSteps
    BY DEF Steps, DeleterSteps
  <2>4. Origin(c, t.obj) \in Version
    BY <2>1, CoreTypes
  <2> QED BY <2>1, <2>2, <2>3, <2>4
<1>2. CASE DeletePoll(c, s)
  <2>1. t.pc \in DeleterSteps
    BY <1>2 DEF DeletePoll, DeleterSteps
  <2>2. CASE Notify(c, Origin(c, t.obj), "Deleted") /\ Move(c, s, "remove", 1, 0)
    <3>1. Moves
      BY <1>1, <2>1, <2>2, MoveTask
    <3>2. sent' \in [Clusters -> SUBSET (Nat \X Notices)]
      BY <1>1, <2>2, NotifyType DEF Rest, Notices
    <3> QED BY <1>2, <3>1, <3>2, MovingStep DEF DeletePoll
  <2>3. CASE Again(c, s, "delete", End(c, s)) /\ UNCHANGED sent
    <3>1. ASSUME t.tries + 1 < MaxTries PROVE Moves
      <4>1. Move(c, s, "delete", 1, t.tries + 1) /\ t.tries + 1 \in 0 .. MaxTries - 1
        BY <1>1, <2>3, <3>1 DEF Again
      <4> QED BY <1>1, <2>1, <4>1, MoveTask
    <3>2. ASSUME ~(t.tries + 1 < MaxTries) PROVE Moves
      BY <2>3, <3>2, EndTask DEF Again
    <3>3. Moves
      BY <3>1, <3>2
    <3> QED BY <1>2, <2>3, <3>3, MovingStep DEF DeletePoll, Rest
  <2> QED BY <1>2, <2>2, <2>3 DEF DeletePoll
<1>3. CASE Remove(c, s)
  <2>1. log' = log \/ (\E p \in Phases : Write(c, p))
    BY <1>3 DEF Remove, Phases
  <2> QED BY <1>3, <2>1, EndTask, MovingStep DEF Remove, Rest
<1> QED BY <1>2, <1>3

\* Assigning Failed, and announcing with assigning Error, keep the invariant:
\* the goroutine that assigns acts for a version that waited or had failed.
LEMMA AssignStep ==
  ASSUME Core, Rest, NEW c \in Clusters, NEW s \in Slots, AssignFailed(c, s) \/ Announce(c, s)
  PROVE  Core' /\ Rest'
<1>1. TaskOK(log[c], heap[c], tasks[c][s]) /\ Origin(c, tasks[c][s].obj) \in Version
  BY CoreTypes DEF TaskOK
<1>2. CASE AssignFailed(c, s)
  <2>1. Origin(c, tasks[c][s].obj).phase = "Waiting"
    BY <1>1, <1>2 DEF AssignFailed, TaskOK, Origin
  <2>2. Core'
    BY <1>2, <2>1, CoreAssign DEF AssignFailed
  <2> QED BY <1>2, <2>2 DEF AssignFailed, Rest
<1>3. CASE Announce(c, s)
  <2>1. Origin(c, tasks[c][s].obj).phase \in {"Waiting", "Failed"}
    BY <1>1, <1>3 DEF Announce, TaskOK, Origin
  <2>2. Core'
    BY <1>3, <2>1, CoreAssign DEF Announce
  <2>3. sent' \in [Clusters -> SUBSET (Nat \X Notices)]
    BY <1>1, <1>3, NotifyType DEF Announce, Rest, Notices
  <2> QED BY <1>3, <2>2, <2>3 DEF Announce, Rest
<1> QED BY <1>2, <1>3

\* A restart keeps the invariant: the new store holds the current versions,
\* and no goroutine is left.
LEMMA RestartStep ==
  ASSUME Core, Rest, Restart
  PROVE  Core' /\ Rest'
<1>1. log' = log /\ tasks' = NoTasks
      /\ heap' = [c \in Clusters |-> <<[phase |-> Current(c).phase, ver |-> Latest(c)]>>]
  BY DEF Restart
<1>2. ASSUME NEW c \in Clusters
      PROVE  LocalType(log'[c], heap'[c], tasks'[c]) /\ Local(log'[c], heap'[c], tasks'[c])
  <2> DEFINE x == [phase |-> Current(c).phase, ver |-> Latest(c)]
  <2>1. Latest(c) \in 1 .. Len(log[c]) /\ Len(log[c]) \in Nat \ {0} /\ Current(c) \in Version
        /\ log[c] \in Seq(Version)
    BY CoreTypes DEF Core
  <2>2. x \in Object /\ x.ver = Latest(c) /\ x.phase = log[c][Latest(c)].phase
    BY <2>1 DEF Object, Version, Current
  <2> HIDE DEF x
  <2>3. <<x>> \in Seq(Object) /\ Len(<<x>>) = 1 /\ <<x>>[1] = x
    BY <2>2
  <2>4. ObjectOK(log[c], <<x>>, 1)
    BY <2>1, <2>2, <2>3 DEF ObjectOK
  <2>5. Idle \in Task
    BY IdleTask
  <2>6. TaskOK(log[c], <<x>>, Idle)
    BY <2>1, <2>3 DEF TaskOK, Idle
  <2>7. log'[c] = log[c] /\ heap'[c] = <<x>> /\ tasks'[c] = [s \in Slots |-> Idle]
    BY <1>1 DEF x, NoTasks
  <2> QED BY <2>1, <2>3, <2>4, <2>5, <2>6, <2>7 DEF LocalType, Local
<1>3. Core'
  <2>1. log' \in [Clusters -> Seq(Version)] /\ heap' \in [Clusters -> Seq(Object)]
        /\ tasks' \in [Clusters -> [Slots -> Task]]
    BY <1>1, <1>2 DEF Core, LocalType, NoTasks
  <2> QED BY <1>2, <2>1 DEF Core
<1>4. queue' \in QueueOf(Clusters)
  <2>1. PICK keys \in Orders({c \in Clusters : Live(c)}) : queue' = FilledQueue(keys)
    BY DEF Restart
  <2> DEFINE n == Cardinality({c \in Clusters : Live(c)})
  <2>2. keys \in [1 .. n -> Clusters]
    BY DEF Orders
  <2>3. n \in Nat
    BY ConstantsAssumption, FS_Subset, FS_CardinalityType
  <2> HIDE DEF n
  <2>4. keys \in Seq(Clusters) /\ {keys[i] : i \in DOMAIN keys} \subseteq Clusters
    BY <2>2, <2>3
  <2> QED BY <2>1, <2>4 DEF FilledQueue, QueueOf
<1>5. Rest'
  BY <1>4, ConstantsAssumption DEF Restart, Rest, NoWorkers
<1> QED BY <1>3, <1>5

-----------------------------------------------------------------------------
(* Type correctness and the inductive invariant *)

\* The invariant holds at first.
LEMMA InitInvariant == Init => Core /\ Rest
<1> SUFFICES ASSUME Init PROVE Core /\ Rest
  OBVIOUS
<1> DEFINE v == [phase |-> "Gone", url |-> FALSE, gen |-> 0]
           x == [phase |-> "Gone", ver |-> 1]
<1>1. v \in Version /\ x \in Object /\ Idle \in Task
  BY ConstantsAssumption DEF Version, Object, Phases, Idle, Task, Steps
<1>2. <<v>> \in Seq(Version) /\ Len(<<v>>) = 1 /\ <<v>>[1] = v
  BY <1>1
<1>3. <<x>> \in Seq(Object) /\ Len(<<x>>) = 1 /\ <<x>>[1] = x
  BY <1>1
<1>4. ObjectOK(<<v>>, <<x>>, 1)
  BY DEF ObjectOK
<1>5. TaskOK(<<v>>, <<x>>, Idle)
  BY DEF TaskOK, Idle
<1>6. /\ log = [c \in Clusters |-> <<v>>] /\ heap = [c \in Clusters |-> <<x>>]
      /\ tasks = [c \in Clusters |-> [s \in Slots |-> Idle]]
  BY DEF Init, NoTasks
<1>7. Rest
  BY ConstantsAssumption DEF Init, Rest, EmptyQueue, QueueOf, NoWorkers
<1> HIDE DEF v, x
<1>8. ASSUME NEW c \in Clusters PROVE Local(log[c], heap[c], tasks[c])
  <2>1. log[c] = <<v>> /\ heap[c] = <<x>> /\ tasks[c] = [s \in Slots |-> Idle]
    BY <1>6
  <2>2. \A o \in 1 .. Len(<<x>>) : ObjectOK(<<v>>, <<x>>, o)
    BY <1>3, <1>4
  <2>3. \A s \in Slots : TaskOK(<<v>>, <<x>>, tasks[c][s])
    BY <1>5, <2>1
  <2>4. Len(<<v>>) > 0 /\ Len(<<x>>) > 0
    BY <1>2, <1>3
  <2> QED BY <2>1, <2>2, <2>3, <2>4 DEF Local
<1>9. Core
  BY <1>1, <1>2, <1>3, <1>6, <1>8 DEF Core
<1> QED BY <1>7, <1>9

\* Every step keeps the invariant.
LEMMA NextInvariant == Core /\ Rest /\ [Next]_vars => Core' /\ Rest'
<1> SUFFICES ASSUME Core, Rest, [Next]_vars PROVE Core' /\ Rest'
  OBVIOUS
<1>1. ASSUME NEW c \in Clusters, Client(c) PROVE Core' /\ Rest'
  BY <1>1, ClientStep
<1>2. ASSUME NEW c \in Clusters, Deliver(c) \/ Relist(c) PROVE Core' /\ Rest'
  BY <1>2, InformerStep
<1>3. ASSUME NEW w \in Workers, GetItem(w) \/ FinishItem(w) PROVE Core' /\ Rest'
  BY <1>3, GetItemStep
<1>4. ASSUME NEW w \in Workers, ProcessItem(w) PROVE Core' /\ Rest'
  BY <1>4, ProcessItemStep
<1>5. ASSUME NEW c \in Clusters, NEW s \in Slots, Handle(c, s) PROVE Core' /\ Rest'
  <2>1. CASE WaitPoll(c, s) \/ ReadFresh(c, s) \/ Install(c, s) \/ SaveReady(c, s)
    BY <2>1, WaiterStep
  <2>2. CASE AssignFailed(c, s) \/ Announce(c, s)
    BY <2>2, AssignStep
  <2>3. CASE Save(c, s)
    BY <2>3, SaveStep
  <2>4. CASE DeletePoll(c, s) \/ Remove(c, s)
    BY <2>4, DeleterStep
  <2> QED BY <1>5, <2>1, <2>2, <2>3, <2>4 DEF Handle
<1>6. CASE Restart
  BY <1>6, RestartStep
<1>7. CASE UNCHANGED vars
  BY <1>7 DEF vars, Core, Rest
<1> QED BY <1>1, <1>2, <1>3, <1>4, <1>5, <1>6, <1>7 DEF Next

\* In every behaviour of the controller the state has its types, every pointer
\* leads somewhere, and every handler acts for a version in the phase it was
\* started for, however the goroutines that share an object interleave.
THEOREM Invariance == Spec => []TypeOK /\ []IndInv
<1>1. TypeOK /\ IndInv <=> Core /\ Rest
  BY InvariantParts
<1>2. Init => Core /\ Rest
  BY InitInvariant
<1>3. Core /\ Rest /\ [Next]_vars => (Core /\ Rest)'
  BY NextInvariant
<1> QED BY <1>1, <1>2, <1>3, PTL DEF Spec

\* Type correctness of the controller.
THEOREM TypeCorrect == Spec => []TypeOK
BY Invariance, PTL

-----------------------------------------------------------------------------
(* The refinement of ClusterLifecycle *)

Resource == [c \in Clusters |-> Current(c)]

\* What a write of the server looks like from outside.
LEMMA ResourceWrite ==
  ASSUME Core, NEW c \in Clusters, NEW v \in Version,
         log' = [log EXCEPT ![c] = Append(@, v)]
  PROVE  Resource' = [Resource EXCEPT ![c] = v]
<1>1. log[c] \in Seq(Version) /\ DOMAIN log = Clusters
  BY DEF Core
<1> DEFINE L == Append(log[c], v)
<1>2. Len(L) = Len(log[c]) + 1 /\ L[Len(L)] = v
  BY <1>1
<1>3. log'[c] = L /\ \A d \in Clusters : d # c => log'[d] = log[d]
  BY <1>1
<1> HIDE DEF L
<1>4. Current(c)' = v /\ \A d \in Clusters : d # c => Current(d)' = Current(d)
  BY <1>2, <1>3 DEF Current, Latest
<1> QED BY <1>4 DEF Resource

\* The write of a phase is SetPhase.
LEMMA PhaseWrite ==
  ASSUME Core, NEW c \in Clusters, NEW p \in Phases, Write(c, p)
  PROVE  Lifecycle!SetPhase(c, p)
<1> DEFINE v == [Current(c) EXCEPT !.phase = p]
<1>1. v \in Version
  BY CoreTypes DEF Version
<1>2. log' = [log EXCEPT ![c] = Append(@, v)]
  BY DEF Write
<1> HIDE DEF v
<1>3. Resource' = [Resource EXCEPT ![c] = v]
  BY <1>1, <1>2, ResourceWrite
<1> QED BY <1>3 DEF Resource, Lifecycle!SetPhase, v

\* A step that writes nothing is a stutter of the life cycle.
LEMMA NoWrite == log' = log => Resource' = Resource
BY DEF Resource, Current, Latest

\* A version that is accepted by its number is the current one.
LEMMA SaveOrigin ==
  ASSUME Core, NEW c \in Clusters, NEW s \in Slots, tasks[c][s].pc = "save",
         Accepted(c, heap[c][tasks[c][s].obj].ver)
  PROVE  LET p == heap[c][tasks[c][s].obj].phase
         IN  \/ Current(c).phase = "Waiting" /\ p \in {"Failed", "Error"}
             \/ Current(c).phase = "Failed" /\ p = "Error"
<1>1. TaskOK(log[c], heap[c], tasks[c][s])
  BY CoreTypes
<1>2. ObjectOK(log[c], heap[c], tasks[c][s].obj)
  BY <1>1, CoreTypes DEF TaskOK
<1> QED BY <1>1, <1>2 DEF TaskOK, ObjectOK, Accepted, Current, Latest

\* A step of a client is a step of the life cycle.
LEMMA ClientRefines ==
  ASSUME Core, NEW c \in Clusters, Client(c)
  PROVE  Lifecycle!Next
<1>1. Current(c) \in Version /\ Resource[c] = Current(c) /\ Lifecycle!Live(c) = Live(c)
  BY CoreTypes DEF Resource, Lifecycle!Live, Live
<1>2. CASE Create(c)
  <2>1. PICK u \in BOOLEAN : log' = [log EXCEPT ![c] =
          Append(@, [phase |-> "Waiting", url |-> u, gen |-> Current(c).gen + 1])]
    BY <1>2 DEF Create
  <2> DEFINE v == [phase |-> "Waiting", url |-> u, gen |-> Current(c).gen + 1]
  <2>2. v \in Version
    BY <1>1 DEF Version, Phases
  <2>3. Resource' = [Resource EXCEPT ![c] = v]
    BY <2>1, <2>2, ResourceWrite
  <2>4. Lifecycle!Create(c)
    BY <1>1, <1>2, <2>3 DEF Create, Lifecycle!Create, Resource
  <2> QED BY <2>4 DEF Lifecycle!Next
<1>3. CASE Request(c)
  <2>1. PICK p \in {"Waiting", "Upgrading", "Deleting"} : Write(c, p)
    BY <1>3 DEF Request
  <2>2. Lifecycle!SetPhase(c, p)
    BY <2>1, PhaseWrite DEF Phases
  <2>3. Lifecycle!Request(c)
    BY <1>1, <1>3, <2>2 DEF Request, Lifecycle!Request, Resource
  <2> QED BY <2>3 DEF Lifecycle!Next
<1>4. CASE Withdraw(c)
  <2>1. Lifecycle!SetPhase(c, "Gone")
    BY <1>4, PhaseWrite DEF Withdraw, Phases
  <2>2. Lifecycle!Remove(c)
    BY <1>1, <1>4, <2>1 DEF Withdraw, Lifecycle!Remove
  <2> QED BY <2>2 DEF Lifecycle!Next
<1> QED BY <1>2, <1>3, <1>4 DEF Client

\* A step of a goroutine is a step of the life cycle or a stutter.
LEMMA HandlerRefines ==
  ASSUME Core, NEW c \in Clusters, NEW s \in Slots, Handle(c, s), log' # log
  PROVE  Lifecycle!Next
<1>1. Current(c) \in Version /\ Resource[c] = Current(c) /\ Lifecycle!Live(c) = Live(c)
  BY CoreTypes DEF Resource, Lifecycle!Live, Live
<1>2. CASE SaveReady(c, s)
  <2>1. Live(c) /\ Write(c, "Ready")
    BY <1>2 DEF SaveReady, Accepted
  <2>2. Lifecycle!MarkReady(c)
    BY <1>1, <2>1, PhaseWrite DEF Phases, Lifecycle!MarkReady
  <2> QED BY <2>2 DEF Lifecycle!Next
<1>3. CASE Save(c, s)
  <2> DEFINE o == tasks[c][s].obj
  <2>1. PICK p \in Readable(c, o) : Write(c, p)
    BY <1>3 DEF Save
  <2>2. tasks[c][s].pc = "save" /\ Accepted(c, heap[c][o].ver)
    BY <1>3 DEF Save
  <2>3. \/ Current(c).phase = "Waiting" /\ heap[c][o].phase \in {"Failed", "Error"}
        \/ Current(c).phase = "Failed" /\ heap[c][o].phase = "Error"
    BY <2>2, SaveOrigin
  <2>4. p = heap[c][o].phase \/ p = "Garbled"
    BY DEF Readable
  <2>5. Lifecycle!SetPhase(c, p)
    BY <2>1, <2>3, <2>4, PhaseWrite DEF Phases
  <2>6. CASE p = "Failed"
    BY <1>1, <2>3, <2>4, <2>5, <2>6 DEF Lifecycle!Next, Lifecycle!MarkFailed, Resource
  <2>7. CASE p # "Failed"
    BY <1>1, <2>3, <2>4, <2>5, <2>7 DEF Lifecycle!Next, Lifecycle!MarkError, Resource
  <2> QED BY <2>6, <2>7
<1>4. CASE Remove(c, s)
  <2>1. Live(c) /\ Write(c, "Gone")
    BY <1>4 DEF Remove
  <2>2. Lifecycle!Remove(c)
    BY <1>1, <2>1, PhaseWrite DEF Phases, Lifecycle!Remove
  <2> QED BY <2>2 DEF Lifecycle!Next
<1>5. ~WaitPoll(c, s) /\ ~ReadFresh(c, s) /\ ~Install(c, s) /\ ~AssignFailed(c, s)
      /\ ~Announce(c, s) /\ ~DeletePoll(c, s)
  BY DEF WaitPoll, ReadFresh, Install, AssignFailed, Announce, DeletePoll
<1> QED BY <1>2, <1>3, <1>4, <1>5 DEF Handle

\* The controller keeps the promises of ClusterLifecycle: whatever its goroutines
\* write, Failed replaces only Waiting, Error only Waiting or Failed, and no write
\* turns one incarnation of a name into another.
THEOREM Refinement == Spec => ImplementsLifecycle
<1>1. Init => Lifecycle!Init
  BY DEF Init, Lifecycle!Init, Current, Latest
<1>2. Core /\ [Next]_vars => [Lifecycle!Next]_Resource
  <2> SUFFICES ASSUME Core, [Next]_vars, log' # log PROVE Lifecycle!Next
    BY NoWrite
  <2>1. ASSUME NEW c \in Clusters, Client(c) PROVE Lifecycle!Next
    BY <2>1, ClientRefines
  <2>2. ASSUME NEW c \in Clusters, NEW s \in Slots, Handle(c, s) PROVE Lifecycle!Next
    BY <2>2, HandlerRefines
  <2>3. \A c \in Clusters : ~Deliver(c) /\ ~Relist(c)
    BY DEF Deliver, Relist
  <2>4. \A w \in Workers : ~GetItem(w) /\ ~ProcessItem(w) /\ ~FinishItem(w)
    BY DEF GetItem, ProcessItem, FinishItem
  <2>5. ~Restart /\ ~UNCHANGED vars
    BY DEF Restart, vars
  <2> QED BY <2>1, <2>2, <2>3, <2>4, <2>5 DEF Next
<1>3. Core /\ Rest /\ [Next]_vars => (Core /\ Rest)'
  BY NextInvariant
<1>4. Init => Core /\ Rest
  BY InitInvariant
<1> QED BY <1>1, <1>2, <1>3, <1>4, PTL DEF Spec, ImplementsLifecycle, Lifecycle!Spec, Resource

-----------------------------------------------------------------------------
(* The refinement of ClusterReadiness *)

Versions    == [c \in Clusters |-> VersionOf(c)]
Copies      == [c \in Clusters |-> [s \in Slots |-> CopyOf(c, s)]]
Completions == [c \in Clusters |-> CompletedOf(c)]

\* The next version of c, as ClusterReadiness has it.
NextVersion(c, p, u, g) == [phase |-> p, url |-> u, gen |-> g, ver |-> Versions[c].ver + 1]

\* A step that ClusterReadiness does not see.
Unseen == UNCHANGED <<Versions, Copies, Completions>>

\* What the server has of a resource.
LEMMA VersionTypes ==
  ASSUME Core, NEW c \in Clusters
  PROVE  /\ Versions[c].phase = Current(c).phase /\ Versions[c].url = Current(c).url
         /\ Versions[c].gen = Current(c).gen /\ Versions[c].ver = Latest(c)
BY DEF Versions, VersionOf

\* A resource is there to ClusterReadiness when it is on the server.
LEMMA LiveVersion ==
  ASSUME NEW c \in Clusters
  PROVE  Readiness!Live(c) = Live(c)
BY DEF Readiness!Live, VersionOf, Live

\* A version that is written is the next one, and the only one.
LEMMA VersionsWrite ==
  ASSUME Core, NEW c \in Clusters, NEW v \in Version,
         log' = [log EXCEPT ![c] = Append(@, v)]
  PROVE  Versions' = [Versions EXCEPT ![c] = NextVersion(c, v.phase, v.url, v.gen)]
<1>1. log[c] \in Seq(Version) /\ DOMAIN log = Clusters
  BY DEF Core
<1> DEFINE L == Append(log[c], v)
<1>2. Len(L) = Len(log[c]) + 1 /\ L[Len(L)] = v
  BY <1>1
<1>3. log'[c] = L /\ \A d \in Clusters : d # c => log'[d] = log[d]
  BY <1>1
<1> HIDE DEF L
<1>4. /\ Current(c)' = v /\ Latest(c)' = Latest(c) + 1
      /\ \A d \in Clusters : d # c => VersionOf(d)' = VersionOf(d)
  BY <1>2, <1>3 DEF VersionOf, Current, Latest
<1>5. VersionOf(c)' = NextVersion(c, v.phase, v.url, v.gen)
  <2>1. Versions[c].ver = Latest(c)
    BY VersionTypes
  <2> QED BY <1>4, <2>1 DEF VersionOf, NextVersion
<1> QED BY <1>4, <1>5 DEF Versions

\* The write of a phase is a Store of that phase.
LEMMA VersionsPhase ==
  ASSUME Core, NEW c \in Clusters, NEW p \in Phases, Write(c, p)
  PROVE  Readiness!Store(c, p, Versions[c].url, Versions[c].gen)
<1> DEFINE v == [Current(c) EXCEPT !.phase = p]
<1>1. v \in Version /\ v.phase = p /\ v.url = Versions[c].url /\ v.gen = Versions[c].gen
  <2>1. Current(c) \in Version
    BY CoreTypes
  <2>2. Versions[c].url = Current(c).url /\ Versions[c].gen = Current(c).gen
    BY VersionTypes
  <2> QED BY <2>1, <2>2 DEF Version
<1>2. log' = [log EXCEPT ![c] = Append(@, v)]
  BY DEF Write
<1> HIDE DEF v
<1>3. Versions' = [Versions EXCEPT ![c] = NextVersion(c, v.phase, v.url, v.gen)]
  BY <1>1, <1>2, VersionsWrite
<1> QED BY <1>1, <1>3 DEF Versions, NextVersion, Readiness!Store

\* What a waiter has read stays what it was, whatever is written since.
LEMMA CopyStays ==
  ASSUME Core, NEW c \in Clusters, NEW s \in Slots, tasks'[c][s] = tasks[c][s],
         log' = log \/ \E d \in Clusters, v \in Version : log' = [log EXCEPT ![d] = Append(@, v)]
  PROVE  CopyOf(c, s)' = CopyOf(c, s)
<1> DEFINE f == tasks[c][s].fresh
<1>1. f \in 1 .. Len(log[c]) /\ log[c] \in Seq(Version)
  BY CoreTypes DEF TaskOK, Core
<1>2. log'[c][f] = log[c][f]
  <2>1. CASE log' = log
    BY <2>1
  <2>2. ASSUME NEW d \in Clusters, NEW v \in Version, log' = [log EXCEPT ![d] = Append(@, v)]
        PROVE  log'[c][f] = log[c][f]
    <3>1. log'[c] = IF c = d THEN Append(log[c], v) ELSE log[c]
      BY <2>2 DEF Core
    <3> QED BY <1>1, <3>1
  <2> QED BY <2>1, <2>2
<1> QED BY <1>2 DEF CopyOf

\* As long as the tasks are left alone, so are the copies.
LEMMA CopiesStay ==
  ASSUME Core, tasks' = tasks,
         log' = log \/ \E d \in Clusters, v \in Version : log' = [log EXCEPT ![d] = Append(@, v)]
  PROVE  Copies' = Copies
<1>1. ASSUME NEW c \in Clusters, NEW s \in Slots PROVE CopyOf(c, s)' = CopyOf(c, s)
  BY CopyStays
<1> QED BY <1>1 DEF Copies

\* A goroutine that moves on changes its own copy at most.
LEMMA CopiesMove ==
  ASSUME Core, NEW c \in Clusters, NEW s \in Slots, NEW u,
         tasks' = [tasks EXCEPT ![c][s] = u],
         log' = log \/ \E d \in Clusters, v \in Version : log' = [log EXCEPT ![d] = Append(@, v)]
  PROVE  /\ Copies' = [Copies EXCEPT ![c][s] = CopyOf(c, s)']
         /\ tasks'[c][s] = u
         /\ Copies[c][s] = CopyOf(c, s)
<1>1. tasks'[c][s] = u
      /\ \A d \in Clusters : \A r \in Slots : d # c \/ r # s => tasks'[d][r] = tasks[d][r]
  BY DEF Core
<1>2. ASSUME NEW d \in Clusters, NEW r \in Slots, d # c \/ r # s
      PROVE  CopyOf(d, r)' = CopyOf(d, r)
  BY <1>1, <1>2, CopyStays
<1>3. ASSUME NEW d \in Clusters
      PROVE  [r \in Slots |-> CopyOf(d, r)'] =
             IF d = c THEN [[r \in Slots |-> CopyOf(d, r)] EXCEPT ![s] = CopyOf(c, s)']
                      ELSE [r \in Slots |-> CopyOf(d, r)]
  BY <1>2
<1>4. Copies' = [Copies EXCEPT ![c] = [Copies[c] EXCEPT ![s] = CopyOf(c, s)']]
  BY <1>3 DEF Copies
<1> QED BY <1>1, <1>4 DEF Copies

\* Only a waiter at install or saveReady has a copy.
LEMMA NoCopyElsewhere ==
  ASSUME NEW c \in Clusters, NEW s \in Slots, tasks[c][s].pc \notin {"install", "saveReady"}
  PROVE  CopyOf(c, s) = Readiness!NoCopy
BY DEF CopyOf, Readiness!NoCopy

\* A goroutine that had no copy and gets none.
LEMMA CopiesNone ==
  ASSUME Core, NEW c \in Clusters, NEW s \in Slots, NEW u,
         tasks' = [tasks EXCEPT ![c][s] = u],
         log' = log \/ \E d \in Clusters, v \in Version : log' = [log EXCEPT ![d] = Append(@, v)],
         tasks[c][s].pc \notin {"install", "saveReady"}, u.pc \notin {"install", "saveReady"}
  PROVE  Copies' = Copies
<1>1. /\ Copies' = [Copies EXCEPT ![c][s] = CopyOf(c, s)'] /\ tasks'[c][s] = u
      /\ Copies[c][s] = CopyOf(c, s)
  BY CopiesMove
<1>2. CopyOf(c, s)' = CopyOf(c, s)
  BY <1>1 DEF CopyOf
<1>3. ASSUME NEW d \in Clusters, NEW r \in Slots PROVE CopyOf(d, r)' = CopyOf(d, r)
  <2>1. CASE d = c /\ r = s
    BY <1>2, <2>1
  <2>2. CASE d # c \/ r # s
    <3>1. tasks'[d][r] = tasks[d][r]
      BY <2>2 DEF Core
    <3> QED BY <3>1, CopyStays
  <2> QED BY <2>1, <2>2
<1> QED BY <1>3 DEF Copies

\* Notices of another kind say nothing of a completion.
LEMMA CompletionsStay ==
  ASSUME Rest, NEW c \in Clusters, NEW v, NEW k \in Notices \ {"Completed"}, Notify(c, v, k)
  PROVE  Completions' = Completions
<1>1. sent' = [sent EXCEPT ![c] = @ \cup IF v.url THEN {<<v.gen, k>>} ELSE {}]
      /\ sent \in [Clusters -> SUBSET (Nat \X Notices)]
  BY DEF Notify, Rest
<1>2. ASSUME NEW d \in Clusters
      PROVE  {m \in sent'[d] : m[2] = "Completed"} = {m \in sent[d] : m[2] = "Completed"}
  BY <1>1
<1> QED BY <1>2 DEF Completions, CompletedOf

\* The Completed notice of v is of its incarnation.
LEMMA CompletionsTell ==
  ASSUME Rest, NEW c \in Clusters, NEW v, Notify(c, v, "Completed")
  PROVE  Completions' = [Completions EXCEPT ![c] = @ \cup IF v.url THEN {v.gen} ELSE {}]
<1>1. /\ sent \in [Clusters -> SUBSET (Nat \X Notices)]
      /\ sent'[c] = sent[c] \cup IF v.url THEN {<<v.gen, "Completed">>} ELSE {}
      /\ \A d \in Clusters : d # c => sent'[d] = sent[d]
  BY DEF Notify, Rest
<1>2. CompletedOf(c)' = CompletedOf(c) \cup IF v.url THEN {v.gen} ELSE {}
  <2>1. CASE v.url
    <3> DEFINE n == <<v.gen, "Completed">>
    <3>1. sent'[c] = sent[c] \cup {n} /\ n[1] = v.gen /\ n[2] = "Completed"
      BY <1>1, <2>1
    <3> HIDE DEF n
    <3>2. {m \in sent'[c] : m[2] = "Completed"} = {m \in sent[c] : m[2] = "Completed"} \cup {n}
      BY <3>1
    <3>3. CompletedOf(c)' = CompletedOf(c) \cup {n[1]}
      BY <3>2 DEF CompletedOf
    <3> QED BY <2>1, <3>1, <3>3
  <2>2. CASE ~v.url
    BY <1>1, <2>2 DEF CompletedOf
  <2> QED BY <2>1, <2>2
<1>3. \A d \in Clusters : d # c => CompletedOf(d)' = CompletedOf(d)
  BY <1>1 DEF CompletedOf
<1> QED BY <1>2, <1>3 DEF Completions

\* Without a notice nothing changes.
LEMMA CompletionsSame == sent' = sent => Completions' = Completions
BY DEF Completions, CompletedOf

\* Without a write neither does the resource.
LEMMA VersionsSame == log' = log => Versions' = Versions
BY DEF Versions, VersionOf, Current, Latest

-----------------------------------------------------------------------------
(* The steps of the controller, as ClusterReadiness sees them *)

\* What clients write, and who else does: the next version of a resource that was
\* there, with a phase other than Ready.
LEMMA PlainWrite ==
  ASSUME Core, NEW c \in Clusters, NEW p \in Phases \ {"Ready"}, Live(c), Write(c, p),
         UNCHANGED <<Copies, Completions>>
  PROVE  Readiness!Next
<1>1. Readiness!Store(c, p, Versions[c].url, Versions[c].gen)
  BY VersionsPhase
<1>2. Readiness!Live(c) /\ p \in Readiness!Phases \ {"Ready"}
  BY LiveVersion DEF Phases, Readiness!Phases
<1>3. Versions'[c].phase = p
  BY <1>1 DEF Readiness!Store, Versions
<1>4. Readiness!Write(c)
  BY <1>1, <1>2, <1>3 DEF Readiness!Write, Versions, Copies, Completions
<1> QED BY <1>4 DEF Readiness!Next

\* A client creates a resource, or writes to one.
LEMMA ClientReadies ==
  ASSUME Core, NEW c \in Clusters, Client(c)
  PROVE  Readiness!Next
<1>1. tasks' = tasks /\ sent' = sent
  BY DEF Client, Create, Request, Withdraw
<1>2. Completions' = Completions
  BY <1>1, CompletionsSame
<1>3. CASE Create(c)
  <2>1. PICK u \in BOOLEAN : log' = [log EXCEPT ![c] =
          Append(@, [phase |-> "Waiting", url |-> u, gen |-> Current(c).gen + 1])]
    BY <1>3 DEF Create
  <2> DEFINE v == [phase |-> "Waiting", url |-> u, gen |-> Current(c).gen + 1]
  <2>2. v \in Version
    BY CoreTypes DEF Version, Phases
  <2>3. Versions[c].gen = Current(c).gen
    BY VersionTypes
  <2>4. log' = [log EXCEPT ![c] = Append(@, v)] /\ v.phase = "Waiting" /\ v.url = u
        /\ v.gen = Versions[c].gen + 1
    BY <2>1, <2>3
  <2> HIDE DEF v
  <2>5. Versions' = [Versions EXCEPT ![c] = NextVersion(c, v.phase, v.url, v.gen)]
    BY <2>2, <2>4, VersionsWrite
  <2>6. Readiness!Store(c, "Waiting", u, Versions[c].gen + 1)
    BY <2>4, <2>5 DEF Versions, NextVersion, Readiness!Store
  <2>7. Copies' = Copies
    BY <1>1, <2>2, <2>4, CopiesStay
  <2>8. ~Readiness!Live(c)
    BY <1>3, LiveVersion DEF Create
  <2>9. Readiness!Create(c)
    BY <1>2, <2>6, <2>7, <2>8 DEF Readiness!Create, Versions, Copies, Completions
  <2> QED BY <2>9 DEF Readiness!Next
<1>4. ASSUME NEW p \in Phases \ {"Ready"}, Live(c), Write(c, p) PROVE Readiness!Next
  <2>1. Copies' = Copies
    BY <1>1, <1>4, WriteVersion, CopiesStay
  <2> QED BY <1>2, <1>4, <2>1, PlainWrite
<1>5. CASE Request(c)
  BY <1>4, <1>5 DEF Request, Phases
<1>6. CASE Withdraw(c)
  BY <1>4, <1>6 DEF Withdraw, Phases
<1> QED BY <1>3, <1>5, <1>6 DEF Client

\* A worker starts goroutines that have no copy, and the notice it may hand out is
\* not the Completed one.
LEMMA ProcessItemUnseen ==
  ASSUME Core, Rest, NEW w \in Workers, ProcessItem(w)
  PROVE  Unseen
<1> DEFINE c == working[w].key
           o == Stored(c)
<1>1. log' = log /\ c \in Clusters
  BY HeldKey DEF ProcessItem
<1>2. PICK p \in Readable(c, o) :
        IF Handler(p) = "idle"
        THEN UNCHANGED <<tasks, sent>>
        ELSE /\ \E s \in Slots :
                  /\ tasks[c][s].pc = "idle"
                  /\ tasks' = [tasks EXCEPT ![c][s] = Started(p, o)]
             /\ IF p = "Waiting" THEN Notify(c, Origin(c, o), "InProgress")
                                 ELSE UNCHANGED sent
  BY DEF ProcessItem
<1> HIDE DEF c, o
<1>3. Versions' = Versions
  BY <1>1, VersionsSame
<1>4. Completions' = Completions
  <2>1. CASE sent' = sent
    BY <2>1, CompletionsSame
  <2>2. CASE Notify(c, Origin(c, o), "InProgress")
    BY <1>1, <2>2, CompletionsStay DEF Notices
  <2> QED BY <1>2, <2>1, <2>2
<1>5. Copies' = Copies
  <2>1. CASE tasks' = tasks
    BY <1>1, <2>1, CopiesStay
  <2>2. ASSUME NEW s \in Slots, tasks[c][s].pc = "idle",
               tasks' = [tasks EXCEPT ![c][s] = Started(p, o)]
        PROVE  Copies' = Copies
    <3>1. Started(p, o).pc \notin {"install", "saveReady"}
      BY DEF Started, Handler
    <3> QED BY <1>1, <2>2, <3>1, CopiesNone
  <2> QED BY <1>2, <2>1, <2>2
<1> QED BY <1>3, <1>4, <1>5 DEF Unseen

\* What the handlers other than ReadFresh, Install and SaveReady do to a task.
LEMMA AsideTask ==
  ASSUME NEW c \in Clusters, NEW s \in Slots,
         \/ WaitPoll(c, s) \/ AssignFailed(c, s) \/ Announce(c, s) \/ Save(c, s)
         \/ DeletePoll(c, s) \/ Remove(c, s)
  PROVE  /\ tasks[c][s].pc \notin {"install", "saveReady"}
         /\ \E u : u.pc \notin {"install", "saveReady"} /\ tasks' = [tasks EXCEPT ![c][s] = u]
<1>1. ASSUME NEW pc \in Steps \ {"install", "saveReady"}, NEW f, NEW n, Move(c, s, pc, f, n)
      PROVE  \E u : u.pc \notin {"install", "saveReady"} /\ tasks' = [tasks EXCEPT ![c][s] = u]
  <2> DEFINE u == [pc |-> pc, obj |-> tasks[c][s].obj, fresh |-> f, tries |-> n]
  <2>1. u.pc \notin {"install", "saveReady"} /\ tasks' = [tasks EXCEPT ![c][s] = u]
    BY <1>1 DEF Move
  <2> QED BY <2>1
<1>2. ASSUME End(c, s)
      PROVE  \E u : u.pc \notin {"install", "saveReady"} /\ tasks' = [tasks EXCEPT ![c][s] = u]
  <2>1. Idle.pc = "idle" /\ tasks' = [tasks EXCEPT ![c][s] = Idle]
    BY <1>2 DEF End, Idle
  <2> QED BY <2>1
<1>3. CASE WaitPoll(c, s)
  BY <1>1, <1>3 DEF WaitPoll, Goto, GiveUp, NextTry, Again, Steps
<1>4. CASE AssignFailed(c, s) \/ Announce(c, s)
  BY <1>1, <1>4 DEF AssignFailed, Announce, Goto, Steps
<1>5. CASE Save(c, s) \/ Remove(c, s)
  BY <1>2, <1>5 DEF Save, Remove
<1>6. CASE DeletePoll(c, s)
  BY <1>1, <1>2, <1>6 DEF DeletePoll, Again, Steps
<1> QED BY <1>3, <1>4, <1>5, <1>6

\* Going around the loop again leaves a waiter without a copy.
LEMMA NextTryNone ==
  ASSUME NEW c \in Clusters, NEW s \in Slots, NextTry(c, s)
  PROVE  \E u : u.pc \notin {"install", "saveReady"} /\ tasks' = [tasks EXCEPT ![c][s] = u]
<1>1. ASSUME NEW pc \in {"wait", "fail"}, NEW f, NEW n, Move(c, s, pc, f, n)
      PROVE  \E u : u.pc \notin {"install", "saveReady"} /\ tasks' = [tasks EXCEPT ![c][s] = u]
  <2> DEFINE u == [pc |-> pc, obj |-> tasks[c][s].obj, fresh |-> f, tries |-> n]
  <2>1. u.pc \notin {"install", "saveReady"} /\ tasks' = [tasks EXCEPT ![c][s] = u]
    BY <1>1 DEF Move
  <2> QED BY <2>1
<1> QED BY <1>1 DEF NextTry, Again, GiveUp

\* All but those three write a phase other than Ready, or are not seen.
LEMMA AsideReadies ==
  ASSUME Core, Rest, NEW c \in Clusters, NEW s \in Slots,
         \/ WaitPoll(c, s) \/ AssignFailed(c, s) \/ Announce(c, s) \/ Save(c, s)
         \/ DeletePoll(c, s) \/ Remove(c, s)
  PROVE  Readiness!Next \/ Unseen
<1>1. Completions' = Completions
  <2>1. CASE sent' = sent
    BY <2>1, CompletionsSame
  <2>2. ASSUME NEW v, NEW k \in {"Failed", "Deleted"}, Notify(c, v, k)
        PROVE  Completions' = Completions
    BY <2>2, CompletionsStay DEF Notices
  <2>3. CASE WaitPoll(c, s) \/ AssignFailed(c, s) \/ Save(c, s) \/ Remove(c, s)
    BY <2>1, <2>3 DEF WaitPoll, AssignFailed, Save, Remove
  <2>4. CASE Announce(c, s)
    BY <2>2, <2>4 DEF Announce
  <2>5. CASE DeletePoll(c, s)
    BY <2>1, <2>2, <2>5 DEF DeletePoll
  <2> QED BY <2>3, <2>4, <2>5
<1>2. /\ tasks[c][s].pc \notin {"install", "saveReady"}
      /\ \E u : u.pc \notin {"install", "saveReady"} /\ tasks' = [tasks EXCEPT ![c][s] = u]
  BY AsideTask
<1>3. CASE log' = log
  <2>1. Versions' = Versions
    BY <1>3, VersionsSame
  <2>2. Copies' = Copies
    BY <1>2, <1>3, CopiesNone
  <2> QED BY <1>1, <2>1, <2>2 DEF Unseen
<1>4. ASSUME NEW p \in Phases \ {"Ready"}, Live(c), Write(c, p) PROVE Readiness!Next
  <2>1. \E d \in Clusters, v \in Version : log' = [log EXCEPT ![d] = Append(@, v)]
    BY <1>4, WriteVersion
  <2>2. PICK u : u.pc \notin {"install", "saveReady"} /\ tasks' = [tasks EXCEPT ![c][s] = u]
    BY <1>2
  <2>3. Copies' = Copies
    BY <1>2, <2>1, <2>2, CopiesNone
  <2> QED BY <1>1, <1>4, <2>3, PlainWrite
<1>5. CASE Save(c, s) /\ log' # log
  <2> DEFINE o == tasks[c][s].obj
  <2>1. PICK p \in Readable(c, o) : Write(c, p)
    BY <1>5 DEF Save
  <2>2. tasks[c][s].pc = "save" /\ Accepted(c, heap[c][o].ver)
    BY <1>5 DEF Save
  <2>3. heap[c][o].phase \in {"Failed", "Error"}
    BY <2>2, SaveOrigin
  <2>4. p = heap[c][o].phase \/ p = "Garbled"
    BY DEF Readable
  <2>5. p \in Phases \ {"Ready"} /\ Live(c)
    BY <2>2, <2>3, <2>4 DEF Phases, Accepted
  <2> QED BY <1>4, <2>1, <2>5
<1>6. CASE Remove(c, s) /\ log' # log
  <2>1. Live(c) /\ Write(c, "Gone")
    BY <1>6 DEF Remove
  <2> QED BY <1>4, <2>1 DEF Phases
<1>7. CASE WaitPoll(c, s) \/ AssignFailed(c, s) \/ Announce(c, s) \/ DeletePoll(c, s)
  BY <1>3, <1>7 DEF WaitPoll, AssignFailed, Announce, DeletePoll
<1> QED BY <1>3, <1>5, <1>6, <1>7

\* ReadFresh takes the copy that the server has, or leaves the waiter without one.
LEMMA ReadFreshReadies ==
  ASSUME Core, Rest, NEW c \in Clusters, NEW s \in Slots, ReadFresh(c, s)
  PROVE  Readiness!Next \/ Unseen
<1>1. log' = log /\ sent' = sent /\ tasks[c][s].pc = "read"
  BY DEF ReadFresh
<1>2. Versions' = Versions /\ Completions' = Completions
  BY <1>1, VersionsSame, CompletionsSame
<1>3. CASE NextTry(c, s)
  <2>1. Copies' = Copies
    BY <1>1, <1>3, NextTryNone, CopiesNone
  <2> QED BY <1>2, <2>1 DEF Unseen
<1>4. CASE Live(c) /\ Move(c, s, "install", Latest(c), tasks[c][s].tries)
  <2> DEFINE u == [pc |-> "install", obj |-> tasks[c][s].obj, fresh |-> Latest(c),
                   tries |-> tasks[c][s].tries]
  <2>1. tasks' = [tasks EXCEPT ![c][s] = u] /\ u.pc = "install" /\ u.fresh = Latest(c)
    BY <1>4 DEF Move
  <2> HIDE DEF u
  <2>2. /\ Copies' = [Copies EXCEPT ![c][s] = CopyOf(c, s)'] /\ tasks'[c][s] = u
        /\ Copies[c][s] = CopyOf(c, s)
    BY <1>1, <2>1, CopiesMove
  <2>3. Copies[c][s] = Readiness!NoCopy
    BY <1>1, <2>2, NoCopyElsewhere
  <2>4. CopyOf(c, s)' = [stage |-> "taken", ver |-> Latest(c), url |-> Current(c).url,
                         gen |-> Current(c).gen]
    BY <1>1, <2>1, <2>2 DEF CopyOf, Current
  <2>5. CopyOf(c, s)' = Readiness!Copy(Versions[c], "taken")
    BY <2>4, VersionTypes DEF Readiness!Copy
  <2>6. Copies' = [Copies EXCEPT ![c][s] = Readiness!Copy(Versions[c], "taken")]
    BY <2>2, <2>5
  <2>7. Readiness!Live(c)
    BY <1>4, LiveVersion
  <2>8. Readiness!Take(c, s)
    BY <1>2, <2>3, <2>6, <2>7 DEF Readiness!Take, Versions, Copies, Completions
  <2> QED BY <2>8 DEF Readiness!Next
<1> QED BY <1>3, <1>4 DEF ReadFresh

\* Install hands out the notice of the copy.
LEMMA InstallReadies ==
  ASSUME Core, Rest, NEW c \in Clusters, NEW s \in Slots, Install(c, s)
  PROVE  Readiness!Next
<1> DEFINE t == tasks[c][s]
           v == log[c][t.fresh]
           u == [pc |-> "saveReady", obj |-> t.obj, fresh |-> t.fresh, tries |-> t.tries]
<1>1. log' = log /\ t.pc = "install" /\ Notify(c, v, "Completed")
  BY DEF Install
<1>2. tasks' = [tasks EXCEPT ![c][s] = u] /\ u.pc = "saveReady" /\ u.fresh = t.fresh
  BY DEF Install, Goto, Move
<1> HIDE DEF u
<1>3. /\ Copies' = [Copies EXCEPT ![c][s] = CopyOf(c, s)'] /\ tasks'[c][s] = u
      /\ Copies[c][s] = CopyOf(c, s)
  BY <1>1, <1>2, CopiesMove
<1>4. CopyOf(c, s) = [stage |-> "taken", ver |-> t.fresh, url |-> v.url, gen |-> v.gen]
  BY <1>1 DEF CopyOf
<1>5. CopyOf(c, s)' = [stage |-> "told", ver |-> t.fresh, url |-> v.url, gen |-> v.gen]
  BY <1>1, <1>2, <1>3 DEF CopyOf
<1> HIDE DEF v, t
<1>6. /\ Copies[c][s].stage = "taken" /\ Copies[c][s].url = v.url /\ Copies[c][s].gen = v.gen
      /\ CopyOf(c, s)' = Readiness!Copy(Copies[c][s], "told")
  BY <1>3, <1>4, <1>5 DEF Readiness!Copy
<1>7. Copies' = [Copies EXCEPT ![c][s] = Readiness!Copy(Copies[c][s], "told")]
  BY <1>3, <1>6
<1>8. Completions' = [Completions EXCEPT ![c] =
                        @ \cup IF Copies[c][s].url THEN {Copies[c][s].gen} ELSE {}]
  BY <1>1, <1>6, CompletionsTell
<1>9. Versions' = Versions
  BY <1>1, VersionsSame
<1>10. Readiness!Tell(c, s)
  BY <1>6, <1>7, <1>8, <1>9 DEF Readiness!Tell, Versions, Copies, Completions
<1> QED BY <1>10 DEF Readiness!Next

\* SaveReady stores Ready over the copy, or leaves.
LEMMA SaveReadyReadies ==
  ASSUME Core, Rest, NEW c \in Clusters, NEW s \in Slots, SaveReady(c, s)
  PROVE  Readiness!Next
<1> DEFINE f == tasks[c][s].fresh
<1>1. sent' = sent /\ tasks[c][s].pc = "saveReady"
  BY DEF SaveReady
<1>2. PICK u : u.pc \notin {"install", "saveReady"} /\ tasks' = [tasks EXCEPT ![c][s] = u]
  <2>1. Idle.pc = "idle"
    BY DEF Idle
  <2>2. End(c, s) \/ NextTry(c, s)
    BY DEF SaveReady
  <2> QED BY <2>1, <2>2, NextTryNone DEF End
<1>3. UNCHANGED log \/ (Accepted(c, f) /\ Write(c, "Ready"))
  BY DEF SaveReady
<1>4. Copies[c][s].stage = "told" /\ Copies[c][s].ver = f
  BY <1>1 DEF Copies, CopyOf
<1>5. Copies' = [Copies EXCEPT ![c][s] = Readiness!NoCopy]
  <2>1. log' = log \/ \E d \in Clusters, v \in Version : log' = [log EXCEPT ![d] = Append(@, v)]
    BY <1>3, WriteVersion DEF Phases
  <2>2. Copies' = [Copies EXCEPT ![c][s] = CopyOf(c, s)'] /\ tasks'[c][s] = u
    BY <1>2, <2>1, CopiesMove
  <2>3. CopyOf(c, s)' = Readiness!NoCopy
    BY <1>2, <2>2 DEF CopyOf, Readiness!NoCopy
  <2> QED BY <2>2, <2>3
<1>6. Completions' = Completions
  BY <1>1, CompletionsSame
<1>7. CASE UNCHANGED log
  <2>1. Versions' = Versions
    BY <1>7, VersionsSame
  <2>2. Readiness!Leave(c, s)
    BY <1>4, <1>5, <1>6, <2>1 DEF Readiness!Leave, Versions, Copies, Completions
  <2> QED BY <2>2 DEF Readiness!Next
<1>8. CASE Accepted(c, f) /\ Write(c, "Ready")
  <2>1. Readiness!Store(c, "Ready", Versions[c].url, Versions[c].gen)
    BY <1>8, VersionsPhase DEF Phases
  <2>2. Versions[c].ver = Latest(c)
    BY VersionTypes
  <2>3. Copies[c][s].ver = Versions[c].ver
    BY <1>4, <1>8, <2>2 DEF Accepted
  <2>4. Readiness!Live(c)
    BY <1>8, LiveVersion DEF Accepted
  <2>5. Readiness!MarkReady(c, s)
    BY <1>4, <1>5, <1>6, <2>1, <2>3, <2>4
       DEF Readiness!MarkReady, Versions, Copies, Completions
  <2> QED BY <2>5 DEF Readiness!Next
<1> QED BY <1>3, <1>7, <1>8

\* The controller keeps the promises of ClusterReadiness: whatever its goroutines share
\* and however they interleave, Ready is stored only by a waiter, over the version that
\* it read, after a Completed notice of the incarnation it read, and no waiter that has
\* read one is kept from that notice but by the end of the process.
THEOREM ReadinessRefinement == Spec => ImplementsReadiness
<1>1. Init => Readiness!Init
  <2> SUFFICES ASSUME Init PROVE Readiness!Init
    OBVIOUS
  <2>1. ASSUME NEW c \in Clusters
        PROVE  /\ Len(log[c]) = 1 /\ log[c][1] = [phase |-> "Gone", url |-> FALSE, gen |-> 0]
               /\ sent[c] = {} /\ \A s \in Slots : tasks[c][s].pc = "idle"
    BY DEF Init, NoTasks, Idle
  <2>2. ASSUME NEW c \in Clusters
        PROVE  VersionOf(c) \in [phase : Readiness!Phases \ {"Ready"}, url : BOOLEAN,
                                 gen : {0, 1}, ver : {1}]
    <3>1. Current(c) = [phase |-> "Gone", url |-> FALSE, gen |-> 0] /\ Latest(c) = 1
      BY <2>1 DEF Current, Latest
    <3>2. /\ Current(c).phase = "Gone" /\ Current(c).url = FALSE /\ Current(c).gen = 0
      BY <3>1
    <3> QED BY <3>1, <3>2 DEF VersionOf, Readiness!Phases
  <2>3. Versions \in [Clusters -> [phase : Readiness!Phases \ {"Ready"}, url : BOOLEAN,
                                   gen : {0, 1}, ver : {1}]]
    BY <2>2 DEF Versions
  <2>4. Copies = Readiness!NoCopies
    BY <2>1, NoCopyElsewhere DEF Copies, Readiness!NoCopies
  <2>5. Completions = [c \in Clusters |-> {}]
    BY <2>1 DEF Completions, CompletedOf
  <2> QED BY <2>3, <2>4, <2>5 DEF Readiness!Init, Versions, Copies, Completions
<1>2. Core /\ Rest /\ [Next]_vars => [Readiness!Next]_<<Versions, Copies, Completions>>
  <2> SUFFICES ASSUME Core, Rest, [Next]_vars PROVE Readiness!Next \/ Unseen
    BY DEF Unseen
  <2>1. CASE UNCHANGED <<log, tasks, sent>>
    BY <2>1, VersionsSame, CopiesStay, CompletionsSame DEF Unseen
  <2>2. ASSUME NEW c \in Clusters, Client(c) PROVE Readiness!Next
    BY <2>2, ClientReadies
  <2>3. ASSUME NEW c \in Clusters, Deliver(c) \/ Relist(c) PROVE UNCHANGED <<log, tasks, sent>>
    BY <2>3 DEF Deliver, Relist
  <2>4. ASSUME NEW w \in Workers, GetItem(w) \/ FinishItem(w)
        PROVE  UNCHANGED <<log, tasks, sent>>
    BY <2>4 DEF GetItem, FinishItem
  <2>5. ASSUME NEW w \in Workers, ProcessItem(w) PROVE Unseen
    BY <2>5, ProcessItemUnseen
  <2>6. ASSUME NEW c \in Clusters, NEW s \in Slots, Handle(c, s)
        PROVE  Readiness!Next \/ Unseen
    BY <2>6, AsideReadies, ReadFreshReadies, InstallReadies, SaveReadyReadies DEF Handle
  <2>7. CASE Restart
    <3>1. log' = log /\ sent' = sent /\ tasks' = NoTasks
      BY <2>7 DEF Restart
    <3>2. Versions' = Versions /\ Completions' = Completions
      BY <3>1, VersionsSame, CompletionsSame
    <3>3. ASSUME NEW c \in Clusters, NEW s \in Slots PROVE CopyOf(c, s)' = Readiness!NoCopy
      BY <3>1 DEF CopyOf, NoTasks, Idle, Readiness!NoCopy
    <3>4. Copies' = Readiness!NoCopies
      BY <3>3 DEF Copies, Readiness!NoCopies
    <3>5. Readiness!Stop
      BY <3>2, <3>4 DEF Readiness!Stop, Versions, Copies, Completions
    <3> QED BY <3>5 DEF Readiness!Next
  <2>8. CASE UNCHANGED vars
    BY <2>1, <2>8 DEF vars
  <2> QED BY <2>1, <2>2, <2>3, <2>4, <2>5, <2>6, <2>7, <2>8 DEF Next
<1>3. Core /\ Rest /\ [Next]_vars => (Core /\ Rest)'
  BY NextInvariant
<1>4. Init => Core /\ Rest
  BY InitInvariant
<1> QED BY <1>1, <1>2, <1>3, <1>4, PTL
        DEF Spec, ImplementsReadiness, Readiness!Spec, Versions, Copies, Completions

-----------------------------------------------------------------------------
(* The work queue and the workers *)

\* What a worker takes, no other worker holds; what it holds stays held.
LEMMA GetItemQueue ==
  ASSUME Rest, QueueOK, NEW w \in Workers, GetItem(w)
  PROVE  QueueOK'
<1> DEFINE k == Head(queue.order)
<1>1. /\ k \in Clusters /\ k # NoKey /\ k \notin queue.processing
      /\ WellFormed(Dequeue(queue))
  BY DequeueType, DequeueWellFormed, ConstantsAssumption DEF Rest, QueueOK, GetItem
<1>2. /\ queue' = Dequeue(queue) /\ working' = [working EXCEPT ![w].key = k]
      /\ working[w].key = NoKey /\ working[w] = AtRest
  BY HeldKey DEF GetItem
<1>3. queue'.processing = queue.processing \cup {k}
  BY <1>2 DEF Dequeue
<1> HIDE DEF k
<1>4. \A v \in Workers : working'[v].key = IF v = w THEN k ELSE working[v].key
  BY <1>2 DEF Rest, AtRest
<1>5. queue'.processing = {working'[v].key : v \in Workers} \ {NoKey}
  BY <1>1, <1>2, <1>3, <1>4 DEF QueueOK
<1>6. \A u, v \in Workers : working'[u].key = working'[v].key /\ working'[u].key # NoKey => u = v
  BY <1>1, <1>4 DEF QueueOK
<1> QED BY <1>1, <1>2, <1>5, <1>6 DEF QueueOK

\* A worker that processes its key goes on holding it.
LEMMA ProcessItemQueue ==
  ASSUME Rest, QueueOK, NEW w \in Workers, ProcessItem(w)
  PROVE  QueueOK'
<1>1. queue' = queue /\ working' = [working EXCEPT ![w].done = TRUE]
      /\ working[w] \in [key : Clusters, done : BOOLEAN]
  BY HeldKey DEF ProcessItem
<1>2. \A v \in Workers : working'[v].key = working[v].key
  BY <1>1 DEF Rest
<1> QED BY <1>1, <1>2 DEF QueueOK

\* A worker that is done releases the one key it holds.
LEMMA FinishItemQueue ==
  ASSUME Rest, QueueOK, NEW w \in Workers, FinishItem(w)
  PROVE  QueueOK'
<1> DEFINE k == working[w].key
<1>1. /\ queue' = Finish(queue, k) /\ working' = [working EXCEPT ![w] = AtRest]
      /\ k \in Clusters /\ k # NoKey
  BY HeldKey DEF FinishItem
<1>2. k \in queue.processing
  BY <1>1 DEF QueueOK
<1>3. WellFormed(Finish(queue, k))
  BY <1>1, <1>2, FinishWellFormed DEF Rest, QueueOK
<1>4. queue'.processing = queue.processing \ {k}
  BY <1>1 DEF Finish
<1>5. \A v \in Workers : working'[v].key = IF v = w THEN NoKey ELSE working[v].key
  BY <1>1 DEF Rest, AtRest
<1>6. \A v \in Workers : working[v].key = k => v = w
  BY <1>1 DEF QueueOK
<1>7. queue'.processing = {working'[v].key : v \in Workers} \ {NoKey}
  <2>1. queue.processing = {working[v].key : v \in Workers} \ {NoKey}
    BY DEF QueueOK
  <2>2. k = working[w].key
    OBVIOUS
  <2> HIDE DEF k
  <2> QED BY <1>4, <1>5, <1>6, <2>1, <2>2
<1>8. \A u, v \in Workers : working'[u].key = working'[v].key /\ working'[u].key # NoKey => u = v
  BY <1>5 DEF QueueOK
<1> HIDE DEF k
<1> QED BY <1>1, <1>3, <1>7, <1>8 DEF QueueOK

\* After a start the queue holds every key once, and no worker holds any.
LEMMA RestartQueue ==
  ASSUME Restart
  PROVE  QueueOK'
<1>1. PICK keys \in Orders({c \in Clusters : Live(c)}) : queue' = FilledQueue(keys)
  BY DEF Restart
<1>2. WellFormed(queue') /\ queue'.processing = {}
  BY <1>1 DEF FilledQueue, WellFormed, Orders
<1>3. \A w \in Workers : working'[w].key = NoKey
  BY DEF Restart, NoWorkers, AtRest
<1> QED BY <1>2, <1>3 DEF QueueOK

\* No key of the SDSCluster controller is ever lost between its informer and its
\* workers, and none is held by two workers, for any number of either.
THEOREM QueueSafe == Spec => []QueueOK
<1>1. Init => QueueOK
  BY DEF Init, QueueOK, WellFormed, EmptyQueue, NoWorkers, AtRest
<1>2. Rest /\ QueueOK /\ [Next]_vars => QueueOK'
  <2> SUFFICES ASSUME Rest, QueueOK, [Next]_vars PROVE QueueOK'
    OBVIOUS
  <2>1. CASE UNCHANGED <<queue, working>>
    BY <2>1 DEF QueueOK
  <2>2. ASSUME NEW c \in Clusters, queue' = Enqueue(queue, c), working' = working
        PROVE  QueueOK'
    <3>1. WellFormed(Enqueue(queue, c))
      BY EnqueueWellFormed DEF Rest, QueueOK
    <3>2. Enqueue(queue, c).processing = queue.processing
      BY DEF Enqueue
    <3> QED BY <2>2, <3>1, <3>2 DEF QueueOK
  <2>3. ASSUME NEW c \in Clusters, Client(c) PROVE UNCHANGED <<queue, working>>
    BY <2>3 DEF Client, Create, Request, Withdraw
  <2>4. ASSUME NEW c \in Clusters, Deliver(c) \/ Relist(c) PROVE QueueOK'
    BY <2>2, <2>4 DEF Deliver, Relist, Observe
  <2>5. ASSUME NEW w \in Workers, GetItem(w) \/ ProcessItem(w) \/ FinishItem(w) PROVE QueueOK'
    BY <2>5, GetItemQueue, ProcessItemQueue, FinishItemQueue
  <2>6. ASSUME NEW c \in Clusters, NEW s \in Slots, Handle(c, s)
        PROVE  UNCHANGED <<queue, working>>
    BY <2>6 DEF Handle, WaitPoll, ReadFresh, Install, SaveReady, AssignFailed,
                Announce, Save, DeletePoll, Remove
  <2>7. CASE Restart
    BY <2>7, RestartQueue
  <2> QED BY <2>1, <2>3, <2>4, <2>5, <2>6, <2>7 DEF Next, vars
<1>3. Core /\ Rest /\ [Next]_vars => (Core /\ Rest)'
  BY NextInvariant
<1>4. Init => Core /\ Rest
  BY InitInvariant
<1> QED BY <1>1, <1>2, <1>3, <1>4, PTL DEF Spec
=============================================================================
