------------------------- MODULE ClusterNoticesProofs -------------------------
(***************************************************************************)
(* The notices of the SDSCluster controller, for every value of the        *)
(* constants: what is recorded was announced, and nobody is told of a      *)
(* failure who was not told of the progress before.                        *)
(*                                                                         *)
(* Neither is inductive.  A handler records what the object it shares      *)
(* shows, which another handler may have assigned, or the informer decoded *)
(* from a version a third one stored; so the invariant, Notified, says of  *)
(* every version, every object and every handler which notice has been     *)
(* handed out for it.  As in ClusterControllerProofs it speaks of the log  *)
(* L, heap H, tasks T and notices N of one cluster.                        *)
(***************************************************************************)
EXTENDS ClusterControllerProofs

Told(N, v, kind) == v.url => <<v.gen, kind>> \in N

VersionTold(N, v) ==
  /\ v.phase = "Failed" => Told(N, v, "InProgress")
  /\ v.phase = "Error"  => Told(N, v, "Failed")
  /\ v.phase = "Ready"  => Told(N, v, "Completed")

ObjectTold(L, N, x) ==
  /\ x.phase = "Failed" => Told(N, L[x.ver], "InProgress")
  /\ x.phase = "Error"  => Told(N, L[x.ver], "Failed")

TaskTold(L, H, N, t) ==
  /\ t.pc \in WaiterSteps \cup {"announce"} => Told(N, L[H[t.obj].ver], "InProgress")
  /\ t.pc = "saveReady" => Told(N, L[t.fresh], "Completed")

Followed(N) == \A n \in N : n[2] = "Failed" => <<n[1], "InProgress">> \in N

Notified(L, H, T, N) ==
  /\ \A i \in 1 .. Len(L) : VersionTold(N, L[i])
  /\ \A o \in 1 .. Len(H) : ObjectTold(L, N, H[o])
  /\ \A s \in Slots : TaskTold(L, H, N, T[s])
  /\ Followed(N)

NoticesOK == \A c \in Clusters : Notified(log[c], heap[c], tasks[c], sent[c])

-----------------------------------------------------------------------------
(* One cluster *)

\* Writing a version whose notice is out.
LEMMA NotifiedWrite ==
  ASSUME NEW L, NEW H, NEW T, NEW N, LocalType(L, H, T), Local(L, H, T),
         Notified(L, H, T, N), NEW v \in Version, VersionTold(N, v)
  PROVE  Notified(Append(L, v), H, T, N)
<1> DEFINE M == Append(L, v)
<1>1. /\ Len(M) = Len(L) + 1 /\ Len(L) \in Nat /\ M[Len(L) + 1] = v
      /\ \A i \in 1 .. Len(L) : M[i] = L[i]
  BY DEF LocalType
<1> HIDE DEF M
<1>2. ASSUME NEW i \in 1 .. Len(M) PROVE VersionTold(N, M[i])
  <2>1. CASE i \in 1 .. Len(L) BY <1>1, <2>1 DEF Notified
  <2>2. CASE i = Len(L) + 1 BY <1>1, <2>2
  <2> QED BY <1>1, <2>1, <2>2
<1>3. ASSUME NEW o \in 1 .. Len(H) PROVE ObjectTold(M, N, H[o])
  <2>1. M[H[o].ver] = L[H[o].ver] /\ ObjectTold(L, N, H[o])
    BY <1>1 DEF Local, ObjectOK, Notified
  <2> QED BY <2>1 DEF ObjectTold
<1>4. ASSUME NEW s \in Slots PROVE TaskTold(M, H, N, T[s])
  <2>1. TaskOK(L, H, T[s]) /\ TaskTold(L, H, N, T[s])
    BY DEF Local, Notified
  <2>2. M[H[T[s].obj].ver] = L[H[T[s].obj].ver] /\ M[T[s].fresh] = L[T[s].fresh]
    BY <1>1, <2>1 DEF Local, ObjectOK, TaskOK
  <2> QED BY <2>1, <2>2 DEF TaskTold
<1> QED BY <1>2, <1>3, <1>4 DEF Notified, M

\* Decoding a version: what holds of the version holds of the object.
LEMMA NotifiedObserve ==
  ASSUME NEW L, NEW H, NEW T, NEW N, LocalType(L, H, T), Local(L, H, T),
         Notified(L, H, T, N), NEW v \in 1 .. Len(L)
  PROVE  Notified(L, Append(H, [phase |-> L[v].phase, ver |-> v]), T, N)
<1> DEFINE x == [phase |-> L[v].phase, ver |-> v]
           G == Append(H, x)
<1>1. x.ver = v /\ x.phase = L[v].phase /\ H \in Seq(Object)
  BY DEF LocalType
<1> HIDE DEF x
<1>2. /\ Len(G) = Len(H) + 1 /\ Len(H) \in Nat /\ G[Len(H) + 1] = x
      /\ \A i \in 1 .. Len(H) : G[i] = H[i]
  BY <1>1
<1> HIDE DEF G
<1>3. ASSUME NEW o \in 1 .. Len(G) PROVE ObjectTold(L, N, G[o])
  <2>1. CASE o \in 1 .. Len(H) BY <1>2, <2>1 DEF Notified
  <2>2. CASE o = Len(H) + 1
    <3>1. VersionTold(N, L[v])
      BY DEF Notified
    <3> QED BY <1>1, <1>2, <2>2, <3>1 DEF ObjectTold, VersionTold
  <2> QED BY <1>2, <2>1, <2>2
<1>4. ASSUME NEW s \in Slots PROVE TaskTold(L, G, N, T[s])
  <2>1. T[s].obj \in 1 .. Len(H) /\ TaskTold(L, H, N, T[s])
    BY DEF Local, TaskOK, Notified
  <2> QED BY <1>2, <2>1 DEF TaskTold
<1> QED BY <1>3, <1>4 DEF Notified, G, x

\* Moving one task on.
LEMMA NotifiedTask ==
  ASSUME NEW L, NEW H, NEW T, NEW N, LocalType(L, H, T),
         Notified(L, H, T, N), NEW s \in Slots, NEW t, TaskTold(L, H, N, t)
  PROVE  Notified(L, H, [T EXCEPT ![s] = t], N)
BY DEF LocalType, Notified

\* Assigning a phase whose notice is out.
LEMMA NotifiedAssign ==
  ASSUME NEW L, NEW H, NEW T, NEW N, LocalType(L, H, T), Local(L, H, T),
         Notified(L, H, T, N), NEW o \in 1 .. Len(H), NEW p,
         p = "Failed" => Told(N, L[H[o].ver], "InProgress"),
         p = "Error"  => Told(N, L[H[o].ver], "Failed")
  PROVE  Notified(L, [H EXCEPT ![o].phase = p], T, N)
<1> DEFINE G == [H EXCEPT ![o].phase = p]
<1>1. H \in Seq(Object) /\ H[o] \in Object
  BY DEF LocalType
<1>2. /\ Len(G) = Len(H) /\ G[o].phase = p /\ G[o].ver = H[o].ver
      /\ \A i \in 1 .. Len(H) : i # o => G[i] = H[i]
  BY <1>1 DEF Object
<1> HIDE DEF G
<1>3. ASSUME NEW i \in 1 .. Len(G) PROVE ObjectTold(L, N, G[i])
  <2>1. CASE i = o BY <1>2, <2>1 DEF ObjectTold
  <2>2. CASE i # o BY <1>2, <2>2 DEF Notified
  <2> QED BY <2>1, <2>2
<1>4. ASSUME NEW s \in Slots PROVE TaskTold(L, G, N, T[s])
  <2>1. T[s].obj \in 1 .. Len(H) /\ TaskTold(L, H, N, T[s])
    BY DEF Local, TaskOK, Notified
  <2>2. G[T[s].obj].ver = H[T[s].obj].ver
    BY <1>2, <2>1
  <2> QED BY <2>1, <2>2 DEF TaskTold
<1> QED BY <1>3, <1>4 DEF Notified, G

\* Handing out a notice of a version; one of failure only after one of progress.
LEMMA NotifiedTell ==
  ASSUME NEW L, NEW H, NEW T, NEW N, Notified(L, H, T, N), NEW v, NEW kind,
         kind = "Failed" => Told(N, v, "InProgress"),
         NEW M, M = N \cup IF v.url THEN {<<v.gen, kind>>} ELSE {}
  PROVE  Notified(L, H, T, M) /\ Told(M, v, kind) /\ N \subseteq M
<1>1. N \subseteq M /\ Told(M, v, kind)
  BY DEF Told
<1>2. \A w, k : Told(N, w, k) => Told(M, w, k)
  BY <1>1 DEF Told
<1>3. Followed(M)
  <2> SUFFICES ASSUME NEW n \in M, n[2] = "Failed" PROVE <<n[1], "InProgress">> \in M
    BY DEF Followed
  <2>1. CASE n \in N
    BY <1>1, <2>1 DEF Notified, Followed
  <2>2. CASE n \notin N
    <3>1. v.url /\ n = <<v.gen, kind>>
      BY <2>2
    <3> QED BY <1>1, <3>1 DEF Told
  <2> QED BY <2>1, <2>2
<1>4. \A i \in 1 .. Len(L) : VersionTold(M, L[i])
  BY <1>2 DEF Notified, VersionTold
<1>5. \A o \in 1 .. Len(H) : ObjectTold(L, M, H[o])
  BY <1>2 DEF Notified, ObjectTold
<1>6. \A s \in Slots : TaskTold(L, H, M, T[s])
  BY <1>2 DEF Notified, TaskTold
<1> QED BY <1>1, <1>3, <1>4, <1>5, <1>6 DEF Notified

-----------------------------------------------------------------------------
(* All clusters *)

\* What is known of one cluster.
LEMMA OneCluster ==
  ASSUME Core, Rest, NoticesOK, NEW c \in Clusters
  PROVE  /\ LocalType(log[c], heap[c], tasks[c]) /\ Local(log[c], heap[c], tasks[c])
         /\ Notified(log[c], heap[c], tasks[c], sent[c])
BY DEF Core, LocalType, NoticesOK

\* A step that touches one cluster.
LEMMA NoticesStep ==
  ASSUME NoticesOK, NEW c \in Clusters,
         Notified(log'[c], heap'[c], tasks'[c], sent'[c]),
         \A d \in Clusters \ {c} : /\ log'[d] = log[d] /\ heap'[d] = heap[d]
                                   /\ tasks'[d] = tasks[d] /\ sent'[d] = sent[d]
  PROVE  NoticesOK'
<1>1. ASSUME NEW d \in Clusters PROVE Notified(log'[d], heap'[d], tasks'[d], sent'[d])
  <2>1. CASE d = c BY <2>1
  <2>2. CASE d # c BY <2>2 DEF NoticesOK
  <2> QED BY <2>1, <2>2
<1> QED BY <1>1 DEF NoticesOK

\* A write that asks for no notice, or for one that is out.
LEMMA WriteTold ==
  ASSUME Core, NEW c \in Clusters, NEW p \in Phases, Write(c, p), NEW N,
         p = "Failed" => Told(N, Current(c), "InProgress"),
         p = "Error"  => Told(N, Current(c), "Failed"),
         p = "Ready"  => Told(N, Current(c), "Completed")
  PROVE  \E v \in Version : VersionTold(N, v) /\ log' = [log EXCEPT ![c] = Append(log[c], v)]
<1> DEFINE v == [Current(c) EXCEPT !.phase = p]
<1>1. Current(c) \in Version
  BY CoreTypes
<1>2. v \in Version /\ v.phase = p /\ v.url = Current(c).url /\ v.gen = Current(c).gen
  BY <1>1 DEF Version
<1>3. VersionTold(N, v)
  BY <1>2 DEF VersionTold, Told
<1>4. log' = [log EXCEPT ![c] = Append(log[c], v)]
  BY DEF Write
<1> QED BY <1>2, <1>3, <1>4

\* A goroutine moves on, and a version may be written whose notice is out.
LEMMA HandlerNotices ==
  ASSUME Core, Rest, NoticesOK, NEW c \in Clusters, NEW s \in Slots,
         NEW u \in Task, TaskOK(log[c], heap[c], u), TaskTold(log[c], heap[c], sent[c], u),
         tasks' = [tasks EXCEPT ![c][s] = u],
         \/ log' = log
         \/ \E v \in Version : /\ VersionTold(sent[c], v)
                               /\ log' = [log EXCEPT ![c] = Append(log[c], v)],
         heap' = heap, sent' = sent
  PROVE  NoticesOK'
<1> DEFINE T == [tasks[c] EXCEPT ![s] = u]
<1>1. Notified(log[c], heap[c], T, sent[c])
  BY OneCluster, NotifiedTask
<1>2. LocalType(log[c], heap[c], T) /\ Local(log[c], heap[c], T)
  BY OneCluster, LocalTask
<1>3. /\ tasks'[c] = T /\ heap'[c] = heap[c] /\ sent'[c] = sent[c]
      /\ \A d \in Clusters \ {c} : tasks'[d] = tasks[d] /\ heap'[d] = heap[d] /\ sent'[d] = sent[d]
  BY DEF Core
<1> HIDE DEF T
<1>4. CASE log' = log
  BY <1>1, <1>3, <1>4, NoticesStep
<1>5. ASSUME NEW v \in Version, VersionTold(sent[c], v),
             log' = [log EXCEPT ![c] = Append(log[c], v)]
      PROVE  NoticesOK'
  <2>1. Notified(Append(log[c], v), heap[c], T, sent[c])
    BY <1>1, <1>2, <1>5, NotifiedWrite
  <2>2. log'[c] = Append(log[c], v) /\ \A d \in Clusters \ {c} : log'[d] = log[d]
    BY <1>5 DEF Core
  <2> QED BY <1>3, <2>1, <2>2, NoticesStep
<1> QED BY <1>4, <1>5

\* A goroutine that moves to another step of its loop.
LEMMA MoveTold ==
  ASSUME Core, Rest, NoticesOK, NEW c \in Clusters, NEW s \in Slots,
         NEW pc \in Steps, NEW f \in 1 .. Len(log[c]), NEW n \in 0 .. MaxTries - 1,
         \/ tasks[c][s].pc \in WaiterSteps /\ pc \in WaiterSteps \ {"saveReady"}
         \/ tasks[c][s].pc \in DeleterSteps /\ pc \in DeleterSteps,
         Move(c, s, pc, f, n)
  PROVE  \E u \in Task : /\ TaskOK(log[c], heap[c], u) /\ TaskTold(log[c], heap[c], sent[c], u)
                         /\ tasks' = [tasks EXCEPT ![c][s] = u]
<1> DEFINE u == [pc |-> pc, obj |-> tasks[c][s].obj, fresh |-> f, tries |-> n]
<1>1. tasks[c][s] \in Task /\ TaskOK(log[c], heap[c], tasks[c][s]) /\ Len(log[c]) \in Nat
      /\ TaskTold(log[c], heap[c], sent[c], tasks[c][s])
  BY CoreTypes, OneCluster DEF Notified
<1>2. u \in Task
  BY <1>1 DEF Task
<1>3. TaskOK(log[c], heap[c], u)
  BY <1>1 DEF TaskOK, WaiterSteps, DeleterSteps
<1>4. TaskTold(log[c], heap[c], sent[c], u)
  BY <1>1 DEF TaskTold, WaiterSteps, DeleterSteps
<1>5. tasks' = [tasks EXCEPT ![c][s] = u]
  BY DEF Move
<1> QED BY <1>2, <1>3, <1>4, <1>5

\* A goroutine that ends asks for no notice.
LEMMA EndTold ==
  ASSUME Core, NEW c \in Clusters, NEW s \in Slots, End(c, s)
  PROVE  \E u \in Task : /\ TaskOK(log[c], heap[c], u) /\ TaskTold(log[c], heap[c], sent[c], u)
                         /\ tasks' = [tasks EXCEPT ![c][s] = u]
<1>1. TaskTold(log[c], heap[c], sent[c], Idle)
  BY DEF TaskTold, Idle, WaiterSteps
<1> QED BY <1>1, IdleTask DEF End

\* Going around the loop again, or giving up.
LEMMA NextTryTold ==
  ASSUME Core, Rest, NoticesOK, NEW c \in Clusters, NEW s \in Slots,
         tasks[c][s].pc \in WaiterSteps, NextTry(c, s)
  PROVE  \E u \in Task : /\ TaskOK(log[c], heap[c], u) /\ TaskTold(log[c], heap[c], sent[c], u)
                         /\ tasks' = [tasks EXCEPT ![c][s] = u]
<1> DEFINE n == tasks[c][s].tries
<1>1. /\ n \in 0 .. MaxTries - 1 /\ MaxTries \in Nat \ {0}
      /\ 1 \in 1 .. Len(log[c]) /\ 0 \in 0 .. MaxTries - 1
      /\ {"wait", "fail"} \subseteq Steps \cap (WaiterSteps \ {"saveReady"})
  BY CoreTypes, ConstantsAssumption DEF Task, Steps, WaiterSteps
<1>2. CASE n + 1 < MaxTries
  <2>1. n + 1 \in 0 .. MaxTries - 1
    BY <1>1, <1>2
  <2>2. Move(c, s, "wait", 1, n + 1)
    BY <1>2 DEF NextTry, Again
  <2> QED BY <1>1, <2>1, <2>2, MoveTold
<1>3. CASE ~(n + 1 < MaxTries)
  <2>1. Move(c, s, "fail", 1, 0)
    BY <1>3 DEF NextTry, Again, GiveUp
  <2> QED BY <1>1, <2>1, MoveTold
<1> QED BY <1>2, <1>3

-----------------------------------------------------------------------------
(* The steps *)

\* A client writes phases that no notice goes with.
LEMMA ClientNotices ==
  ASSUME Core, Rest, NoticesOK, NEW c \in Clusters, Client(c)
  PROVE  NoticesOK'
<1>1. UNCHANGED <<heap, tasks, sent>>
  BY DEF Client, Create, Request, Withdraw
<1>2. \E v \in Version : VersionTold(sent[c], v) /\ log' = [log EXCEPT ![c] = Append(log[c], v)]
  <2>1. CASE Create(c)
    <3>1. PICK u \in BOOLEAN : log' = [log EXCEPT ![c] =
            Append(log[c], [phase |-> "Waiting", url |-> u, gen |-> Current(c).gen + 1])]
      BY <2>1 DEF Create
    <3> DEFINE v == [phase |-> "Waiting", url |-> u, gen |-> Current(c).gen + 1]
    <3>2. v \in Version /\ VersionTold(sent[c], v)
      BY CoreTypes DEF Version, Phases, VersionTold
    <3> QED BY <3>1, <3>2
  <2>2. CASE Request(c) \/ Withdraw(c)
    <3>1. PICK p \in {"Waiting", "Upgrading", "Deleting", "Gone"} : Write(c, p)
      BY <2>2 DEF Request, Withdraw
    <3>2. p \in Phases /\ p # "Failed" /\ p # "Error" /\ p # "Ready"
      BY DEF Phases
    <3> DEFINE N == sent[c]
    <3>3. \E v \in Version : VersionTold(N, v) /\ log' = [log EXCEPT ![c] = Append(log[c], v)]
      <4> HIDE DEF N
      <4> QED BY <3>1, <3>2, WriteTold
    <3> QED BY <3>3
  <2> QED BY <2>1, <2>2 DEF Client
<1>3. PICK v \in Version : VersionTold(sent[c], v) /\ log' = [log EXCEPT ![c] = Append(log[c], v)]
  BY <1>2
<1>4. Notified(Append(log[c], v), heap[c], tasks[c], sent[c])
  BY <1>3, OneCluster, NotifiedWrite
<1>5. log'[c] = Append(log[c], v) /\ \A d \in Clusters \ {c} : log'[d] = log[d]
  BY <1>3 DEF Core
<1> QED BY <1>1, <1>4, <1>5, NoticesStep

\* The informer decodes versions.
LEMMA InformerNotices ==
  ASSUME Core, Rest, NoticesOK, NEW c \in Clusters, Deliver(c) \/ Relist(c)
  PROVE  NoticesOK'
<1>1. UNCHANGED <<log, tasks, sent>>
  BY DEF Deliver, Relist
<1>2. PICK v \in 1 .. Len(log[c]) : Observe(c, v)
  <2>1. /\ Latest(c) \in 1 .. Len(log[c]) /\ Latest(c) = Len(log[c]) /\ Len(log[c]) \in Nat
        /\ heap[c][Stored(c)].ver \in 1 .. Len(log[c])
    BY CoreTypes DEF ObjectOK, Latest
  <2> QED BY <2>1 DEF Deliver, Relist
<1> DEFINE G == Append(heap[c], [phase |-> log[c][v].phase, ver |-> v])
<1>3. Notified(log[c], G, tasks[c], sent[c])
  BY OneCluster, NotifiedObserve
<1>4. heap'[c] = G /\ \A d \in Clusters \ {c} : heap'[d] = heap[d]
  BY <1>2 DEF Observe, Core
<1> HIDE DEF G
<1> QED BY <1>1, <1>3, <1>4, NoticesStep

\* processItem starts a waiter with its notice of progress, and a handler of a
\* failure only for an object whose notice of progress is out.
LEMMA ProcessItemNotices ==
  ASSUME Core, Rest, NoticesOK, NEW w \in Workers, ProcessItem(w)
  PROVE  NoticesOK'
<1> DEFINE c == working[w].key
           o == Stored(c)
           V == Origin(c, o)
<1>1. c \in Clusters
  BY HeldKey DEF ProcessItem
<1>2. PICK p \in Readable(c, o) :
        IF Handler(p) = "idle"
        THEN UNCHANGED <<tasks, sent>>
        ELSE /\ \E s \in Slots :
                  /\ tasks[c][s].pc = "idle"
                  /\ tasks' = [tasks EXCEPT ![c][s] = Started(p, o)]
             /\ IF p = "Waiting" THEN Notify(c, V, "InProgress") ELSE UNCHANGED sent
  BY DEF ProcessItem
<1>3. log' = log /\ heap' = heap
  BY DEF ProcessItem
<1>4. CASE Handler(p) = "idle"
  <2>1. UNCHANGED <<tasks, sent>>
    BY <1>2, <1>4
  <2> QED BY <1>3, <2>1 DEF NoticesOK
<1>5. CASE Handler(p) # "idle"
  <2> DEFINE u == Started(p, o)
  <2>1. PICK s \in Slots : tasks' = [tasks EXCEPT ![c][s] = u]
    BY <1>2, <1>5
  <2>2. o \in 1 .. Len(heap[c]) /\ V = log[c][heap[c][o].ver]
    BY <1>1, CoreTypes DEF Origin
  <2>3. \/ p = "Waiting"  /\ Handler(p) = "wait"
        \/ p = "Deleting" /\ Handler(p) = "delete"
        \/ p = "Failed"   /\ Handler(p) = "announce"
    BY <1>5 DEF Handler
  <2>4. p = heap[c][o].phase
    BY <2>3 DEF Readable
  <2>5. u.pc = Handler(p) /\ u.obj = o
    BY DEF Started
  <2>6. Notified(log[c], heap[c], tasks[c], sent[c]) /\ LocalType(log[c], heap[c], tasks[c])
    BY <1>1, OneCluster
  <2> DEFINE N == sent'[c]
  <2>7. /\ Notified(log[c], heap[c], tasks[c], N)
        /\ p = "Waiting" => Told(N, V, "InProgress")
        /\ p # "Waiting" => N = sent[c]
        /\ \A d \in Clusters \ {c} : sent'[d] = sent[d]
    <3>1. CASE p = "Waiting"
      <4>1. Notify(c, V, "InProgress")
        BY <1>2, <1>5, <3>1
      <4>2. /\ N = sent[c] \cup IF V.url THEN {<<V.gen, "InProgress">>} ELSE {}
            /\ \A d \in Clusters \ {c} : sent'[d] = sent[d]
        BY <1>1, <4>1 DEF Notify, Rest
      <4> HIDE DEF N, c, o, V
      <4> QED BY <2>6, <3>1, <4>2, NotifiedTell
    <3>2. CASE p # "Waiting"
      BY <1>2, <1>5, <2>6, <3>2
    <3> QED BY <3>1, <3>2
  <2>8. TaskTold(log[c], heap[c], N, u)
    <3>1. p = "Failed" => Told(N, V, "InProgress")
      BY <2>2, <2>4, <2>6, <2>7 DEF Notified, ObjectTold
    <3> HIDE DEF u, N, V
    <3> QED BY <2>2, <2>3, <2>5, <2>7, <3>1 DEF TaskTold, WaiterSteps
  <2> DEFINE T == [tasks[c] EXCEPT ![s] = u]
  <2>9. Notified(log[c], heap[c], T, N)
    <3> HIDE DEF u, N, V, c, o
    <3> QED BY <2>6, <2>7, <2>8, NotifiedTask
  <2>10. tasks'[c] = T /\ \A d \in Clusters \ {c} : tasks'[d] = tasks[d]
    BY <1>1, <2>1 DEF Core
  <2> HIDE DEF T, u, c, o, V
  <2> QED BY <1>1, <1>3, <2>7, <2>9, <2>10, NoticesStep
<1> QED BY <1>4, <1>5

\* A waiter that polls or reads asks for no notice but the one it gave.
LEMMA PollNotices ==
  ASSUME Core, Rest, NoticesOK, NEW c \in Clusters, NEW s \in Slots,
         WaitPoll(c, s) \/ ReadFresh(c, s)
  PROVE  NoticesOK'
<1> DEFINE t == tasks[c][s]
           Moves == \E u \in Task : /\ TaskOK(log[c], heap[c], u)
                                    /\ TaskTold(log[c], heap[c], sent[c], u)
                                    /\ tasks' = [tasks EXCEPT ![c][s] = u]
<1>1. /\ t.fresh \in 1 .. Len(log[c]) /\ t.tries \in 0 .. MaxTries - 1
      /\ Latest(c) \in 1 .. Len(log[c]) /\ 1 \in 1 .. Len(log[c]) /\ 0 \in 0 .. MaxTries - 1
      /\ {"wait", "read", "install", "fail"} \subseteq Steps \cap (WaiterSteps \ {"saveReady"})
  <2>1. t \in Task /\ t.fresh \in 1 .. Len(log[c]) /\ Len(log[c]) \in Nat \ {0}
        /\ Latest(c) \in 1 .. Len(log[c])
    BY CoreTypes DEF TaskOK
  <2>2. t.tries \in 0 .. MaxTries - 1 /\ MaxTries \in Nat \ {0}
    BY <2>1, ConstantsAssumption DEF Task
  <2>3. {"wait", "read", "install", "fail"} \subseteq Steps \cap (WaiterSteps \ {"saveReady"})
    BY DEF Steps, WaiterSteps
  <2> QED BY <2>1, <2>2, <2>3
<1>2. t.pc \in WaiterSteps
  BY DEF WaitPoll, ReadFresh, WaiterSteps
<1>3. \/ \E pc \in {"read", "install", "fail"}, f \in 1 .. Len(log[c]), n \in 0 .. MaxTries - 1 :
             Move(c, s, pc, f, n)
      \/ NextTry(c, s)
  <2>1. CASE WaitPoll(c, s)
    BY <1>1, <2>1 DEF WaitPoll, Goto, GiveUp
  <2>2. CASE ReadFresh(c, s)
    BY <1>1, <2>2 DEF ReadFresh
  <2> QED BY <2>1, <2>2
<1>4. Moves
  BY <1>1, <1>2, <1>3, MoveTold, NextTryTold
<1>5. UNCHANGED <<log, heap, sent>>
  BY DEF WaitPoll, ReadFresh
<1> QED BY <1>4, <1>5, HandlerNotices

\* Install hands out the notice SaveReady asks for, of the same fresh copy.
LEMMA InstallNotices ==
  ASSUME Core, Rest, NoticesOK, NEW c \in Clusters, NEW s \in Slots, Install(c, s)
  PROVE  NoticesOK'
<1> DEFINE t == tasks[c][s]
           V == log[c][t.fresh]
           u == [pc |-> "saveReady", obj |-> t.obj, fresh |-> t.fresh, tries |-> t.tries]
           N == sent'[c]
           T == [tasks[c] EXCEPT ![s] = u]
<1>1. Notified(log[c], heap[c], tasks[c], sent[c]) /\ LocalType(log[c], heap[c], tasks[c])
  BY OneCluster
<1>2. /\ N = sent[c] \cup IF V.url THEN {<<V.gen, "Completed">>} ELSE {}
      /\ \A d \in Clusters \ {c} : sent'[d] = sent[d]
  BY DEF Install, Notify, Rest
<1>3. Notified(log[c], heap[c], tasks[c], N) /\ Told(N, V, "Completed")
  <2> HIDE DEF N, V
  <2> QED BY <1>1, <1>2, NotifiedTell
<1>4. TaskTold(log[c], heap[c], N, t) /\ t.pc = "install"
  BY <1>3 DEF Notified, Install
<1>5. TaskTold(log[c], heap[c], N, u)
  <2>1. u.pc = "saveReady" /\ u.obj = t.obj /\ u.fresh = t.fresh
    OBVIOUS
  <2> HIDE DEF u, N
  <2> QED BY <1>3, <1>4, <2>1 DEF TaskTold, WaiterSteps
<1>6. Notified(log[c], heap[c], T, N)
  <2> HIDE DEF u, N
  <2> QED BY <1>1, <1>3, <1>5, NotifiedTask
<1>7. tasks'[c] = T /\ \A d \in Clusters \ {c} : tasks'[d] = tasks[d]
  BY DEF Core, Install, Goto, Move
<1>8. log' = log /\ heap' = heap
  BY DEF Install
<1> HIDE DEF T, u
<1> QED BY <1>2, <1>6, <1>7, <1>8, NoticesStep

\* Ready is stored over the very version the Completed notice was given for.
LEMMA SaveReadyNotices ==
  ASSUME Core, Rest, NoticesOK, NEW c \in Clusters, NEW s \in Slots, SaveReady(c, s)
  PROVE  NoticesOK'
<1> DEFINE N == sent[c]
<1>1. tasks[c][s].pc = "saveReady" /\ tasks[c][s].pc \in WaiterSteps
  BY DEF SaveReady, WaiterSteps
<1>2. \E u \in Task : /\ TaskOK(log[c], heap[c], u) /\ TaskTold(log[c], heap[c], N, u)
                      /\ tasks' = [tasks EXCEPT ![c][s] = u]
  BY <1>1, EndTold, NextTryTold DEF SaveReady
<1>3. \/ log' = log
      \/ \E v \in Version : VersionTold(N, v) /\ log' = [log EXCEPT ![c] = Append(log[c], v)]
  <2>1. CASE log' = log BY <2>1
  <2>2. CASE log' # log
    <3>1. Write(c, "Ready") /\ tasks[c][s].fresh = Latest(c)
      BY <2>2 DEF SaveReady, Accepted
    <3>2. Told(N, Current(c), "Completed")
      BY <1>1, <3>1, OneCluster DEF Notified, TaskTold, Current
    <3>3. "Ready" \in Phases
      BY DEF Phases
    <3> HIDE DEF N
    <3> QED BY <3>1, <3>2, <3>3, WriteTold
  <2> QED BY <2>1, <2>2
<1>4. heap' = heap /\ sent' = sent
  BY DEF SaveReady
<1> QED BY <1>2, <1>3, <1>4, HandlerNotices

\* Save stores what its object shows, and the notice that goes with that is out:
\* the object was decoded from the version it replaces.
LEMMA SaveNotices ==
  ASSUME Core, Rest, NoticesOK, NEW c \in Clusters, NEW s \in Slots, Save(c, s)
  PROVE  NoticesOK'
<1> DEFINE N == sent[c]
           o == tasks[c][s].obj
<1>1. \E u \in Task : /\ TaskOK(log[c], heap[c], u) /\ TaskTold(log[c], heap[c], N, u)
                      /\ tasks' = [tasks EXCEPT ![c][s] = u]
  BY EndTold DEF Save
<1>2. \/ log' = log
      \/ \E v \in Version : VersionTold(N, v) /\ log' = [log EXCEPT ![c] = Append(log[c], v)]
  <2>1. CASE log' = log BY <2>1
  <2>2. CASE log' # log
    <3>1. tasks[c][s].pc = "save" /\ Accepted(c, heap[c][o].ver)
      BY <2>2 DEF Save
    <3>2. PICK p \in Readable(c, o) : Write(c, p)
      BY <2>2 DEF Save
    <3>3. heap[c][o].phase \in {"Failed", "Error"}
      BY <3>1, SaveOrigin
    <3>4. p = heap[c][o].phase \/ p = "Garbled"
      BY DEF Readable
    <3>5. o \in 1 .. Len(heap[c]) /\ Current(c) = log[c][heap[c][o].ver]
      BY <3>1, CoreTypes DEF TaskOK, Accepted, Current
    <3>6. ObjectTold(log[c], N, heap[c][o])
      BY <3>5, OneCluster DEF Notified
    <3>7. /\ p \in Phases /\ p # "Ready"
          /\ p = "Failed" => Told(N, Current(c), "InProgress")
          /\ p = "Error"  => Told(N, Current(c), "Failed")
      BY <3>3, <3>4, <3>5, <3>6 DEF ObjectTold, Phases
    <3> HIDE DEF N
    <3> QED BY <3>2, <3>7, WriteTold
  <2> QED BY <2>1, <2>2
<1>3. heap' = heap /\ sent' = sent
  BY DEF Save
<1> QED BY <1>1, <1>2, <1>3, HandlerNotices

\* AssignFailed belongs to a waiter, whose notice of progress is out; Announce
\* gives the notice its assignment asks for.
LEMMA AssignNotices ==
  ASSUME Core, Rest, NoticesOK, NEW c \in Clusters, NEW s \in Slots,
         AssignFailed(c, s) \/ Announce(c, s)
  PROVE  NoticesOK'
<1> DEFINE t == tasks[c][s]
           o == t.obj
           V == log[c][heap[c][o].ver]
           N == sent'[c]
           u == [pc |-> "save", obj |-> o, fresh |-> t.fresh, tries |-> t.tries]
           T == [tasks[c] EXCEPT ![s] = u]
<1>1. /\ LocalType(log[c], heap[c], tasks[c]) /\ Local(log[c], heap[c], tasks[c])
      /\ Notified(log[c], heap[c], tasks[c], sent[c])
      /\ o \in 1 .. Len(heap[c]) /\ Told(sent[c], V, "InProgress")
  <2>1. o \in 1 .. Len(heap[c]) /\ TaskTold(log[c], heap[c], sent[c], t)
    BY CoreTypes, OneCluster DEF TaskOK, Notified
  <2>2. t.pc \in WaiterSteps \cup {"announce"}
    BY DEF AssignFailed, Announce, WaiterSteps
  <2> QED BY <2>1, <2>2, OneCluster DEF TaskTold
<1>2. PICK p \in {"Failed", "Error"} :
        /\ heap' = [heap EXCEPT ![c][o].phase = p]
        /\ p = "Failed" => sent' = sent
        /\ p = "Error" => Notify(c, V, "Failed")
  BY DEF AssignFailed, Announce, Origin
<1>3. /\ Notified(log[c], heap[c], tasks[c], N)
      /\ p = "Failed" => Told(N, V, "InProgress")
      /\ p = "Error" => Told(N, V, "Failed")
      /\ \A d \in Clusters \ {c} : sent'[d] = sent[d]
  <2>1. CASE p = "Failed"
    BY <1>1, <1>2, <2>1
  <2>2. CASE p = "Error"
    <3>1. /\ N = sent[c] \cup IF V.url THEN {<<V.gen, "Failed">>} ELSE {}
          /\ \A d \in Clusters \ {c} : sent'[d] = sent[d]
      BY <1>2, <2>2 DEF Notify, Rest
    <3>2. Notified(log[c], heap[c], tasks[c], N) /\ Told(N, V, "Failed")
      <4>1. Notified(log[c], heap[c], tasks[c], sent[c]) /\ Told(sent[c], V, "InProgress")
        BY <1>1
      <4> HIDE DEF N, V, o
      <4> QED BY <3>1, <4>1, NotifiedTell
    <3> QED BY <2>2, <3>1, <3>2
  <2> QED BY <2>1, <2>2
<1> DEFINE H == [heap[c] EXCEPT ![o].phase = p]
<1>4. Notified(log[c], H, tasks[c], N)
  <2> HIDE DEF N, o
  <2> QED BY <1>1, <1>3, NotifiedAssign
<1>5. TaskTold(log[c], H, N, u)
  BY DEF TaskTold, WaiterSteps
<1>6. Notified(log[c], H, T, N)
  <2>1. LocalType(log[c], H, tasks[c])
    <3>1. heap[c] \in Seq(Object) /\ heap[c][o] \in Object /\ p \in Phases
      BY <1>1 DEF LocalType, Phases
    <3>2. [heap[c][o] EXCEPT !.phase = p] \in Object
      BY <3>1 DEF Object
    <3> HIDE DEF o
    <3>3. H \in Seq(Object)
      BY <1>1, <3>1, <3>2
    <3> QED BY <1>1, <3>3 DEF LocalType
  <2> HIDE DEF H, u, N
  <2> QED BY <1>4, <1>5, <2>1, NotifiedTask
<1>7. /\ tasks'[c] = T /\ \A d \in Clusters \ {c} : tasks'[d] = tasks[d]
  BY DEF Core, AssignFailed, Announce, Goto, Move
<1>8. heap'[c] = H /\ \A d \in Clusters \ {c} : heap'[d] = heap[d]
  BY <1>2 DEF Core
<1>9. log' = log
  BY DEF AssignFailed, Announce
<1> HIDE DEF T, H
<1> QED BY <1>3, <1>6, <1>7, <1>8, <1>9, NoticesStep

\* A deleter's notice is about neither progress nor failure, and the version a
\* deletion leaves asks for none.
LEMMA DeleterNotices ==
  ASSUME Core, Rest, NoticesOK, NEW c \in Clusters, NEW s \in Slots,
         DeletePoll(c, s) \/ Remove(c, s)
  PROVE  NoticesOK'
<1> DEFINE t == tasks[c][s]
<1>1. /\ t.tries \in 0 .. MaxTries - 1 /\ MaxTries \in Nat \ {0}
      /\ 1 \in 1 .. Len(log[c]) /\ 0 \in 0 .. MaxTries - 1
      /\ {"delete", "remove"} \subseteq Steps \cap DeleterSteps
  <2>1. t \in Task /\ Len(log[c]) \in Nat \ {0}
    BY CoreTypes
  <2>2. t.tries \in 0 .. MaxTries - 1 /\ MaxTries \in Nat \ {0}
    BY <2>1, ConstantsAssumption DEF Task
  <2>3. {"delete", "remove"} \subseteq Steps \cap DeleterSteps
    BY DEF Steps, DeleterSteps
  <2> QED BY <2>1, <2>2, <2>3
<1>2. heap' = heap
  BY DEF DeletePoll, Remove
<1>3. ASSUME DeletePoll(c, s), Again(c, s, "delete", End(c, s)), UNCHANGED sent PROVE NoticesOK'
  <2>1. \E u \in Task : /\ TaskOK(log[c], heap[c], u) /\ TaskTold(log[c], heap[c], sent[c], u)
                        /\ tasks' = [tasks EXCEPT ![c][s] = u]
    <3>1. CASE t.tries + 1 < MaxTries
      <4>1. Move(c, s, "delete", 1, t.tries + 1) /\ t.tries + 1 \in 0 .. MaxTries - 1
            /\ t.pc \in DeleterSteps
        BY <1>1, <1>3, <3>1 DEF Again, DeletePoll, DeleterSteps
      <4> QED BY <1>1, <4>1, MoveTold
    <3>2. CASE ~(t.tries + 1 < MaxTries)
      BY <1>3, <3>2, EndTold DEF Again
    <3> QED BY <3>1, <3>2
  <2>2. log' = log
    BY <1>3 DEF DeletePoll
  <2> QED BY <1>2, <1>3, <2>1, <2>2, HandlerNotices
<1>4. ASSUME DeletePoll(c, s), Notify(c, Origin(c, t.obj), "Deleted"), Move(c, s, "remove", 1, 0)
      PROVE  NoticesOK'
  <2> DEFINE V == Origin(c, t.obj)
             N == sent'[c]
             u == [pc |-> "remove", obj |-> t.obj, fresh |-> 1, tries |-> 0]
             T == [tasks[c] EXCEPT ![s] = u]
  <2>1. Notified(log[c], heap[c], tasks[c], sent[c]) /\ LocalType(log[c], heap[c], tasks[c])
    BY OneCluster
  <2>2. /\ N = sent[c] \cup IF V.url THEN {<<V.gen, "Deleted">>} ELSE {}
        /\ \A d \in Clusters \ {c} : sent'[d] = sent[d]
    BY <1>4 DEF Notify, Rest
  <2>3. Notified(log[c], heap[c], tasks[c], N)
    <3> DEFINE k == "Deleted"
    <3>1. k # "Failed" /\ N = sent[c] \cup IF V.url THEN {<<V.gen, k>>} ELSE {}
      BY <2>2
    <3> HIDE DEF N, V, k
    <3> QED BY <2>1, <3>1, NotifiedTell
  <2>4. TaskTold(log[c], heap[c], N, u)
    BY DEF TaskTold, WaiterSteps
  <2>5. Notified(log[c], heap[c], T, N)
    <3> HIDE DEF u, N
    <3> QED BY <2>1, <2>3, <2>4, NotifiedTask
  <2>6. tasks'[c] = T /\ \A d \in Clusters \ {c} : tasks'[d] = tasks[d]
    BY <1>4 DEF Core, Move
  <2>7. log' = log
    BY <1>4 DEF DeletePoll
  <2> HIDE DEF T, u
  <2> QED BY <1>2, <2>2, <2>5, <2>6, <2>7, NoticesStep
<1>5. ASSUME Remove(c, s) PROVE NoticesOK'
  <2> DEFINE N == sent[c]
  <2>1. \E u \in Task : /\ TaskOK(log[c], heap[c], u) /\ TaskTold(log[c], heap[c], N, u)
                        /\ tasks' = [tasks EXCEPT ![c][s] = u]
    BY <1>5, EndTold DEF Remove
  <2>2. \/ log' = log
        \/ \E v \in Version : VersionTold(N, v) /\ log' = [log EXCEPT ![c] = Append(log[c], v)]
    <3>1. log' = log \/ Write(c, "Gone")
      BY <1>5 DEF Remove
    <3>2. "Gone" \in Phases
      BY DEF Phases
    <3> HIDE DEF N
    <3> QED BY <3>1, <3>2, WriteTold
  <2>3. sent' = sent
    BY <1>5 DEF Remove
  <2> QED BY <1>2, <2>1, <2>2, <2>3, HandlerNotices
<1> QED BY <1>3, <1>4, <1>5 DEF DeletePoll

\* After a restart the store holds the current versions, and nobody is at work.
LEMMA RestartNotices ==
  ASSUME Core, Rest, NoticesOK, Restart
  PROVE  NoticesOK'
<1> SUFFICES ASSUME NEW c \in Clusters
             PROVE  Notified(log'[c], heap'[c], tasks'[c], sent'[c])
  BY DEF NoticesOK
<1> DEFINE x == [phase |-> Current(c).phase, ver |-> Latest(c)]
<1>1. log' = log /\ sent' = sent /\ heap'[c] = <<x>> /\ tasks'[c] = [s \in Slots |-> Idle]
  BY DEF Restart, NoTasks
<1>2. Notified(log[c], heap[c], tasks[c], sent[c]) /\ Latest(c) \in 1 .. Len(log[c])
  BY OneCluster, CoreTypes
<1>3. Len(<<x>>) = 1 /\ <<x>>[1] = x /\ x.ver = Latest(c) /\ x.phase = log[c][Latest(c)].phase
  BY DEF Current
<1> HIDE DEF x
<1>4. ObjectTold(log[c], sent[c], x)
  BY <1>2, <1>3 DEF Notified, VersionTold, ObjectTold
<1>5. \A o \in 1 .. Len(<<x>>) : ObjectTold(log[c], sent[c], <<x>>[o])
  BY <1>3, <1>4
<1>6. TaskTold(log[c], <<x>>, sent[c], Idle)
  BY DEF TaskTold, Idle, WaiterSteps
<1> QED BY <1>1, <1>2, <1>5, <1>6 DEF Notified

-----------------------------------------------------------------------------
(* The theorems *)

\* At first nothing is recorded, and nobody is told anything.
LEMMA InitNotices == Init => NoticesOK
<1> SUFFICES ASSUME Init, NEW c \in Clusters
             PROVE  Notified(log[c], heap[c], tasks[c], sent[c])
  BY DEF NoticesOK
<1> DEFINE v == [phase |-> "Gone", url |-> FALSE, gen |-> 0]
           x == [phase |-> "Gone", ver |-> 1]
<1>1. log[c] = <<v>> /\ heap[c] = <<x>> /\ tasks[c] = [s \in Slots |-> Idle] /\ sent[c] = {}
  BY DEF Init, NoTasks
<1>2. VersionTold({}, v) /\ ObjectTold(<<v>>, {}, x) /\ TaskTold(<<v>>, <<x>>, {}, Idle)
  BY DEF VersionTold, ObjectTold, TaskTold, Idle, WaiterSteps
<1> HIDE DEF v, x
<1>3. \A i \in 1 .. Len(<<v>>) : VersionTold({}, <<v>>[i])
  BY <1>2
<1>4. \A o \in 1 .. Len(<<x>>) : ObjectTold(<<v>>, {}, <<x>>[o])
  BY <1>2
<1> QED BY <1>1, <1>2, <1>3, <1>4 DEF Notified, Followed

\* Every step keeps track of the notices.
LEMMA NextNotices == Core /\ Rest /\ NoticesOK /\ [Next]_vars => NoticesOK'
<1> SUFFICES ASSUME Core, Rest, NoticesOK, [Next]_vars PROVE NoticesOK'
  OBVIOUS
<1>1. ASSUME NEW c \in Clusters, Client(c) PROVE NoticesOK'
  BY <1>1, ClientNotices
<1>2. ASSUME NEW c \in Clusters, Deliver(c) \/ Relist(c) PROVE NoticesOK'
  BY <1>2, InformerNotices
<1>3. ASSUME NEW w \in Workers, GetItem(w) \/ FinishItem(w) PROVE NoticesOK'
  BY <1>3 DEF GetItem, FinishItem, NoticesOK
<1>4. ASSUME NEW w \in Workers, ProcessItem(w) PROVE NoticesOK'
  BY <1>4, ProcessItemNotices
<1>5. ASSUME NEW c \in Clusters, NEW s \in Slots, Handle(c, s) PROVE NoticesOK'
  BY <1>5, PollNotices, InstallNotices, SaveReadyNotices, AssignNotices, SaveNotices,
     DeleterNotices DEF Handle
<1>6. CASE Restart
  BY <1>6, RestartNotices
<1>7. CASE UNCHANGED vars
  BY <1>7 DEF vars, NoticesOK
<1> QED BY <1>1, <1>2, <1>3, <1>4, <1>5, <1>6, <1>7 DEF Next

\* In every behaviour, what a version, an object or a handler stands for has been
\* announced.
LEMMA NoticesInvariant == Spec => [](Core /\ Rest /\ NoticesOK)
<1>1. Init => Core /\ Rest /\ NoticesOK
  BY InitInvariant, InitNotices
<1>2. Core /\ Rest /\ NoticesOK /\ [Next]_vars => (Core /\ Rest /\ NoticesOK)'
  BY NextInvariant, NextNotices
<1> QED BY <1>1, <1>2, PTL DEF Spec

\* handleFailedCluster and handleClusterReady announce before they record: a
\* resource is stored as Error only after its Failed notice, as Ready only after
\* its Completed notice, was handed out for the same incarnation, however many
\* handlers share its objects and however they interleave.
THEOREM AnnouncedFirst == Spec => []RecordedWasAnnounced
<1>1. Core /\ Rest /\ NoticesOK => RecordedWasAnnounced
  <2> SUFFICES ASSUME Core, Rest, NoticesOK, NEW c \in Clusters
               PROVE  VersionTold(sent[c], Current(c))
    BY DEF RecordedWasAnnounced, VersionTold, Told
  <2> QED BY OneCluster, CoreTypes DEF Notified, Current
<1> QED BY <1>1, NoticesInvariant, PTL

\* No client hears that its cluster failed before it heard, of the same
\* incarnation, that it was in progress: what handleFailedCluster finds Failed,
\* a waitForClusterReady has assigned or stored.
THEOREM ProgressFirst == Spec => []FailureFollowsProgress
<1>1. NoticesOK => FailureFollowsProgress
  BY DEF NoticesOK, Notified, Followed, FailureFollowsProgress
<1> QED BY <1>1, NoticesInvariant, PTL

\* What the server has had it keeps: logs only become longer.
LEMMA LogsGrow ==
  ASSUME Core, [Next]_vars, NEW c \in Clusters
  PROVE  Latest(c) <= Latest(c)' /\ \A i \in 1 .. Latest(c) : log'[c][i] = log[c][i]
<1>1. log[c] \in Seq(Version) /\ Latest(c) \in Nat
  BY DEF Core, Latest
<1>2. CASE log' = log
  BY <1>1, <1>2 DEF Latest
<1>3. ASSUME NEW d \in Clusters, NEW v, log' = [log EXCEPT ![d] = Append(@, v)]
      PROVE  Latest(c) <= Latest(c)' /\ \A i \in 1 .. Latest(c) : log'[c][i] = log[c][i]
  <2>1. log'[c] = IF c = d THEN Append(log[c], v) ELSE log[c]
    BY <1>3 DEF Core
  <2>2. CASE c # d
    BY <1>1, <2>1, <2>2 DEF Latest
  <2>3. CASE c = d
    <3>1. /\ Len(Append(log[c], v)) = Len(log[c]) + 1
          /\ \A i \in 1 .. Len(log[c]) : Append(log[c], v)[i] = log[c][i]
      BY <1>1
    <3> QED BY <1>1, <2>1, <2>3, <3>1 DEF Latest
  <2> QED BY <2>2, <2>3
<1>4. ASSUME NEW d \in Clusters, NEW p \in Phases, Write(d, p)
      PROVE  Latest(c) <= Latest(c)' /\ \A i \in 1 .. Latest(c) : log'[c][i] = log[c][i]
  BY <1>3, <1>4 DEF Write
<1>5. ASSUME NEW d \in Clusters, Client(d)
      PROVE  Latest(c) <= Latest(c)' /\ \A i \in 1 .. Latest(c) : log'[c][i] = log[c][i]
  BY <1>3, <1>4, <1>5 DEF Client, Create, Request, Withdraw, Phases
<1>6. ASSUME NEW d \in Clusters, NEW s \in Slots, SaveReady(d, s) \/ Remove(d, s)
      PROVE  Latest(c) <= Latest(c)' /\ \A i \in 1 .. Latest(c) : log'[c][i] = log[c][i]
  BY <1>2, <1>4, <1>6 DEF SaveReady, Remove, Phases
<1>7. ASSUME NEW d \in Clusters, NEW s \in Slots, Save(d, s), log' # log
      PROVE  Latest(c) <= Latest(c)' /\ \A i \in 1 .. Latest(c) : log'[c][i] = log[c][i]
  <2>1. PICK p : Write(d, p)
    BY <1>7 DEF Save
  <2> QED BY <1>3, <2>1 DEF Write
<1>8. CASE /\ ~\E d \in Clusters : Client(d)
           /\ ~\E d \in Clusters, s \in Slots : SaveReady(d, s) \/ Remove(d, s) \/ Save(d, s)
  <2>1. log' = log
    <3>1. ASSUME NEW d \in Clusters, Deliver(d) \/ Relist(d) PROVE log' = log
      BY <3>1 DEF Deliver, Relist
    <3>2. ASSUME NEW w \in Workers, GetItem(w) \/ ProcessItem(w) \/ FinishItem(w)
          PROVE  log' = log
      <4>1. CASE GetItem(w) \/ FinishItem(w)
        BY <4>1 DEF GetItem, FinishItem
      <4>2. CASE ProcessItem(w)
        BY <4>2 DEF ProcessItem
      <4> QED BY <3>2, <4>1, <4>2
    <3>3. ASSUME NEW d \in Clusters, NEW s \in Slots, Handle(d, s),
                 ~(SaveReady(d, s) \/ Remove(d, s) \/ Save(d, s))
          PROVE  log' = log
      BY <3>3 DEF Handle, WaitPoll, ReadFresh, Install, AssignFailed, Announce, DeletePoll
    <3>4. CASE Restart \/ UNCHANGED vars
      BY <3>4 DEF Restart, vars
    <3> QED BY <1>8, <3>1, <3>2, <3>3, <3>4 DEF Next
  <2> QED BY <1>2, <2>1
<1> QED BY <1>2, <1>5, <1>6, <1>7, <1>8

\* A notice of a deletion that goes out is about a version that is Deleting.
LEMMA DeletedNotice ==
  ASSUME Core, Rest, [Next]_vars, NEW c \in Clusters, NEW n \in sent'[c] \ sent[c],
         n[2] = "Deleted"
  PROVE  \E i \in 1 .. Latest(c) : log[c][i].gen = n[1] /\ log[c][i].phase = "Deleting"
<1>1. ASSUME NEW d \in Clusters, NEW v, NEW kind, Notify(d, v, kind)
      PROVE  d = c /\ n = <<v.gen, kind>>
  BY <1>1 DEF Notify, Rest
<1>2. ASSUME NEW d \in Clusters, NEW v, NEW kind, Notify(d, v, kind)
      PROVE  d = c /\ kind = "Deleted" /\ n[1] = v.gen
  BY <1>1, <1>2
<1>3. PICK s \in Slots : DeletePoll(c, s) /\ Notify(c, Origin(c, tasks[c][s].obj), "Deleted")
  <2>1. sent' # sent
    OBVIOUS
  <2>2. ~\E w \in Workers : ProcessItem(w)
    <3> SUFFICES ASSUME NEW w \in Workers, ProcessItem(w) PROVE FALSE
      OBVIOUS
    <3>1. working[w].key \in Clusters
      BY HeldKey DEF ProcessItem
    <3>2. Notify(working[w].key, Origin(working[w].key, Stored(working[w].key)), "InProgress")
      BY <2>1 DEF ProcessItem
    <3> QED BY <1>2, <3>1, <3>2
  <2>3. PICK d \in Clusters, s \in Slots : Handle(d, s)
    BY <2>1, <2>2 DEF Next, vars, Client, Create, Request, Withdraw, Deliver, Relist, GetItem,
                      FinishItem, Restart
  <2>4. DeletePoll(d, s) /\ Notify(d, Origin(d, tasks[d][s].obj), "Deleted")
    <3>1. ~Install(d, s)
      BY <1>2 DEF Install
    <3>2. ~Announce(d, s)
      BY <1>2 DEF Announce
    <3>3. DeletePoll(d, s)
      BY <2>1, <2>3, <3>1, <3>2 DEF Handle, WaitPoll, ReadFresh, SaveReady, AssignFailed, Save, Remove
    <3> QED BY <2>1, <3>3 DEF DeletePoll
  <2>5. d = c
    BY <1>2, <2>4
  <2> QED BY <2>4, <2>5
<1> DEFINE i == heap[c][tasks[c][s].obj].ver
<1>4. TaskOK(log[c], heap[c], tasks[c][s]) /\ tasks[c][s].pc = "delete"
  BY <1>3, CoreTypes DEF DeletePoll
<1>5. log[c][i].phase = "Deleting" /\ tasks[c][s].obj \in 1 .. Len(heap[c])
  BY <1>4 DEF TaskOK
<1>6. i \in 1 .. Latest(c)
  BY <1>5, CoreTypes DEF ObjectOK, Latest
<1>7. n[1] = log[c][i].gen
  BY <1>2, <1>3 DEF Origin
<1> HIDE DEF i
<1> QED BY <1>5, <1>6, <1>7

\* No client hears that its cluster was deleted unless the deletion of that very
\* incarnation was asked for, however deleters, clients that create the name anew,
\* relists and restarts interleave.
THEOREM DeletionAskedFor == Spec => []DeletedWasAskedFor
<1>1. Init => DeletedWasAskedFor
  BY DEF Init, DeletedWasAskedFor
<1>2. Core /\ Rest /\ DeletedWasAskedFor /\ [Next]_vars => DeletedWasAskedFor'
  <2> SUFFICES ASSUME Core, Rest, DeletedWasAskedFor, [Next]_vars,
                      NEW c \in Clusters, NEW n \in sent'[c], n[2] = "Deleted"
               PROVE  \E i \in 1 .. Latest(c)' :
                        log'[c][i].gen = n[1] /\ log'[c][i].phase = "Deleting"
    BY DEF DeletedWasAskedFor
  <2>1. PICK i \in 1 .. Latest(c) : log[c][i].gen = n[1] /\ log[c][i].phase = "Deleting"
    <3>1. CASE n \in sent[c]
      BY <3>1 DEF DeletedWasAskedFor
    <3>2. CASE n \notin sent[c]
      BY <3>2, DeletedNotice
    <3> QED BY <3>1, <3>2
  <2>2. Latest(c) <= Latest(c)' /\ log'[c][i] = log[c][i]
    BY <2>1, LogsGrow
  <2>3. Latest(c) \in Nat /\ Latest(c)' \in Nat
    BY <2>2 DEF Core, Latest
  <2>4. i \in 1 .. Latest(c)'
    BY <2>1, <2>2, <2>3
  <2> QED BY <2>1, <2>2, <2>4
<1> QED BY <1>1, <1>2, NoticesInvariant, PTL DEF Spec
=============================================================================
