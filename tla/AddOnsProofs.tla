----------------------------- MODULE AddOnsProofs -----------------------------
(***************************************************************************)
(* Theorems about the SDSPackageManager and SDSApplication controllers,    *)
(* for any package managers and applications, however they share jobs, any *)
(* number of workers, polls, client writes and stops, whatever the         *)
(* kubeconfigs are, and whether or not the API servers fail.               *)
(*                                                                         *)
(* TypeOK and IndInv are proved together.  IndInv has a part for each      *)
(* add-on and a part for each worker; all of it is stable when logs and    *)
(* notices grow and jobs succeed (Growth), so an action only has to        *)
(* account for the one add-on and the one worker it changes.               *)
(***************************************************************************)
EXTENDS AddOns, WorkQueueProofs, FiniteSetTheorems

\* What a version of r says is true.
VersionOK(r, i) ==
  /\ log[r][i].phase = "Installing"  => Announced(r, log[r][i].gen)
  /\ log[r][i].phase = "Implemented" => Succeeded(r)

\* The phase an object may show whose version has phase p: workers assign it.
MayShow(p) == CASE p = "Pending"    -> {"Pending", "Installing", "Implemented"}
                [] p = "Installing" -> {"Installing", "Implemented"}
                [] OTHER            -> {p}

StoreOK(r) ==
  LET v == log[r][store[r].ver]
  IN  /\ store[r].ver <= Latest(r)
      /\ store[r].phase \in MayShow(v.phase)
      /\ store[r].phase = "Installing" => Announced(r, v.gen)

AddOnOK(r) ==
  /\ Latest(r) > 0
  /\ \A i \in 1 .. Latest(r) : VersionOK(r, i)
  /\ StoreOK(r)
  /\ \A g \in Gens : <<g, "Completed">> \in told[r] => Announced(r, g) /\ Succeeded(r)
  /\ r \in Applications /\ managed[JobOf[r]] # "none" => Succeeded(Needs[r])

Deploying == {"gate", "config", "prepare", "create", "announce", "saveInstalling"}
Waiting   == {"find", "poll", "saveImplemented"}

WorkerOK(w) ==
  LET x == work[w]
      r == x.key
      v == log[r][x.ver]
  IN  /\ x.pc = "idle" <=> r = NoKey
      /\ x.pc \in Deploying \cup Waiting => x.ver <= Latest(r)
      /\ x.pc \in Deploying => v.phase = "Pending"
      /\ x.pc \in Waiting => v.phase \in {"Pending", "Installing"}
      /\ x.pc \in Waiting \cup {"saveInstalling"} => Announced(r, v.gen)
      /\ x.pc = "saveImplemented" => Succeeded(r)
      /\ x.pc \in {"config", "prepare", "create"} /\ r \in Applications => Succeeded(Needs[r])

IndInv ==
  /\ \A r \in AddOnSet : AddOnOK(r)
  /\ \A w \in Workers : WorkerOK(w)

\* A step after which logs have only become longer, notices more, and successes
\* have stayed successes.
Growth ==
  \A r \in AddOnSet :
    /\ Latest(r) <= Latest(r)'
    /\ \A i \in 1 .. Latest(r) : log'[r][i] = log[r][i]
    /\ told[r] \subseteq told'[r]
    /\ Succeeded(r) => Succeeded(r)'

-----------------------------------------------------------------------------
(* What growth leaves true *)

\* What was announced, or could be deployed with no URL to announce it to, stays so.
LEMMA AnnouncedKept ==
  ASSUME TypeOK, Growth, NEW r \in AddOnSet, NEW g, Announced(r, g)
  PROVE  Announced(r, g)'
<1>1. CASE <<g, "InProgress">> \in told[r]
  BY <1>1 DEF Growth, Announced
<1>2. ASSUME NEW i \in 1 .. Latest(r),
             log[r][i] = [phase |-> "Pending", gen |-> g, url |-> FALSE]
      PROVE  Announced(r, g)'
  <2>1. Latest(r) \in Nat /\ Latest(r)' \in Nat
    BY DEF Latest
  <2>2. log'[r][i] = log[r][i] /\ Latest(r) <= Latest(r)'
    BY DEF Growth
  <2>3. i \in 1 .. Latest(r)'
    BY <2>1, <2>2
  <2> QED BY <1>2, <2>2, <2>3 DEF Announced
<1> QED BY <1>1, <1>2 DEF Announced

\* The sets a proof may rely on: a key that is not NoKey is an add-on's.
LEMMA WorkTypes ==
  ASSUME TypeOK, IndInv, NEW w \in Workers
  PROVE  /\ work[w] \in Work /\ WorkerOK(w)
         /\ work[w].pc # "idle" => work[w].key \in AddOnSet /\ work[w].key # NoKey
         /\ work[w].pc \in Deploying \cup Waiting =>
              /\ work[w].ver \in 1 .. Latest(work[w].key)
              /\ log[work[w].key][work[w].ver] \in Version
              /\ GenOf(w) \in Gens
<1>1. work[w] \in Work /\ WorkerOK(w)
  BY DEF TypeOK, IndInv
<1>2. work[w].pc # "idle" => work[w].key \in AddOnSet /\ work[w].key # NoKey
  BY <1>1 DEF WorkerOK, Work
<1>3. ASSUME work[w].pc \in Deploying \cup Waiting
      PROVE  /\ work[w].ver \in 1 .. Latest(work[w].key)
             /\ log[work[w].key][work[w].ver] \in Version
             /\ GenOf(w) \in Gens
  <2>1. work[w].key \in AddOnSet /\ work[w].ver \in Nat \ {0}
    BY <1>1, <1>2, <1>3 DEF Work, Deploying, Waiting
  <2>2. log[work[w].key] \in Seq(Version)
    BY <2>1 DEF TypeOK
  <2>3. work[w].ver \in 1 .. Latest(work[w].key)
    BY <1>1, <1>3, <2>1, <2>2 DEF WorkerOK, Latest
  <2>4. log[work[w].key][work[w].ver] \in Version
    BY <2>2, <2>3 DEF Latest
  <2> QED BY <2>3, <2>4 DEF GenOf, Version
<1> QED BY <1>1, <1>2, <1>3

\* A worker that does nothing is still right after growth.
LEMMA WorkerKept ==
  ASSUME TypeOK, IndInv, Growth, NEW w \in Workers, work'[w] = work[w]
  PROVE  WorkerOK(w)'
<1> DEFINE r == work[w].key
           n == work[w].ver
<1>1. /\ WorkerOK(w)
      /\ work[w].pc # "idle" => r \in AddOnSet /\ r # NoKey
      /\ work[w].pc \in Deploying \cup Waiting => n \in 1 .. Latest(r)
  BY WorkTypes
<1>2. CASE work[w].pc \notin Deploying \cup Waiting
  BY <1>1, <1>2 DEF WorkerOK, Deploying, Waiting
<1>3. CASE work[w].pc \in Deploying \cup Waiting
  <2>1. r \in AddOnSet /\ r # NoKey /\ n \in 1 .. Latest(r) /\ work[w].pc # "idle"
    BY <1>1, <1>3 DEF Deploying, Waiting
  <2>2. /\ n <= Latest(r)' /\ log'[r][n] = log[r][n] /\ told[r] \subseteq told'[r]
        /\ Succeeded(r) => Succeeded(r)'
        /\ r \in Applications => (Succeeded(Needs[r]) => Succeeded(Needs[r])')
    <3>1. Latest(r) \in Nat /\ Latest(r)' \in Nat /\ Latest(r) <= Latest(r)'
      BY <2>1 DEF Growth, TypeOK, Latest
    <3> QED BY <2>1, <3>1, AddOnAssumption DEF Growth, AddOnSet
  <2>3. PICK k \in AddOnSet : k = r
    BY <2>1
  <2>4. PICK g : g = log[k][n].gen
    OBVIOUS
  <2>5. Announced(k, g) => Announced(k, g)'
    BY AnnouncedKept
  <2> HIDE DEF r, n
  <2> QED BY <1>1, <2>1, <2>2, <2>3, <2>4, <2>5 DEF WorkerOK, r, n
<1> QED BY <1>2, <1>3

\* The object in the store is still right after growth, unless it is replaced.
LEMMA StoreKept ==
  ASSUME TypeOK, IndInv, Growth, NEW r \in AddOnSet, store'[r] = store[r]
  PROVE  StoreOK(r)'
<1>1. StoreOK(r) /\ store[r] \in [phase : Phases, ver : Nat \ {0}] /\ Latest(r) \in Nat
  BY DEF TypeOK, IndInv, AddOnOK, Latest
<1>2. store[r].ver \in 1 .. Latest(r)
  BY <1>1 DEF StoreOK
<1>3. /\ log'[r][store[r].ver] = log[r][store[r].ver]
      /\ Latest(r) <= Latest(r)' /\ Latest(r)' \in Nat
  BY <1>2 DEF Growth, Latest, TypeOK
<1>4. PICK g : g = log[r][store[r].ver].gen
  OBVIOUS
<1>5. Announced(r, g) => Announced(r, g)'
  BY AnnouncedKept
<1> QED BY <1>1, <1>2, <1>3, <1>4, <1>5 DEF StoreOK

\* An add-on is still right after growth, if its new versions, its object in the
\* store, a new notice and a new job are.
LEMMA AddOnKept ==
  ASSUME TypeOK, IndInv, Growth, NEW r \in AddOnSet,
         \A i \in 1 .. Latest(r)' : i > Latest(r) => VersionOK(r, i)',
         StoreOK(r)',
         \A g \in Gens : <<g, "Completed">> \in told'[r] /\ <<g, "Completed">> \notin told[r] =>
                       Announced(r, g)' /\ Succeeded(r)',
         r \in Applications /\ managed'[JobOf[r]] # "none" =>
           managed[JobOf[r]] # "none" \/ Succeeded(Needs[r])
  PROVE  AddOnOK(r)'
<1>1. /\ AddOnOK(r) /\ Latest(r) \in Nat
      /\ Latest(r) <= Latest(r)' /\ told[r] \subseteq told'[r] /\ (Succeeded(r) => Succeeded(r)')
      /\ \A i \in 1 .. Latest(r) : log'[r][i] = log[r][i]
  BY DEF TypeOK, IndInv, Growth, Latest
<1>2. Latest(r)' \in Nat
  BY DEF Latest
<1>3. Latest(r)' > 0
  BY <1>1, <1>2 DEF AddOnOK
<1>4. ASSUME NEW i \in 1 .. Latest(r)' PROVE VersionOK(r, i)'
  <2>1. CASE i > Latest(r) BY <2>1
  <2>2. CASE ~(i > Latest(r))
    <3>1. i \in 1 .. Latest(r)
      BY <1>1, <1>2, <2>2
    <3>2. VersionOK(r, i) /\ log'[r][i] = log[r][i]
      BY <1>1, <3>1 DEF AddOnOK
    <3>3. PICK g : g = log[r][i].gen
      OBVIOUS
    <3>4. Announced(r, g) => Announced(r, g)'
      BY AnnouncedKept
    <3> QED BY <1>1, <3>2, <3>3, <3>4 DEF VersionOK
  <2> QED BY <2>1, <2>2
<1>5. ASSUME NEW g \in Gens, <<g, "Completed">> \in told'[r]
      PROVE  Announced(r, g)' /\ Succeeded(r)'
  BY <1>1, <1>5, AnnouncedKept DEF AddOnOK
<1>6. ASSUME r \in Applications, managed'[JobOf[r]] # "none" PROVE Succeeded(Needs[r])'
  <2>1. Succeeded(Needs[r])
    BY <1>1, <1>6 DEF AddOnOK
  <2> QED BY <1>6, <2>1, AddOnAssumption DEF Growth, AddOnSet
<1> QED BY <1>3, <1>4, <1>5, <1>6 DEF AddOnOK

\* A step that touches neither logs nor notices nor jobs leaves the add-ons right
\* whose objects it leaves right, and the workers it does not move.
LEMMA Quiet ==
  ASSUME TypeOK, IndInv, UNCHANGED <<log, managed, told>>,
         \A r \in AddOnSet : StoreOK(r)',
         \A w \in Workers : work'[w] = work[w] \/ WorkerOK(w)'
  PROVE  IndInv'
<1>1. Growth
  BY DEF Growth, TypeOK, Latest, Succeeded
<1>2. ASSUME NEW r \in AddOnSet PROVE AddOnOK(r)'
  <2>1. Latest(r)' = Latest(r) /\ Latest(r) \in Nat /\ AddOnOK(r)
    BY DEF Latest, TypeOK, IndInv
  <2>2. \A i \in 1 .. Latest(r)' : ~(i > Latest(r))
    BY <2>1
  <2> QED BY <1>1, <2>2, AddOnKept
<1>3. ASSUME NEW w \in Workers PROVE WorkerOK(w)'
  BY <1>1, WorkerKept
<1> QED BY <1>2, <1>3 DEF IndInv

\* The objects of a step that leaves store and logs alone.
LEMMA StoresKept ==
  ASSUME TypeOK, IndInv, UNCHANGED <<log, managed, told, store>>
  PROVE  \A r \in AddOnSet : StoreOK(r)'
<1>1. Growth
  BY DEF Growth, TypeOK, Latest, Succeeded
<1> QED BY <1>1, StoreKept

\* One more version of one add-on is growth.
LEMMA OneVersion ==
  ASSUME TypeOK, IndInv, NEW r \in AddOnSet, NEW v \in Version,
         log' = [log EXCEPT ![r] = Append(@, v)], UNCHANGED managed,
         \A q \in AddOnSet : told[q] \subseteq told'[q]
  PROVE  /\ Growth
         /\ log' \in [AddOnSet -> Seq(Version)]
         /\ Latest(r)' = Latest(r) + 1 /\ log'[r][Latest(r) + 1] = v
         /\ \A q \in AddOnSet : q # r => log'[q] = log[q]
<1>1. /\ \A q \in AddOnSet : log[q] \in Seq(Version) /\ Latest(q) \in Nat
      /\ log'[r] = Append(log[r], v)
      /\ \A q \in AddOnSet : q # r => log'[q] = log[q]
  BY DEF TypeOK, Latest
<1>2. /\ Latest(r)' = Latest(r) + 1 /\ log'[r][Latest(r) + 1] = v
      /\ \A i \in 1 .. Latest(r) : log'[r][i] = log[r][i]
      /\ log'[r] \in Seq(Version)
  BY <1>1 DEF Latest
<1>3. log' \in [AddOnSet -> Seq(Version)]
  BY <1>1, <1>2 DEF TypeOK
<1>4. Growth
  BY <1>1, <1>2 DEF Growth, Latest, Succeeded
<1> QED BY <1>1, <1>2, <1>3, <1>4

-----------------------------------------------------------------------------
(* The moves of workers and queues that actions are made of *)

Others(w) == \A v \in Workers : v # w => work'[v] = work[v]

\* The types of what a worker and the queues hold.
Busy == work \in [Workers -> Work] /\ queue \in [Kinds -> QueueOf(AddOnSet)]

\* A worker with nothing to do.
LEMMA FreeOK ==
  /\ Free \in Work
  /\ \A w \in Workers : work[w] = Free => WorkerOK(w)
<1>1. Free \in Work
  BY AddOnAssumption DEF Free, Work, Steps
<1>2. ASSUME NEW w \in Workers, work[w] = Free PROVE WorkerOK(w)
  BY <1>2 DEF WorkerOK, Free, Deploying, Waiting
<1> QED BY <1>1, <1>2

\* Every add-on and every worker belongs to one controller.
LEMMA KindTypes ==
  /\ \A r \in AddOnSet : Kind(r) \in Kinds
  /\ \A w \in Workers : KindOf(w) \in Kinds
BY DEF Kind, KindOf, Kinds

LEMMA AddKeyMoves ==
  ASSUME TypeOK, NEW r \in AddOnSet, AddKey(r), UNCHANGED work
  PROVE  Busy'
<1>1. Kind(r) \in Kinds
  BY KindTypes
<1>2. Enqueue(queue[Kind(r)], r) \in QueueOf(AddOnSet)
  BY <1>1, EnqueueType DEF TypeOK
<1> QED BY <1>1, <1>2 DEF AddKey, TypeOK, Busy

LEMMA GotoMoves ==
  ASSUME TypeOK, NEW w \in Workers, NEW pc \in Steps, Goto(w, pc)
  PROVE  Busy' /\ Others(w) /\ work'[w] = [work[w] EXCEPT !.pc = pc]
<1>1. work[w] \in Work /\ work' = [work EXCEPT ![w].pc = pc] /\ queue' = queue
  BY DEF TypeOK, Goto
<1>2. [work[w] EXCEPT !.pc = pc] \in Work
  BY <1>1 DEF Work
<1> QED BY <1>1, <1>2 DEF TypeOK, Busy, Others

LEMMA ReturnMoves ==
  ASSUME TypeOK, IndInv, NEW w \in Workers, work[w].pc # "idle", Return(w)
  PROVE  Busy' /\ Others(w) /\ work'[w] = Free /\ WorkerOK(w)'
<1>1. work' = [work EXCEPT ![w] = Free] /\ work \in [Workers -> Work]
  BY DEF TypeOK, Return
<1>2. work'[w] = Free /\ Others(w) /\ work' \in [Workers -> Work]
  BY <1>1, FreeOK DEF Others
<1>3. work[w].key \in AddOnSet /\ KindOf(w) \in Kinds
  BY WorkTypes, KindTypes
<1>4. Finish(queue[KindOf(w)], work[w].key) \in QueueOf(AddOnSet)
  BY <1>3, FinishType DEF TypeOK
<1>5. queue' \in [Kinds -> QueueOf(AddOnSet)]
  BY <1>3, <1>4 DEF Return, TypeOK
<1>6. WorkerOK(w)'
  BY <1>2 DEF WorkerOK, Free, Deploying, Waiting
<1> QED BY <1>2, <1>5, <1>6 DEF Busy

\* The queue right after a start is a queue of the keys that were added.
LEMMA OrderTypes ==
  ASSUME NEW K, IsFiniteSet(K), NEW s \in Orders(K)
  PROVE  FilledQueue(s) \in QueueOf(K) /\ WellFormed(FilledQueue(s))
<1> DEFINE n == Cardinality(K)
<1>1. n \in Nat
  BY FS_CardinalityType
<1>2. s \in [1 .. n -> K] /\ \A i, j \in DOMAIN s : s[i] = s[j] => i = j
  BY DEF Orders
<1> HIDE DEF n
<1>3. s \in Seq(K) /\ {s[i] : i \in DOMAIN s} \subseteq K
  BY <1>1, <1>2
<1> QED BY <1>2, <1>3 DEF FilledQueue, QueueOf, WellFormed

LEMMA StartedMoves ==
  ASSUME TypeOK, IndInv, Started, UNCHANGED <<log, told>>
  PROVE  /\ Busy' /\ \A w \in Workers : work'[w] = Free /\ WorkerOK(w)'
         /\ store' \in [AddOnSet -> [phase : Phases, ver : Nat \ {0}]]
         /\ \A r \in AddOnSet : StoreOK(r)'
<1>1. work' = [w \in Workers |-> Free]
      /\ store' = [r \in AddOnSet |-> [phase |-> Current(r).phase, ver |-> Latest(r)]]
  BY DEF Started
<1>2. ASSUME NEW w \in Workers PROVE work'[w] = Free /\ WorkerOK(w)'
  BY <1>1 DEF WorkerOK, Free, Deploying, Waiting
<1>3. work' \in [Workers -> Work]
  BY <1>1, FreeOK
<1>4. ASSUME NEW r \in AddOnSet
      PROVE  Current(r) \in Version /\ Latest(r) \in Nat \ {0} /\ AddOnOK(r)
  <2>1. log[r] \in Seq(Version) /\ AddOnOK(r)
    BY DEF TypeOK, IndInv
  <2> QED BY <2>1 DEF AddOnOK, Latest, Current
<1>5. store' \in [AddOnSet -> [phase : Phases, ver : Nat \ {0}]]
  BY <1>1, <1>4 DEF Version
<1>6. ASSUME NEW r \in AddOnSet PROVE StoreOK(r)'
  <2>1. store'[r] = [phase |-> Current(r).phase, ver |-> Latest(r)]
    BY <1>1
  <2>2. VersionOK(r, Latest(r)) /\ Current(r).phase \in Phases
    BY <1>4 DEF AddOnOK, Version
  <2>3. \A g : Announced(r, g) => Announced(r, g)'
    BY DEF Announced, Latest
  <2>4. PICK p, n, g : p = Current(r).phase /\ n = Latest(r) /\ g = Current(r).gen
    OBVIOUS
  <2>5. (log[r][n].gen)' = g /\ (log[r][n].phase)' = p /\ Latest(r)' = n /\ n \in Nat
    BY <1>4, <2>4 DEF Current, Latest
  <2>6. p = "Installing" => Announced(r, g)
    BY <2>2, <2>4 DEF VersionOK, Current
  <2>7. p \in MayShow(p)
    BY DEF MayShow
  <2> QED BY <2>1, <2>3, <2>4, <2>5, <2>6, <2>7 DEF StoreOK
<1>7. ASSUME NEW k \in Kinds PROVE queue'[k] \in QueueOf(AddOnSet)
  <2> DEFINE S == {r \in AddOnSet : Live(r) /\ Kind(r) = k}
  <2>1. PICK keys \in Orders(S) : queue'[k] = FilledQueue(keys)
    BY <1>7 DEF Started
  <2>2. IsFiniteSet(S)
    BY AddOnAssumption, FS_Subset
  <2>3. FilledQueue(keys) \in QueueOf(S)
    BY <2>2, OrderTypes
  <2> QED BY <2>1, <2>3 DEF QueueOf
<1>8. queue' \in [Kinds -> QueueOf(AddOnSet)]
  BY <1>7 DEF Started
<1> QED BY <1>2, <1>3, <1>5, <1>6, <1>8 DEF Busy

\* Assigning a phase to the object a worker holds.
LEMMA AssignMoves ==
  ASSUME TypeOK, IndInv, Growth, NEW w \in Workers, NEW p \in Phases,
         NEW k \in AddOnSet, NEW n \in Nat, NEW g,
         k = work[w].key, n = work[w].ver, g = log[k][n].gen,
         work[w].pc \in Deploying \cup Waiting, Assign(w, p), p \in MayShow(log[k][n].phase),
         p = "Installing" => Announced(k, g)'
  PROVE  /\ store' \in [AddOnSet -> [phase : Phases, ver : Nat \ {0}]]
         /\ \A r \in AddOnSet : StoreOK(r)'
<1>1. k = work[w].key /\ n = work[w].ver /\ n \in 1 .. Latest(k)
  BY WorkTypes DEF Deploying, Waiting
<1>2. CASE store[k].ver # n
  <2>1. store' = store
    BY <1>1, <1>2 DEF Assign
  <2> QED BY <2>1, StoreKept DEF TypeOK
<1>3. CASE store[k].ver = n
  <2>1. store' = [store EXCEPT ![k].phase = p] /\ store \in [AddOnSet -> [phase : Phases, ver : Nat \ {0}]]
    BY <1>1, <1>3 DEF Assign, TypeOK
  <2>2. /\ store'[k].phase = p /\ store'[k].ver = n
        /\ \A r \in AddOnSet : r # k => store'[r] = store[r]
        /\ store' \in [AddOnSet -> [phase : Phases, ver : Nat \ {0}]]
    BY <1>3, <2>1
  <2>3. log'[k][n] = log[k][n] /\ n <= Latest(k)'
    <3>1. Latest(k) \in Nat /\ Latest(k)' \in Nat
      BY DEF TypeOK, Latest
    <3>2. Latest(k) <= Latest(k)' /\ \A i \in 1 .. Latest(k) : log'[k][i] = log[k][i]
      BY DEF Growth
    <3> QED BY <1>1, <3>1, <3>2
  <2>4. StoreOK(k)'
    BY <1>1, <2>2, <2>3 DEF StoreOK
  <2> QED BY <2>2, <2>4, StoreKept
<1> QED BY <1>2, <1>3

-----------------------------------------------------------------------------
(* The actions, one lemma each *)

LEMMA ClusterChangesOK ==
  ASSUME TypeOK, IndInv, ClusterChanges
  PROVE  (TypeOK /\ IndInv)'
<1>1. TypeOK'
  BY DEF TypeOK, ClusterChanges, cluster
<1>2. IndInv'
  BY StoresKept, Quiet DEF ClusterChanges, cluster
<1> QED BY <1>1, <1>2

\* What clients write is true of nothing that has to be announced or run.
LEMMA ClientOK ==
  ASSUME TypeOK, IndInv, NEW r \in AddOnSet, Touch(r) \/ Delete(r) \/ Create(r)
  PROVE  (TypeOK /\ IndInv)'
<1>1. log[r] \in Seq(Version) /\ Latest(r) \in Nat \ {0} /\ AddOnOK(r)
  BY DEF TypeOK, IndInv, AddOnOK, Latest
<1>2. Current(r) \in Version /\ VersionOK(r, Latest(r))
  BY <1>1 DEF Current, Latest, AddOnOK
<1>3. PICK v \in Version :
        /\ log' = [log EXCEPT ![r] = Append(@, v)]
        /\ (v.phase = Current(r).phase /\ v.gen = Current(r).gen) \/ v.phase \in {"Gone", "Pending"}
  <2>1. CASE Touch(r)
    <3>1. PICK u \in BOOLEAN : log' = [log EXCEPT ![r] = Append(@, [Current(r) EXCEPT !.url = u])]
      BY <2>1 DEF Touch, Urls
    <3>2. /\ [Current(r) EXCEPT !.url = u] \in Version
          /\ [Current(r) EXCEPT !.url = u].phase = Current(r).phase
          /\ [Current(r) EXCEPT !.url = u].gen = Current(r).gen
      BY <1>2 DEF Version
    <3> QED BY <3>1, <3>2
  <2>2. CASE Delete(r)
    <3>1. [Current(r) EXCEPT !.phase = "Gone"] \in Version
      BY <1>2 DEF Version, Phases
    <3>2. [Current(r) EXCEPT !.phase = "Gone"].phase = "Gone"
      BY <1>2 DEF Version
    <3> QED BY <2>2, <3>1, <3>2 DEF Delete
  <2>3. CASE Create(r)
    <3>1. Current(r).gen + 1 \in Gens
      BY <1>2, <2>3, AddOnAssumption DEF Create, Version, Gens
    <3>2. PICK u \in BOOLEAN : log' = [log EXCEPT ![r] = Append(@,
            [phase |-> "Pending", gen |-> Current(r).gen + 1, url |-> u])]
      BY <2>3 DEF Create, Urls
    <3>3. [phase |-> "Pending", gen |-> Current(r).gen + 1, url |-> u] \in Version
      BY <3>1 DEF Version, Phases
    <3> QED BY <3>2, <3>3
  <2> QED BY <2>1, <2>2, <2>3
<1>4. UNCHANGED <<ready, store, queue, work, managed, madeFor, rights, management, told>>
  BY DEF Touch, Delete, Create, cluster
<1>5. /\ Growth /\ log' \in [AddOnSet -> Seq(Version)]
      /\ Latest(r)' = Latest(r) + 1 /\ log'[r][Latest(r) + 1] = v
      /\ \A q \in AddOnSet : q # r => log'[q] = log[q]
  BY <1>3, <1>4, OneVersion
<1>6. TypeOK'
  <2>1. touches' \in 0 .. MaxTouches
    BY AddOnAssumption DEF Touch, Delete, Create, Count, TypeOK
  <2> QED BY <1>4, <1>5, <2>1 DEF TypeOK
<1>7. ASSUME NEW q \in AddOnSet PROVE AddOnOK(q)'
  <2>1. StoreOK(q)'
    BY <1>4, <1>5, StoreKept
  <2>2. ASSUME NEW i \in 1 .. Latest(q)', i > Latest(q) PROVE VersionOK(q, i)'
    <3>1. q = r
      BY <1>5, <2>2 DEF Latest
    <3>2. i = Latest(r) + 1
      BY <1>1, <1>5, <2>2, <3>1
    <3>3. log'[r][i] = v /\ (Succeeded(r) => Succeeded(r)')
      BY <1>4, <1>5, <3>2 DEF Succeeded
    <3>4. PICK g : g = Current(r).gen
      OBVIOUS
    <3>5. Announced(r, g) => Announced(r, g)'
      BY <1>5, AnnouncedKept
    <3>6. /\ Current(r).phase = "Installing" => Announced(r, g)
          /\ Current(r).phase = "Implemented" => Succeeded(r)
      BY <1>2, <3>4 DEF VersionOK, Current
    <3> QED BY <1>3, <3>1, <3>3, <3>4, <3>5, <3>6 DEF VersionOK
  <2> QED BY <1>4, <1>5, <2>1, <2>2, AddOnKept
<1>8. \A w \in Workers : WorkerOK(w)'
  BY <1>4, <1>5, WorkerKept
<1> QED BY <1>6, <1>7, <1>8 DEF IndInv

LEMMA JobSucceedsOK ==
  ASSUME TypeOK, IndInv, NEW r \in AddOnSet, JobSucceeds(r)
  PROVE  (TypeOK /\ IndInv)'
<1> DEFINE j == JobOf[r]
<1>1. /\ j \in Jobs /\ managed[j] = "running" /\ managed' = [managed EXCEPT ![j] = "succeeded"]
      /\ UNCHANGED <<ready, log, store, queue, work, madeFor, rights, management, told, touches>>
  BY AddOnAssumption DEF JobSucceeds
<1>2. TypeOK'
  BY <1>1 DEF TypeOK
<1>3. \A q \in AddOnSet : JobOf[q] \in Jobs
  BY AddOnAssumption
<1>4. \A q \in Jobs : managed'[q] = IF q = j THEN "succeeded" ELSE managed[q]
  BY <1>1 DEF TypeOK
<1>5. Growth
  BY <1>1, <1>3, <1>4 DEF Growth, Succeeded, Latest, TypeOK
<1>6. ASSUME NEW q \in AddOnSet PROVE AddOnOK(q)'
  <2>1. StoreOK(q)'
    BY <1>1, <1>5, StoreKept
  <2>2. managed'[JobOf[q]] # "none" => managed[JobOf[q]] # "none"
    BY <1>1, <1>3, <1>4
  <2>3. \A i \in 1 .. Latest(q)' : ~(i > Latest(q))
    BY <1>1 DEF Latest, TypeOK
  <2> QED BY <1>1, <1>5, <2>1, <2>2, <2>3, AddOnKept
<1>7. \A w \in Workers : WorkerOK(w)'
  BY <1>1, <1>5, WorkerKept
<1> QED BY <1>2, <1>6, <1>7 DEF IndInv

LEMMA InformerOK ==
  ASSUME TypeOK, IndInv, NEW r \in AddOnSet, Deliver(r) \/ Resync(r)
  PROVE  (TypeOK /\ IndInv)'
<1>1. UNCHANGED <<ready, log, work, managed, madeFor, rights, management, told, touches>> /\ AddKey(r)
  BY DEF Deliver, Resync, cluster
<1>2. log[r] \in Seq(Version) /\ Latest(r) \in Nat /\ AddOnOK(r) /\ store[r].ver \in Nat \ {0}
  BY DEF TypeOK, IndInv, Latest
<1>3. Growth
  BY <1>1 DEF Growth, TypeOK, Latest, Succeeded
<1>4. /\ store' \in [AddOnSet -> [phase : Phases, ver : Nat \ {0}]]
      /\ \A q \in AddOnSet : StoreOK(q)'
  <2>1. CASE Resync(r)
    BY <1>3, <2>1, StoreKept DEF Resync, TypeOK
  <2>2. CASE Deliver(r)
    <3>1. PICK n \in Nat \ {0} : n = store[r].ver + 1 /\ n \in 1 .. Latest(r)
      BY <1>2, <2>2 DEF Deliver
    <3>2. log[r][n] \in Version /\ VersionOK(r, n)
      BY <1>2, <3>1 DEF Latest, AddOnOK
    <3>3. store' = [store EXCEPT ![r] = [phase |-> log[r][n].phase, ver |-> n]]
      BY <2>2, <3>1 DEF Deliver
    <3>4. /\ store' \in [AddOnSet -> [phase : Phases, ver : Nat \ {0}]]
          /\ store'[r] = [phase |-> log[r][n].phase, ver |-> n]
          /\ \A q \in AddOnSet : q # r => store'[q] = store[q]
      BY <3>2, <3>3 DEF TypeOK, Version
    <3>5. log' = log /\ told' = told /\ Latest(r)' = Latest(r) /\ log[r][n].phase \in Phases
      BY <1>1, <3>2 DEF Latest, Version
    <3>6. StoreOK(r)'
      <4>1. PICK g : g = log[r][n].gen
        OBVIOUS
      <4>2. Announced(r, g) => Announced(r, g)'
        BY <1>3, AnnouncedKept
      <4> QED BY <3>1, <3>2, <3>4, <3>5, <4>1, <4>2 DEF StoreOK, VersionOK, MayShow, Phases
    <3> QED BY <1>3, <3>4, <3>6, StoreKept
  <2> QED BY <2>1, <2>2
<1>5. Busy'
  BY <1>1, AddKeyMoves
<1>6. TypeOK'
  BY <1>1, <1>4, <1>5 DEF TypeOK, Busy
<1> QED BY <1>1, <1>4, <1>6, Quiet

\* A step that moves one worker and nothing else but queues.
LEMMA OneMoves ==
  ASSUME TypeOK, IndInv, NEW w \in Workers, Busy', Others(w), WorkerOK(w)',
         UNCHANGED <<ready, log, store, managed, madeFor, management, told, touches>>,
         rights' \subseteq Jobs
  PROVE  (TypeOK /\ IndInv)'
<1>1. TypeOK'
  BY DEF TypeOK, Busy
<1>2. \A v \in Workers : work'[v] = work[v] \/ WorkerOK(v)'
  BY DEF Others
<1> QED BY <1>1, <1>2, StoresKept, Quiet

\* A worker that a handler call leaves on the way, with the object it holds.
LEMMA MovesOn ==
  ASSUME TypeOK, IndInv, NEW w \in Workers, UNCHANGED <<log, managed, told>>,
         work[w].pc \in Deploying \cup Waiting,
         work'[w].key = work[w].key, work'[w].ver = work[w].ver,
         \/ work'[w].pc = work[w].pc
         \/ work[w].pc = "gate" /\ work'[w].pc = "config"
            /\ (work[w].key \in Applications => Succeeded(Needs[work[w].key]))
         \/ work[w].pc = "config" /\ work'[w].pc \in {"prepare", "create"}
         \/ work[w].pc = "prepare" /\ work'[w].pc = "create"
         \/ work[w].pc = "find" /\ work'[w].pc = "poll"
  PROVE  WorkerOK(w)'
<1>1. WorkerOK(w) /\ work[w].key # NoKey
  BY WorkTypes DEF Deploying, Waiting
<1> QED BY <1>1 DEF WorkerOK, Deploying, Waiting, Latest, Succeeded, Announced

LEMMA GetItemOK ==
  ASSUME TypeOK, IndInv, NEW w \in Workers, GetItem(w)
  PROVE  (TypeOK /\ IndInv)'
<1>1. PICK k \in Kinds : k = KindOf(w)
  BY KindTypes
<1>2. /\ queue[k] \in QueueOf(AddOnSet) /\ queue[k].order # << >>
      /\ queue' = [queue EXCEPT ![k] = Dequeue(queue[k])]
      /\ work' = [work EXCEPT ![w] = [Free EXCEPT !.pc = "dispatch", !.key = Head(queue[k].order)]]
  BY <1>1 DEF GetItem, TypeOK
<1>3. Dequeue(queue[k]) \in QueueOf(AddOnSet) /\ Head(queue[k].order) \in AddOnSet
  BY <1>2, DequeueType
<1>4. queue' \in [Kinds -> QueueOf(AddOnSet)]
  BY <1>2, <1>3 DEF TypeOK
<1>5. PICK r \in AddOnSet : work' = [work EXCEPT ![w] = [Free EXCEPT !.pc = "dispatch", !.key = r]]
  BY <1>2, <1>3
<1>6. [Free EXCEPT !.pc = "dispatch", !.key = r] \in Work
  BY FreeOK DEF Work, Steps
<1>7. /\ work' \in [Workers -> Work] /\ Others(w)
      /\ work'[w].pc = "dispatch" /\ work'[w].key = r
  BY <1>5, <1>6 DEF TypeOK, Others, Free
<1>8. WorkerOK(w)'
  BY <1>7, AddOnAssumption DEF WorkerOK, Deploying, Waiting
<1> QED BY <1>4, <1>7, <1>8, OneMoves DEF Busy, GetItem, cluster, TypeOK

LEMMA DispatchOK ==
  ASSUME TypeOK, IndInv, NEW w \in Workers, Dispatch(w)
  PROVE  (TypeOK /\ IndInv)'
<1>1. PICK r \in AddOnSet : r = work[w].key /\ r # NoKey /\ work[w].pc = "dispatch" /\ work[w] \in Work
  BY WorkTypes DEF Dispatch
<1>2. /\ UNCHANGED <<ready, log, store, managed, madeFor, rights, management, told, touches>>
      /\ rights' \subseteq Jobs
  BY DEF Dispatch, cluster, TypeOK
<1>3. CASE Return(w)
  BY <1>1, <1>2, <1>3, ReturnMoves, OneMoves
<1>4. CASE ~Return(w)
  <2>1. PICK pc : pc = Handler(store[r].phase)
    OBVIOUS
  <2>2. /\ pc # "idle"
        /\ work' = [work EXCEPT ![w].pc = pc, ![w].ver = store[r].ver] /\ queue' = queue
    BY <1>1, <1>4, <2>1 DEF Dispatch
  <2>3. \/ pc = "gate" /\ store[r].phase = "Pending"
        \/ pc = "find" /\ store[r].phase = "Installing"
    BY <2>1, <2>2 DEF Handler
  <2>4. store[r] \in [phase : Phases, ver : Nat \ {0}] /\ StoreOK(r) /\ log[r] \in Seq(Version)
    BY DEF TypeOK, IndInv, AddOnOK
  <2>5. /\ work'[w] = [work[w] EXCEPT !.pc = pc, !.ver = store[r].ver] /\ Others(w)
        /\ work' \in [Workers -> Work]
    <3>1. [work[w] EXCEPT !.pc = pc, !.ver = store[r].ver] \in Work
      BY <1>1, <2>3, <2>4 DEF Work, Steps
    <3>2. work' = [work EXCEPT ![w] = [work[w] EXCEPT !.pc = pc, !.ver = store[r].ver]]
      BY <2>2
    <3> QED BY <3>1, <3>2 DEF TypeOK, Others
  <2>6. work'[w].pc = pc /\ work'[w].key = r /\ work'[w].ver = store[r].ver
    BY <1>1, <2>5 DEF Work
  <2>7. WorkerOK(w)'
    BY <1>1, <1>2, <2>3, <2>4, <2>6 DEF WorkerOK, StoreOK, MayShow, Deploying, Waiting, Latest,
                                         Version, Phases, Announced
  <2> QED BY <1>2, <2>2, <2>5, <2>7, OneMoves DEF Busy, TypeOK
<1> QED BY <1>3, <1>4

\* The phase deployApplication asks for is only ever stored after a success.
LEMMA GateOK ==
  ASSUME TypeOK, IndInv, NEW w \in Workers, Gate(w)
  PROVE  (TypeOK /\ IndInv)'
<1>1. /\ UNCHANGED <<ready, log, store, managed, madeFor, rights, management, told, touches>>
      /\ rights' \subseteq Jobs /\ work[w].pc = "gate" /\ work[w] \in Work
      /\ work[w].key \in AddOnSet
  BY WorkTypes DEF Gate, cluster, TypeOK
<1>2. CASE Return(w)
  BY <1>1, <1>2, ReturnMoves, OneMoves
<1>3. CASE ~Return(w)
  <2>1. MayDeploy(work[w].key) /\ Goto(w, "config")
    BY <1>3 DEF Gate
  <2>2. Busy' /\ Others(w) /\ work'[w] = [work[w] EXCEPT !.pc = "config"]
    BY <2>1, GotoMoves DEF Steps
  <2>3. work'[w].pc = "config" /\ work'[w].key = work[w].key /\ work'[w].ver = work[w].ver
    BY <1>1, <2>2 DEF Work
  <2>4. ASSUME NEW a \in Applications, Current(Needs[a]).phase = "Implemented"
        PROVE  Succeeded(Needs[a])
    <3>1. PICK p \in AddOnSet : p = Needs[a]
      BY AddOnAssumption DEF AddOnSet
    <3>2. Latest(p) \in 1 .. Latest(p) /\ AddOnOK(p)
      BY DEF TypeOK, IndInv, AddOnOK, Latest
    <3> QED BY <2>4, <3>1, <3>2 DEF AddOnOK, VersionOK, Current
  <2>5. work[w].key \in Applications => Succeeded(Needs[work[w].key])
    BY <2>1, <2>4, AddOnAssumption DEF MayDeploy
  <2>6. WorkerOK(w)'
    BY <1>1, <2>3, <2>5, MovesOn DEF Deploying
  <2> QED BY <1>1, <2>2, <2>6, OneMoves
<1> QED BY <1>2, <1>3

LEMMA GetConfigOK ==
  ASSUME TypeOK, IndInv, NEW w \in Workers, GetConfig(w)
  PROVE  (TypeOK /\ IndInv)'
<1>1. /\ UNCHANGED <<ready, log, store, managed, madeFor, rights, management, told, touches>>
      /\ rights' \subseteq Jobs /\ work[w].pc = "config" /\ work[w] \in Work
  BY DEF GetConfig, cluster, TypeOK
<1>2. CASE Return(w)
  BY <1>1, <1>2, ReturnMoves, OneMoves
<1>3. CASE ~Return(w)
  <2>1. PICK pc \in {"prepare", "create"}, on \in {"managed", "management"} :
          /\ work' = [work EXCEPT ![w].pc = pc, ![w].on = on]
          /\ queue' = queue
    BY <1>3 DEF GetConfig, FirstCall
  <2>2. [work[w] EXCEPT !.pc = pc, !.on = on] \in Work
    BY <1>1, <2>1 DEF Work, Steps
  <2>3. /\ work' = [work EXCEPT ![w] = [work[w] EXCEPT !.pc = pc, !.on = on]]
    BY <2>1
  <2>4. /\ work' \in [Workers -> Work] /\ Others(w)
        /\ work'[w].pc = pc /\ work'[w].key = work[w].key /\ work'[w].ver = work[w].ver
    BY <1>1, <2>2, <2>3 DEF TypeOK, Others, Work
  <2>5. WorkerOK(w)'
    BY <1>1, <2>4, MovesOn DEF Deploying
  <2> QED BY <1>1, <2>1, <2>4, <2>5, OneMoves DEF Busy, TypeOK
<1> QED BY <1>2, <1>3

LEMMA PrepareOK ==
  ASSUME TypeOK, IndInv, NEW w \in Workers, Prepare(w)
  PROVE  (TypeOK /\ IndInv)'
<1>1. /\ UNCHANGED <<ready, log, store, managed, madeFor, management, told, touches>>
      /\ work[w].pc = "prepare" /\ work[w] \in Work /\ Goto(w, "create")
      /\ work[w].key \in AddOnSet
  BY WorkTypes DEF Prepare, TypeOK
<1>2. rights' \subseteq Jobs
  BY <1>1, AddOnAssumption DEF Prepare, TypeOK
<1>3. Busy' /\ Others(w) /\ work'[w] = [work[w] EXCEPT !.pc = "create"]
  BY <1>1, GotoMoves DEF Steps
<1>4. work'[w].pc = "create" /\ work'[w].key = work[w].key /\ work'[w].ver = work[w].ver
  BY <1>1, <1>3 DEF Work
<1>5. WorkerOK(w)'
  BY <1>1, <1>4, MovesOn DEF Deploying
<1> QED BY <1>1, <1>2, <1>3, <1>5, OneMoves

\* A start of the operator, with nothing else.
LEMMA StartedOK ==
  ASSUME TypeOK, IndInv, Started,
         UNCHANGED <<ready, log, managed, madeFor, rights, management, told, touches>>
  PROVE  (TypeOK /\ IndInv)'
<1>1. /\ Busy' /\ \A w \in Workers : WorkerOK(w)'
      /\ store' \in [AddOnSet -> [phase : Phases, ver : Nat \ {0}]]
      /\ \A r \in AddOnSet : StoreOK(r)'
  BY StartedMoves
<1>2. TypeOK'
  BY <1>1 DEF TypeOK, Busy
<1> QED BY <1>1, <1>2, Quiet

LEMMA FindJobOK ==
  ASSUME TypeOK, IndInv, NEW w \in Workers, FindJob(w)
  PROVE  (TypeOK /\ IndInv)'
<1>1. /\ UNCHANGED <<ready, log, managed, madeFor, rights, management, told, touches>>
      /\ rights' \subseteq Jobs /\ work[w].pc = "find" /\ work[w] \in Work
      /\ \/ Return(w) /\ UNCHANGED store
         \/ Goto(w, "poll") /\ UNCHANGED store
         \/ Started
  BY DEF FindJob, cluster, TypeOK
<1>2. CASE Return(w) /\ UNCHANGED store
  BY <1>1, <1>2, ReturnMoves, OneMoves
<1>3. CASE Goto(w, "poll") /\ UNCHANGED store
  <2>1. Busy' /\ Others(w) /\ work'[w] = [work[w] EXCEPT !.pc = "poll"]
    BY <1>3, GotoMoves DEF Steps
  <2>2. work'[w].pc = "poll" /\ work'[w].key = work[w].key /\ work'[w].ver = work[w].ver
    BY <1>1, <2>1 DEF Work
  <2>3. WorkerOK(w)'
    BY <1>1, <2>2, MovesOn DEF Waiting
  <2> QED BY <1>1, <1>3, <2>1, <2>3, OneMoves
<1>4. CASE Started
  BY <1>1, <1>4, StartedOK
<1> QED BY <1>1, <1>2, <1>3, <1>4

LEMMA PollOK ==
  ASSUME TypeOK, IndInv, NEW w \in Workers, Poll(w)
  PROVE  (TypeOK /\ IndInv)'
<1>1. /\ UNCHANGED <<ready, log, managed, madeFor, rights, management, told, touches>>
      /\ rights' \subseteq Jobs /\ work[w].pc = "poll" /\ work[w] \in Work /\ WorkerOK(w)
      /\ \/ Finished(work[w].key) /\ Assign(w, "Implemented") /\ Goto(w, "saveImplemented")
         \/ Return(w) /\ UNCHANGED store
         \/ work[w].polls + 1 < MaxPolls /\ CountPoll(w)
  BY DEF Poll, NotYet, cluster, TypeOK, IndInv
<1>2. CASE Return(w) /\ UNCHANGED store
  BY <1>1, <1>2, ReturnMoves, OneMoves
<1>3. CASE work[w].polls + 1 < MaxPolls /\ CountPoll(w)
  <2>1. work' = [work EXCEPT ![w] = [work[w] EXCEPT !.polls = work[w].polls + 1]]
        /\ queue' = queue /\ store' = store
    BY <1>3 DEF CountPoll
  <2>2. [work[w] EXCEPT !.polls = work[w].polls + 1] \in Work
    BY <1>1, <1>3, AddOnAssumption DEF Work
  <2>3. /\ work' \in [Workers -> Work] /\ Others(w)
        /\ work'[w].pc = work[w].pc /\ work'[w].key = work[w].key /\ work'[w].ver = work[w].ver
    BY <1>1, <2>1, <2>2 DEF TypeOK, Others, Work
  <2>4. WorkerOK(w)'
    BY <1>1, <2>3, MovesOn DEF Waiting
  <2> QED BY <1>1, <2>1, <2>3, <2>4, OneMoves DEF Busy, TypeOK
<1>4. CASE Finished(work[w].key) /\ Assign(w, "Implemented") /\ Goto(w, "saveImplemented")
  <2>1. Busy' /\ Others(w) /\ work'[w] = [work[w] EXCEPT !.pc = "saveImplemented"]
    BY <1>4, GotoMoves DEF Steps
  <2>2. work'[w].pc = "saveImplemented" /\ work'[w].key = work[w].key /\ work'[w].ver = work[w].ver
    BY <1>1, <2>1 DEF Work
  <2>3. Growth
    BY <1>1 DEF Growth, TypeOK, Latest, Succeeded
  <2>4. /\ store' \in [AddOnSet -> [phase : Phases, ver : Nat \ {0}]]
        /\ \A r \in AddOnSet : StoreOK(r)'
    <3>1. PICK k \in AddOnSet, n \in Nat, g \in Gens :
            k = work[w].key /\ n = work[w].ver /\ g = log[k][n].gen
      BY <1>1, WorkTypes DEF Waiting, GenOf
    <3>2. "Implemented" \in MayShow(log[k][n].phase)
      BY <1>1, <3>1 DEF WorkerOK, Waiting, MayShow
    <3> QED BY <1>1, <1>4, <2>3, <3>1, <3>2, AssignMoves DEF Waiting, Phases
  <2>5. WorkerOK(w)'
    BY <1>1, <1>4, <2>2 DEF WorkerOK, Waiting, Deploying, Finished, Succeeded, Latest, Announced
  <2>6. TypeOK'
    BY <1>1, <2>1, <2>4 DEF TypeOK, Busy
  <2>7. \A v \in Workers : work'[v] = work[v] \/ WorkerOK(v)'
    BY <2>1, <2>5 DEF Others
  <2> QED BY <1>1, <2>4, <2>6, <2>7, Quiet
<1> QED BY <1>1, <1>2, <1>3, <1>4

\* Submitting a job: no success is undone, and a new job of an application finds
\* tiller installed, whichever application it was created for.
LEMMA SubmitJobMoves ==
  ASSUME TypeOK, IndInv, NEW w \in Workers, work[w].pc = "create", SubmitJob(w)
  PROVE  /\ managed' \in [Jobs -> {"none", "running", "succeeded"}]
         /\ madeFor' \in [Jobs -> (AddOnSet \X Gens) \cup {NoKey}]
         /\ management' \in BOOLEAN
         /\ \A r \in AddOnSet : Succeeded(r) => managed'[JobOf[r]] = "succeeded"
         /\ \A a \in Applications : managed'[JobOf[a]] # "none" =>
              managed[JobOf[a]] # "none" \/ Succeeded(Needs[a])
<1>1. PICK k \in AddOnSet, g \in Gens : k = work[w].key /\ g = GenOf(w)
  BY WorkTypes DEF Deploying
<1>2. JobOf[k] \in Jobs /\ (k \in Applications => Succeeded(Needs[k]))
  BY <1>1, AddOnAssumption DEF IndInv, WorkerOK
<1>3. CASE UNCHANGED managed /\ UNCHANGED madeFor
  BY <1>1, <1>3 DEF SubmitJob, TypeOK, Succeeded
<1>4. CASE ~(UNCHANGED managed /\ UNCHANGED madeFor)
  <2>1. /\ managed[JobOf[k]] = "none"
        /\ managed' = [managed EXCEPT ![JobOf[k]] = "running"]
        /\ madeFor' = [madeFor EXCEPT ![JobOf[k]] = <<k, g>>]
        /\ management' = management
    BY <1>1, <1>4 DEF SubmitJob
  <2>2. \A j \in Jobs : managed'[j] = IF j = JobOf[k] THEN "running" ELSE managed[j]
    BY <2>1 DEF TypeOK
  <2>3. ASSUME NEW r \in AddOnSet, Succeeded(r) PROVE managed'[JobOf[r]] = "succeeded"
    BY <2>1, <2>2, <2>3, AddOnAssumption DEF Succeeded
  <2>4. ASSUME NEW a \in Applications, managed'[JobOf[a]] # "none", managed[JobOf[a]] = "none"
        PROVE  Succeeded(Needs[a])
    <3>1. JobOf[a] = JobOf[k] /\ a \in AddOnSet
      BY <2>2, <2>4, AddOnAssumption DEF AddOnSet
    <3>2. k \in Applications
      BY <1>1, <3>1, AddOnAssumption DEF AddOnSet
    <3>3. JobOf[Needs[a]] = JobOf[Needs[k]]
      BY <3>1, <3>2, AddOnAssumption
    <3> QED BY <1>2, <3>2, <3>3 DEF Succeeded
  <2> QED BY <1>1, <2>1, <2>3, <2>4 DEF TypeOK
<1> QED BY <1>3, <1>4

LEMMA CreateJobOK ==
  ASSUME TypeOK, IndInv, NEW w \in Workers, CreateJob(w)
  PROVE  (TypeOK /\ IndInv)'
<1>1. /\ UNCHANGED <<ready, log, rights, told, touches>> /\ work[w].pc = "create" /\ work[w] \in Work
      /\ WorkerOK(w)
  BY DEF CreateJob, TypeOK, IndInv
<1>2. CASE Started /\ UNCHANGED <<managed, madeFor, management>>
  BY <1>1, <1>2, StartedOK
<1>3. CASE SubmitJob(w) /\ Goto(w, "announce") /\ UNCHANGED store
  <2>1. /\ managed' \in [Jobs -> {"none", "running", "succeeded"}]
        /\ madeFor' \in [Jobs -> (AddOnSet \X Gens) \cup {NoKey}]
        /\ management' \in BOOLEAN
        /\ \A r \in AddOnSet : Succeeded(r) => managed'[JobOf[r]] = "succeeded"
        /\ \A a \in Applications : managed'[JobOf[a]] # "none" =>
             managed[JobOf[a]] # "none" \/ Succeeded(Needs[a])
    BY <1>1, <1>3, SubmitJobMoves
  <2>2. Growth
    BY <1>1, <2>1 DEF Growth, Latest, Succeeded, TypeOK
  <2>3. Busy' /\ Others(w) /\ work'[w] = [work[w] EXCEPT !.pc = "announce"]
    BY <1>3, GotoMoves DEF Steps
  <2>4. TypeOK'
    BY <1>1, <1>3, <2>1, <2>3 DEF TypeOK, Busy
  <2>5. ASSUME NEW r \in AddOnSet PROVE AddOnOK(r)'
    <3>1. Latest(r)' = Latest(r) /\ Latest(r) \in Nat
      BY <1>1 DEF Latest, TypeOK
    <3>2. \A i \in 1 .. Latest(r)' : ~(i > Latest(r))
      BY <3>1
    <3>3. StoreOK(r)'
      BY <1>3, <2>2, StoreKept
    <3> QED BY <1>1, <2>1, <2>2, <3>2, <3>3, AddOnKept
  <2>6. WorkerOK(w)'
    <3>1. work'[w].pc = "announce" /\ work'[w].key = work[w].key /\ work'[w].ver = work[w].ver
      BY <1>1, <2>3 DEF Work
    <3> QED BY <1>1, <3>1 DEF WorkerOK, Deploying, Waiting, Latest
  <2>7. \A v \in Workers : WorkerOK(v)'
    BY <2>2, <2>3, <2>6, WorkerKept DEF Others
  <2> QED BY <2>4, <2>5, <2>7 DEF IndInv
<1> QED BY <1>2, <1>3 DEF CreateJob

\* A worker announces the version it holds, which was Pending, or that version
\* names no URL.
LEMMA AnnounceOK ==
  ASSUME TypeOK, IndInv, NEW w \in Workers, Announce(w)
  PROVE  (TypeOK /\ IndInv)'
<1>1. /\ UNCHANGED <<ready, log, managed, madeFor, rights, management, touches>>
      /\ work[w].pc = "announce" /\ work[w] \in Work /\ WorkerOK(w)
      /\ Assign(w, "Installing") /\ Goto(w, "saveInstalling")
  BY DEF Announce, TypeOK, IndInv, cluster
<1>2. PICK k \in AddOnSet, n \in Nat, g \in Gens :
        /\ k = work[w].key /\ n = work[w].ver /\ n \in 1 .. Latest(k)
        /\ g = log[k][n].gen /\ g = GenOf(w)
        /\ log[k][n] \in Version /\ log[k][n].phase = "Pending"
  BY <1>1, WorkTypes DEF Deploying, GenOf, WorkerOK
<1>3. told' = IF UrlOf(w) THEN [told EXCEPT ![k] = @ \cup {<<g, "InProgress">>}] ELSE told
  BY <1>2 DEF Announce, TellProgress, Tell
<1>4. /\ told' \in [AddOnSet -> SUBSET (Gens \X Notices)]
      /\ \A r \in AddOnSet : told[r] \subseteq told'[r]
      /\ \A r \in AddOnSet : \A h \in Gens : <<h, "Completed">> \in told'[r] => <<h, "Completed">> \in told[r]
  BY <1>3 DEF TypeOK, Notices
<1>5. Growth
  BY <1>1, <1>4 DEF Growth, Latest, Succeeded, TypeOK
<1>6. Announced(k, g)'
  <2>1. CASE UrlOf(w)
    <3>1. <<g, "InProgress">> \in told'[k]
      BY <1>3, <2>1 DEF TypeOK
    <3> QED BY <3>1 DEF Announced
  <2>2. CASE ~UrlOf(w)
    <3>1. log[k][n].url = FALSE
      BY <1>2, <2>2 DEF UrlOf, Version
    <3>2. log[k][n] = [phase |-> "Pending", gen |-> g, url |-> FALSE]
      BY <1>2, <3>1 DEF Version
    <3>3. Announced(k, g)
      BY <1>2, <3>2 DEF Announced
    <3> QED BY <1>5, <3>3, AnnouncedKept
  <2> QED BY <2>1, <2>2
<1>7. /\ store' \in [AddOnSet -> [phase : Phases, ver : Nat \ {0}]]
      /\ \A r \in AddOnSet : StoreOK(r)'
  <2>1. "Installing" \in MayShow(log[k][n].phase)
    BY <1>2 DEF MayShow
  <2> QED BY <1>1, <1>2, <1>5, <1>6, <2>1, AssignMoves DEF Deploying, Phases
<1>8. Busy' /\ Others(w) /\ work'[w] = [work[w] EXCEPT !.pc = "saveInstalling"]
  BY <1>1, GotoMoves DEF Steps
<1>9. work'[w].pc = "saveInstalling" /\ work'[w].key = k /\ work'[w].ver = n
  BY <1>1, <1>2, <1>8 DEF Work
<1>10. TypeOK'
  BY <1>1, <1>4, <1>7, <1>8 DEF TypeOK, Busy
<1>11. ASSUME NEW r \in AddOnSet PROVE AddOnOK(r)'
  <2>1. Latest(r)' = Latest(r) /\ Latest(r) \in Nat
    BY <1>1 DEF Latest, TypeOK
  <2>2. \A i \in 1 .. Latest(r)' : ~(i > Latest(r))
    BY <2>1
  <2> QED BY <1>1, <1>4, <1>5, <1>7, <2>2, AddOnKept
<1>12. WorkerOK(w)'
  <2>1. /\ log'[k][n].phase = "Pending" /\ log'[k][n].gen = g
        /\ Latest(k)' = Latest(k) /\ k # NoKey
    BY <1>1, <1>2, AddOnAssumption DEF Latest
  <2>2. n <= Latest(k)'
    BY <1>2, <2>1
  <2> QED BY <1>6, <1>9, <2>1, <2>2 DEF WorkerOK, Deploying, Waiting
<1>13. \A v \in Workers : WorkerOK(v)'
  BY <1>5, <1>8, <1>12, WorkerKept DEF Others
<1> QED BY <1>10, <1>11, <1>13 DEF IndInv

\* Storing a phase that is true of the object a worker holds, with a notice that is.
LEMMA SavedOK ==
  ASSUME TypeOK, IndInv, NEW w \in Workers, NEW p \in {"Installing", "Implemented"},
         work[w].pc = IF p = "Installing" THEN "saveInstalling" ELSE "saveImplemented",
         Return(w), UNCHANGED <<ready, store, cluster, touches>>,
         log' = [log EXCEPT ![work[w].key] =
                   Append(@, [phase |-> p, gen |-> GenOf(w), url |-> UrlOf(w)])],
         UNCHANGED told \/ (p = "Implemented" /\ Tell(w, "Completed"))
  PROVE  (TypeOK /\ IndInv)'
<1>1. PICK k \in AddOnSet, g \in Gens, u \in BOOLEAN :
        k = work[w].key /\ g = GenOf(w) /\ g = log[k][work[w].ver].gen /\ u = UrlOf(w)
  BY WorkTypes DEF Deploying, Waiting, GenOf, UrlOf, Version
<1>2. Announced(k, g) /\ (p = "Implemented" => Succeeded(k))
  BY <1>1 DEF IndInv, WorkerOK, Waiting
<1>3. PICK v \in Version : v = [phase |-> p, gen |-> g, url |-> u]
  BY DEF Version, Phases
<1>4. \/ told' = told
      \/ p = "Implemented" /\ told' = [told EXCEPT ![k] = @ \cup {<<g, "Completed">>}]
  BY <1>1 DEF Tell
<1>5. /\ told' \in [AddOnSet -> SUBSET (Gens \X Notices)]
      /\ \A r \in AddOnSet : told[r] \subseteq told'[r]
      /\ \A r \in AddOnSet, h \in Gens :
           <<h, "Completed">> \in told'[r] /\ <<h, "Completed">> \notin told[r] =>
             r = k /\ h = g /\ p = "Implemented"
  <2>1. told \in [AddOnSet -> SUBSET (Gens \X Notices)]
    BY DEF TypeOK
  <2>2. CASE told' = told
    BY <2>1, <2>2
  <2>3. CASE p = "Implemented" /\ told' = [told EXCEPT ![k] = @ \cup {<<g, "Completed">>}]
    <3>1. <<g, "Completed">> \in Gens \X Notices
      BY DEF Notices
    <3>2. \A r \in AddOnSet : told'[r] = IF r = k THEN told[r] \cup {<<g, "Completed">>} ELSE told[r]
      BY <2>1, <2>3
    <3>3. told' \in [AddOnSet -> SUBSET (Gens \X Notices)]
      BY <2>1, <2>3, <3>1
    <3> QED BY <2>3, <3>2, <3>3
  <2> QED BY <1>4, <2>2, <2>3
<1>6. /\ Growth /\ log' \in [AddOnSet -> Seq(Version)]
      /\ Latest(k)' = Latest(k) + 1 /\ log'[k][Latest(k) + 1] = v
      /\ \A q \in AddOnSet : q # k => log'[q] = log[q]
  BY <1>1, <1>3, <1>5, OneVersion DEF cluster
<1>7. Busy' /\ Others(w) /\ WorkerOK(w)'
  BY ReturnMoves
<1>8. TypeOK'
  BY <1>5, <1>6, <1>7 DEF TypeOK, Busy, cluster
<1>9. ASSUME NEW r \in AddOnSet PROVE AddOnOK(r)'
  <2>1. StoreOK(r)'
    BY <1>6, StoreKept
  <2>2. ASSUME NEW i \in 1 .. Latest(r)', i > Latest(r) PROVE VersionOK(r, i)'
    <3>1. r = k
      BY <1>6, <2>2 DEF Latest
    <3>2. Latest(k) \in Nat
      BY DEF TypeOK, Latest
    <3>3. i = Latest(k) + 1
      BY <1>6, <2>2, <3>1, <3>2
    <3>4. v.phase = p /\ v.gen = g
      BY <1>3
    <3>5. log'[k][i] = v
      BY <1>6, <3>3
    <3>6. log'[k][i].phase = p /\ log'[k][i].gen = g
      BY <3>4, <3>5
    <3>7. Announced(k, g)' /\ (p = "Implemented" => Succeeded(k)')
      BY <1>2, <1>6, AnnouncedKept DEF Growth
    <3> QED BY <3>1, <3>6, <3>7 DEF VersionOK
  <2>3. ASSUME NEW h \in Gens, <<h, "Completed">> \in told'[r], <<h, "Completed">> \notin told[r]
        PROVE  Announced(r, h)' /\ Succeeded(r)
    <3>1. r = k /\ h = g /\ p = "Implemented"
      BY <1>5, <2>3
    <3> QED BY <1>2, <1>6, <3>1, AnnouncedKept
  <2>4. managed' = managed /\ Succeeded(r)' = Succeeded(r)
    BY DEF cluster, Succeeded
  <2> QED BY <1>6, <2>1, <2>2, <2>3, <2>4, AddOnKept
<1>10. \A x \in Workers : WorkerOK(x)'
  BY <1>6, <1>7, WorkerKept DEF Others
<1> QED BY <1>8, <1>9, <1>10 DEF IndInv

LEMMA SaveOK ==
  ASSUME TypeOK, IndInv, NEW w \in Workers, SaveInstalling(w) \/ SaveImplemented(w)
  PROVE  (TypeOK /\ IndInv)'
<1>1. UNCHANGED <<ready, store, cluster, touches>> /\ Return(w) /\ work[w].pc # "idle"
  BY DEF SaveInstalling, SaveImplemented, Update
<1>2. CASE UNCHANGED <<log, told>>
  BY <1>1, <1>2, ReturnMoves, OneMoves DEF cluster, TypeOK
<1>3. CASE SaveInstalling(w) /\ ~UNCHANGED <<log, told>>
  BY <1>1, <1>3, SavedOK DEF SaveInstalling, Update
<1>4. CASE SaveImplemented(w) /\ ~UNCHANGED <<log, told>>
  BY <1>1, <1>4, SavedOK DEF SaveImplemented, Update
<1> QED BY <1>2, <1>3, <1>4

LEMMA NextInvariant == TypeOK /\ IndInv /\ [Next]_vars => (TypeOK /\ IndInv)'
<1> SUFFICES ASSUME TypeOK, IndInv, [Next]_vars PROVE (TypeOK /\ IndInv)'
  OBVIOUS
<1>1. CASE UNCHANGED vars
  <2>1. TypeOK'
    BY <1>1 DEF TypeOK, vars, cluster
  <2> QED BY <1>1, <2>1, StoresKept, Quiet DEF vars, cluster
<1>2. CASE ClusterChanges
  BY <1>2, ClusterChangesOK
<1>3. ASSUME NEW r \in AddOnSet,
             Touch(r) \/ Delete(r) \/ Create(r) \/ JobSucceeds(r) \/ Deliver(r) \/ Resync(r)
      PROVE  (TypeOK /\ IndInv)'
  BY <1>3, ClientOK, JobSucceedsOK, InformerOK
<1>4. ASSUME NEW w \in Workers, GetItem(w) \/ Process(w) PROVE (TypeOK /\ IndInv)'
  BY <1>4, GetItemOK, DispatchOK, GateOK, GetConfigOK, PrepareOK, CreateJobOK, AnnounceOK,
     FindJobOK, PollOK, SaveOK DEF Process
<1>5. CASE Restart
  BY <1>5, StartedOK DEF Restart, cluster
<1> QED BY <1>1, <1>2, <1>3, <1>4, <1>5 DEF Next

LEMMA InitInvariant == Init => TypeOK /\ IndInv
<1> SUFFICES ASSUME Init PROVE TypeOK /\ IndInv
  OBVIOUS
<1>1. PICK A \in SUBSET Annotated :
        log = [r \in AddOnSet |-> <<[phase |-> "Pending", gen |-> 1, url |-> r \in A]>>]
  BY DEF Init
<1>2. ASSUME NEW r \in AddOnSet
      PROVE  /\ log[r] = <<[phase |-> "Pending", gen |-> 1, url |-> r \in A]>> /\ Latest(r) = 1
             /\ [phase |-> "Pending", gen |-> 1, url |-> r \in A] \in Version
  BY <1>1, AddOnAssumption DEF Latest, Version, Phases, Gens
<1>3. log \in [AddOnSet -> Seq(Version)]
  BY <1>1, <1>2
<1>4. ASSUME NEW k \in Kinds PROVE queue[k] \in QueueOf(AddOnSet)
  <2> DEFINE S == {r \in AddOnSet : Kind(r) = k}
  <2>1. PICK keys \in Orders(S) : queue[k] = FilledQueue(keys)
    BY <1>4 DEF Init
  <2>2. IsFiniteSet(S)
    BY AddOnAssumption, FS_Subset
  <2>3. FilledQueue(keys) \in QueueOf(S)
    BY <2>2, OrderTypes
  <2> QED BY <2>1, <2>3 DEF QueueOf
<1>5. queue \in [Kinds -> QueueOf(AddOnSet)]
  BY <1>4 DEF Init
<1>6. work \in [Workers -> Work]
  BY FreeOK DEF Init
<1>7. TypeOK
  <2>1. /\ store \in [AddOnSet -> [phase : Phases, ver : Nat \ {0}]]
        /\ told \in [AddOnSet -> SUBSET (Gens \X Notices)]
    BY DEF Init, Phases
  <2>2. /\ managed \in [Jobs -> {"none", "running", "succeeded"}]
        /\ madeFor \in [Jobs -> (AddOnSet \X Gens) \cup {NoKey}]
    BY DEF Init
  <2>3. ready \in BOOLEAN /\ rights \subseteq Jobs /\ management \in BOOLEAN
    BY DEF Init
  <2>4. touches \in 0 .. MaxTouches
    BY AddOnAssumption DEF Init
  <2> QED BY <1>3, <1>5, <1>6, <2>1, <2>2, <2>3, <2>4 DEF TypeOK
<1>8. ASSUME NEW r \in AddOnSet PROVE AddOnOK(r)
  <2>1. /\ Latest(r) = 1 /\ log[r][1].phase = "Pending" /\ told[r] = {}
        /\ store[r] = [phase |-> "Pending", ver |-> 1] /\ managed[JobOf[r]] = "none"
    <3>1. Latest(r) = 1 /\ log[r][1] = [phase |-> "Pending", gen |-> 1, url |-> r \in A]
      BY <1>2
    <3>2. told[r] = {} /\ store[r] = [phase |-> "Pending", ver |-> 1]
      BY DEF Init
    <3>3. managed[JobOf[r]] = "none"
      BY AddOnAssumption DEF Init
    <3> QED BY <3>1, <3>2, <3>3
  <2>2. \A i \in 1 .. Latest(r) : VersionOK(r, i)
    BY <2>1 DEF VersionOK
  <2>3. StoreOK(r)
    BY <2>1 DEF StoreOK, MayShow
  <2> QED BY <2>1, <2>2, <2>3 DEF AddOnOK
<1>9. \A w \in Workers : WorkerOK(w)
  BY DEF Init, WorkerOK, Free, Deploying, Waiting
<1> QED BY <1>7, <1>8, <1>9 DEF IndInv

\* The two controllers keep their types and what IndInv says of every version,
\* every object in the store and every worker.
THEOREM Invariance == Spec => [](TypeOK /\ IndInv)
BY InitInvariant, NextInvariant, PTL DEF Spec

-----------------------------------------------------------------------------
(* What the runs check *)

\* Every variable keeps its type, for any number of add-ons and workers.
THEOREM AddOnsTypeCorrect == Spec => []TypeOK
BY Invariance, PTL

\* No install job of an application reaches the managed cluster before its tiller
\* has been installed there, however many applications share package managers and
\* however package managers share namespaces.
THEOREM TillerIsFirst == Spec => []TillerFirst
<1>1. IndInv => TillerFirst
  BY AddOnAssumption DEF IndInv, AddOnOK, TillerFirst, AddOnSet
<1> QED BY <1>1, Invariance, PTL

\* Every version that was ever stored as Implemented has a job that succeeded.
THEOREM ImplementedHasRun == Spec => []ImplementedRan
<1>1. ASSUME TypeOK, IndInv, NEW r \in AddOnSet, NEW i \in DOMAIN log[r],
             log[r][i].phase = "Implemented"
      PROVE  Succeeded(r)
  <2>1. log[r] \in Seq(Version) /\ i \in 1 .. Latest(r)
    BY <1>1 DEF TypeOK, Latest
  <2> QED BY <1>1, <2>1 DEF IndInv, AddOnOK, VersionOK
<1>2. TypeOK /\ IndInv => ImplementedRan
  BY <1>1 DEF ImplementedRan
<1> QED BY <1>2, Invariance, PTL

\* A deployment is announced as complete only when its job has succeeded and it was
\* announced before, unless it could be deployed from an object without a callback
\* URL, through any stops, refused updates, changes of the URL and new creations.
THEOREM CompletedIsLast == Spec => []CompletedFollowsProgress
<1>1. IndInv => CompletedFollowsProgress
  BY DEF IndInv, AddOnOK, CompletedFollowsProgress
<1> QED BY <1>1, Invariance, PTL

-----------------------------------------------------------------------------
(* The queues *)

\* Each queue is well formed and has only keys of its controller, and the key of a
\* worker is being processed by nobody else.
QueueInv ==
  /\ \A k \in Kinds : WellFormed(queue[k])
  /\ \A k \in Kinds : \A r \in queue[k].dirty \cup queue[k].processing : Kind(r) = k
  /\ \A w \in Workers : work[w].key # NoKey => work[w].key \in queue[KindOf(w)].processing
  /\ \A v, w \in Workers : work[v].key = work[w].key /\ work[v].key # NoKey => v = w

LEMMA QueueKept ==
  ASSUME QueueInv, UNCHANGED queue, \A w \in Workers : work'[w].key = work[w].key
  PROVE  QueueInv'
BY DEF QueueInv

LEMMA QueueAdd ==
  ASSUME TypeOK, QueueInv, NEW r \in AddOnSet, AddKey(r), UNCHANGED work
  PROVE  QueueInv'
<1>1. Kind(r) \in Kinds /\ \A k \in Kinds : queue[k] \in QueueOf(AddOnSet)
  BY KindTypes DEF TypeOK
<1>2. \A k \in Kinds : queue'[k] = IF k = Kind(r) THEN Enqueue(queue[k], r) ELSE queue[k]
  BY <1>1 DEF AddKey, TypeOK
<1>3. \A k \in Kinds : WellFormed(queue'[k])
  BY <1>1, <1>2, EnqueueWellFormed DEF QueueInv
<1>4. \A k \in Kinds : /\ queue'[k].processing = queue[k].processing
                       /\ queue'[k].dirty \subseteq queue[k].dirty \cup {r}
                       /\ k # Kind(r) => queue'[k].dirty = queue[k].dirty
  <2>1. \A q : Enqueue(q, r).processing = q.processing /\ Enqueue(q, r).dirty \subseteq q.dirty \cup {r}
    BY DEF Enqueue
  <2> QED BY <1>2, <2>1
<1>5. \A k \in Kinds : \A y \in queue'[k].dirty \cup queue'[k].processing : Kind(y) = k
  BY <1>4 DEF QueueInv
<1>6. \A w \in Workers : work'[w].key # NoKey => work'[w].key \in queue'[KindOf(w)].processing
  BY <1>4, KindTypes DEF QueueInv
<1> QED BY <1>3, <1>5, <1>6 DEF QueueInv

LEMMA QueueGet ==
  ASSUME TypeOK, QueueInv, NEW w \in Workers, GetItem(w)
  PROVE  QueueInv'
<1> DEFINE k == KindOf(w)
           q == queue[k]
           r == Head(q.order)
<1>1. k \in Kinds /\ q \in QueueOf(AddOnSet) /\ q.order # << >> /\ WellFormed(q)
  BY KindTypes DEF TypeOK, GetItem, QueueInv
<1>2. /\ \A x \in Kinds : queue'[x] = IF x = k THEN Dequeue(q) ELSE queue[x]
      /\ \A v \in Workers : work'[v].key = IF v = w THEN r ELSE work[v].key
  BY <1>1 DEF GetItem, TypeOK, Free
<1>3. WellFormed(Dequeue(q)) /\ r \notin q.processing /\ r \in q.dirty
  <2>1. 1 \in DOMAIN q.order /\ r = q.order[1]
    BY <1>1 DEF QueueOf
  <2> QED BY <1>1, <2>1, DequeueWellFormed DEF WellFormed
<1>4. Dequeue(q).dirty \subseteq q.dirty /\ Dequeue(q).processing = q.processing \cup {r}
  BY DEF Dequeue
<1>5. ASSUME NEW v \in Workers, work[v].key = r, r # NoKey PROVE FALSE
  <2>1. r \in queue[KindOf(v)].processing /\ KindOf(v) \in Kinds
    BY <1>5, KindTypes DEF QueueInv
  <2>2. Kind(r) = KindOf(v) /\ Kind(r) = k
    BY <1>1, <1>3, <2>1 DEF QueueInv
  <2> QED BY <1>3, <2>1, <2>2
<1> HIDE DEF k, q, r
<1>6. \A x \in Kinds : WellFormed(queue'[x])
  BY <1>2, <1>3 DEF QueueInv
<1>7. \A x \in Kinds : \A y \in queue'[x].dirty \cup queue'[x].processing : Kind(y) = x
  BY <1>1, <1>2, <1>3, <1>4 DEF QueueInv, q
<1>8. \A v \in Workers : work'[v].key # NoKey => work'[v].key \in queue'[KindOf(v)].processing
  BY <1>1, <1>2, <1>4, KindTypes DEF QueueInv, q, k
<1>9. \A u, v \in Workers : work'[u].key = work'[v].key /\ work'[u].key # NoKey => u = v
  BY <1>2, <1>5 DEF QueueInv
<1> QED BY <1>6, <1>7, <1>8, <1>9 DEF QueueInv

LEMMA QueueReturn ==
  ASSUME TypeOK, IndInv, QueueInv, NEW w \in Workers, work[w].pc # "idle", Return(w)
  PROVE  QueueInv'
<1> DEFINE k == KindOf(w)
           q == queue[k]
           r == work[w].key
<1>1. k \in Kinds /\ q \in QueueOf(AddOnSet) /\ r \in AddOnSet /\ r # NoKey /\ WellFormed(q)
  BY KindTypes, WorkTypes DEF TypeOK, QueueInv
<1>2. /\ \A x \in Kinds : queue'[x] = IF x = k THEN Finish(q, r) ELSE queue[x]
      /\ \A v \in Workers : work'[v].key = IF v = w THEN NoKey ELSE work[v].key
  BY <1>1 DEF Return, TypeOK, Free
<1>3. WellFormed(Finish(q, r))
  BY <1>1, FinishWellFormed DEF QueueInv
<1>4. Finish(q, r).dirty = q.dirty /\ Finish(q, r).processing = q.processing \ {r}
  BY DEF Finish
<1>5. \A v \in Workers : v # w /\ work[v].key # NoKey => work[v].key # r
  BY <1>1 DEF QueueInv
<1> HIDE DEF k, q, r
<1>6. \A x \in Kinds : WellFormed(queue'[x])
  BY <1>2, <1>3 DEF QueueInv
<1>7. \A x \in Kinds : \A y \in queue'[x].dirty \cup queue'[x].processing : Kind(y) = x
  BY <1>2, <1>4 DEF QueueInv, q
<1>8. \A v \in Workers : work'[v].key # NoKey => work'[v].key \in queue'[KindOf(v)].processing
  BY <1>1, <1>2, <1>4, <1>5, KindTypes DEF QueueInv, q, k
<1>9. \A u, v \in Workers : work'[u].key = work'[v].key /\ work'[u].key # NoKey => u = v
  BY <1>2 DEF QueueInv
<1> QED BY <1>6, <1>7, <1>8, <1>9 DEF QueueInv

\* The queues of a fresh process.
LEMMA QueueFilled ==
  ASSUME NEW S, S \subseteq AddOnSet, NEW k \in Kinds,
         NEW keys \in Orders({r \in S : Kind(r) = k})
  PROVE  LET q == FilledQueue(keys)
         IN  WellFormed(q) /\ \A r \in q.dirty \cup q.processing : Kind(r) = k
<1>1. IsFiniteSet({r \in S : Kind(r) = k})
  BY AddOnAssumption, FS_Subset
<1>2. WellFormed(FilledQueue(keys)) /\ FilledQueue(keys) \in QueueOf({r \in S : Kind(r) = k})
  BY <1>1, OrderTypes
<1> QED BY <1>2 DEF QueueOf, FilledQueue

LEMMA QueueStarted == Started => QueueInv'
<1> SUFFICES ASSUME Started PROVE QueueInv'
  OBVIOUS
<1>1. ASSUME NEW k \in Kinds
      PROVE  WellFormed(queue'[k]) /\ \A r \in queue'[k].dirty \cup queue'[k].processing : Kind(r) = k
  <2> DEFINE S == {r \in AddOnSet : Live(r)}
  <2>1. {r \in AddOnSet : Live(r) /\ Kind(r) = k} = {r \in S : Kind(r) = k}
    OBVIOUS
  <2>2. PICK keys \in Orders({r \in S : Kind(r) = k}) : queue'[k] = FilledQueue(keys)
    BY <2>1 DEF Started
  <2> QED BY <2>2, QueueFilled
<1>2. \A w \in Workers : work'[w].key = NoKey
  BY DEF Started, Free
<1> QED BY <1>1, <1>2 DEF QueueInv

LEMMA QueueNext == TypeOK /\ IndInv /\ QueueInv /\ [Next]_vars => QueueInv'
<1> SUFFICES ASSUME TypeOK, IndInv, QueueInv, [Next]_vars PROVE QueueInv'
  OBVIOUS
<1>1. CASE UNCHANGED <<queue, work>>
  BY <1>1, QueueKept
<1>2. ASSUME NEW r \in AddOnSet,
             Touch(r) \/ Delete(r) \/ Create(r) \/ JobSucceeds(r)
      PROVE  UNCHANGED <<queue, work>>
  BY <1>2 DEF Touch, Delete, Create, JobSucceeds
<1>3. ASSUME NEW r \in AddOnSet, Deliver(r) \/ Resync(r) PROVE QueueInv'
  BY <1>3, QueueAdd DEF Deliver, Resync
<1>4. ASSUME NEW w \in Workers, Process(w) PROVE QueueInv'
  <2>1. /\ work[w].pc \in {"dispatch", "gate", "config", "prepare", "create", "announce"}
              \cup {"saveInstalling", "find", "poll", "saveImplemented"}
        /\ work[w] \in Work
    BY <1>4 DEF Process, Dispatch, Gate, GetConfig, Prepare, CreateJob, Announce,
                SaveInstalling, FindJob, Poll, SaveImplemented, TypeOK
  <2>2. CASE Return(w)
    BY <2>1, <2>2, QueueReturn
  <2>3. CASE Started
    BY <2>3, QueueStarted
  <2>4. ASSUME NEW pc \in Steps, Goto(w, pc) PROVE QueueInv'
    <3>1. \A v \in Workers : work'[v].key = work[v].key
      BY <2>1, <2>4 DEF Goto, Work, TypeOK
    <3> QED BY <2>4, <3>1, QueueKept DEF Goto
  <2>5. ASSUME UNCHANGED queue, work'[w].key = work[w].key,
               \A v \in Workers : v # w => work'[v] = work[v]
        PROVE  QueueInv'
    <3>1. \A v \in Workers : work'[v].key = work[v].key
      BY <2>5
    <3> QED BY <2>5, <3>1, QueueKept
  <2>6. CASE Dispatch(w)
    <3> DEFINE pc == Handler(store[work[w].key].phase)
    <3>1. CASE Return(w)
      BY <2>2, <3>1
    <3>2. CASE UNCHANGED queue /\ work' = [work EXCEPT ![w].pc = pc, ![w].ver = store[work[w].key].ver]
      <4>1. work'[w].key = work[w].key /\ \A v \in Workers : v # w => work'[v] = work[v]
        BY <2>1, <3>2 DEF Work, TypeOK
      <4> QED BY <2>5, <3>2, <4>1
    <3> QED BY <2>6, <3>1, <3>2 DEF Dispatch
  <2>7. CASE GetConfig(w)
    <3>1. CASE Return(w)
      BY <2>2, <3>1
    <3>2. ASSUME NEW a, UNCHANGED queue,
                 work' = [work EXCEPT ![w].pc = FirstCall(work[w].key),
                            ![w].on = IF a = "empty" THEN "management" ELSE "managed"]
          PROVE  QueueInv'
      <4>1. work'[w].key = work[w].key /\ \A v \in Workers : v # w => work'[v] = work[v]
        BY <2>1, <3>2 DEF Work, TypeOK
      <4> QED BY <2>5, <3>2, <4>1
    <3> QED BY <2>7, <3>1, <3>2 DEF GetConfig
  <2>8. CASE Poll(w)
    <3>1. CASE CountPoll(w)
      <4>1. work'[w].key = work[w].key /\ \A v \in Workers : v # w => work'[v] = work[v]
        BY <2>1, <3>1 DEF Work, TypeOK, CountPoll
      <4> QED BY <2>5, <3>1, <4>1 DEF CountPoll
    <3>2. CASE Goto(w, "saveImplemented")
      BY <2>4, <3>2 DEF Steps
    <3> QED BY <2>2, <2>8, <3>1, <3>2 DEF Poll, NotYet
  <2>9. CASE Gate(w)
    BY <2>2, <2>4, <2>9 DEF Gate, Steps
  <2>10. CASE Prepare(w)
    BY <2>4, <2>10 DEF Prepare, Steps
  <2>11. CASE CreateJob(w)
    BY <2>3, <2>4, <2>11 DEF CreateJob, Steps
  <2>12. CASE FindJob(w)
    BY <2>2, <2>3, <2>4, <2>12 DEF FindJob, Steps
  <2>13. CASE SaveInstalling(w) \/ SaveImplemented(w)
    BY <2>2, <2>13 DEF SaveInstalling, SaveImplemented, Update
  <2>14. CASE Announce(w)
    BY <2>4, <2>14 DEF Announce, Steps
  <2> QED BY <1>4, <2>6, <2>7, <2>8, <2>9, <2>10, <2>11, <2>12, <2>13, <2>14 DEF Process
<1>5. CASE Restart
  BY <1>5, QueueStarted DEF Restart
<1>6. CASE ClusterChanges
  BY <1>1, <1>6 DEF ClusterChanges
<1> QED BY <1>1, <1>2, <1>3, <1>4, <1>5, <1>6, QueueGet DEF Next, vars

\* Two workers never work on one add-on, and no key an informer added is lost, for
\* any number of add-ons and workers (controller.go:118).
THEOREM OneWorker == Spec => []OneWorkerPerAddOn
<1>1. Init => QueueInv
  <2> SUFFICES ASSUME Init PROVE QueueInv
    OBVIOUS
  <2>1. ASSUME NEW k \in Kinds
        PROVE  WellFormed(queue[k]) /\ \A r \in queue[k].dirty \cup queue[k].processing : Kind(r) = k
    <3>1. PICK keys \in Orders({r \in AddOnSet : Kind(r) = k}) : queue[k] = FilledQueue(keys)
      BY DEF Init
    <3> QED BY <3>1, QueueFilled
  <2>2. \A w \in Workers : work[w].key = NoKey
    BY DEF Init, Free
  <2> QED BY <2>1, <2>2 DEF QueueInv
<1>2. QueueInv => OneWorkerPerAddOn
  BY DEF QueueInv, OneWorkerPerAddOn
<1> QED BY <1>1, <1>2, QueueNext, Invariance, PTL DEF Spec

-----------------------------------------------------------------------------
(* The refinement of AddOnLifecycle *)

\* No version is of a later creation than the latest one.
GensGrow == \A r \in AddOnSet : \A i \in 1 .. Latest(r) : log[r][i].gen <= Current(r).gen

LEMMA CurrentTypes ==
  ASSUME TypeOK, IndInv, NEW r \in AddOnSet
  PROVE  /\ Latest(r) \in Nat \ {0} /\ Current(r) \in Version /\ Resource[r] = Current(r)
         /\ \A i \in 1 .. Latest(r) : log[r][i] \in Version
<1>1. log[r] \in Seq(Version) /\ AddOnOK(r)
  BY DEF TypeOK, IndInv
<1> QED BY <1>1 DEF AddOnOK, Latest, Current, Resource

\* What Asked says of the log.
LEMMA AskedMeans ==
  ASSUME TypeOK, IndInv, NEW r \in AddOnSet, NEW g, NEW u
  PROVE  [gen |-> g, url |-> u] \in Asked[r] <=>
           \E i \in 1 .. Latest(r) : log[r][i] = [phase |-> "Pending", gen |-> g, url |-> u]
<1>1. ASSUME NEW i \in 1 .. Latest(r)
      PROVE  log[r][i] = [phase |-> "Pending", gen |-> g, url |-> u] <=>
               log[r][i].phase = "Pending" /\ log[r][i].gen = g /\ log[r][i].url = u
  <2>1. log[r][i] \in Version
    BY CurrentTypes
  <2> QED BY <2>1 DEF Version
<1>2. ASSUME NEW i \in 1 .. Latest(r)
      PROVE  [gen |-> g, url |-> u] = [gen |-> log[r][i].gen, url |-> log[r][i].url] <=>
               log[r][i].gen = g /\ log[r][i].url = u
  OBVIOUS
<1> QED BY <1>1, <1>2 DEF Asked, AskedFor

\* The life cycle and the controllers mean the same by Announced.
LEMMA AnnouncedMeans ==
  ASSUME TypeOK, IndInv, NEW r \in AddOnSet, NEW g
  PROVE  Announced(r, g) <=> Promise!Announced(r, g)
<1>1. PICK u : u = FALSE
  OBVIOUS
<1>2. [gen |-> g, url |-> u] \in Asked[r] <=>
        \E i \in 1 .. Latest(r) : log[r][i] = [phase |-> "Pending", gen |-> g, url |-> u]
  BY AskedMeans
<1>3. [gen |-> g, url |-> FALSE] \in Asked[r] <=>
        \E i \in 1 .. Latest(r) : log[r][i] = [phase |-> "Pending", gen |-> g, url |-> FALSE]
  BY <1>1, <1>2
<1> QED BY <1>3 DEF Announced, Promise!Announced

\* A step that does not write changes nothing the server has.
LEMMA Unwritten == UNCHANGED log => UNCHANGED <<Resource, Asked>>
BY DEF Resource, Asked, AskedFor, Current, Latest

\* A new version, and nothing else, changes what the server has.
LEMMA Written ==
  ASSUME TypeOK, IndInv, NEW r \in AddOnSet, NEW v \in Version,
         log' = [log EXCEPT ![r] = Append(@, v)]
  PROVE  /\ Resource' = [Resource EXCEPT ![r] = v]
         /\ Asked' = IF v.phase = "Pending"
                     THEN [Asked EXCEPT ![r] = @ \cup {[gen |-> v.gen, url |-> v.url]}] ELSE Asked
         /\ Current(r)' = v /\ Latest(r)' = Latest(r) + 1
         /\ \A i \in 1 .. Latest(r) : log'[r][i] = log[r][i]
<1>1. /\ \A q \in AddOnSet : log[q] \in Seq(Version) /\ Latest(q) \in Nat
      /\ log'[r] = Append(log[r], v)
      /\ \A q \in AddOnSet : q # r => log'[q] = log[q]
  BY DEF TypeOK, Latest
<1>2. /\ Latest(r)' = Latest(r) + 1 /\ log'[r][Latest(r) + 1] = v
      /\ \A i \in 1 .. Latest(r) : log'[r][i] = log[r][i]
  BY <1>1 DEF Latest
<1>3. \A q \in AddOnSet : Current(q)' = IF q = r THEN v ELSE Current(q)
  BY <1>1, <1>2 DEF Current, Latest
<1>4. ASSUME NEW q \in AddOnSet, q # r PROVE AskedFor(q)' = AskedFor(q)
  BY <1>1, <1>4 DEF AskedFor, Latest
<1>5. AskedFor(r)' = IF v.phase = "Pending" THEN AskedFor(r) \cup {[gen |-> v.gen, url |-> v.url]}
                     ELSE AskedFor(r)
  <2> DEFINE P == {j \in 1 .. Latest(r) : log[r][j].phase = "Pending"}
             n == Latest(r) + 1
  <2>1. 1 .. Latest(r)' = 1 .. Latest(r) \cup {n} /\ n \notin 1 .. Latest(r)
    BY <1>1, <1>2
  <2>2. {j \in 1 .. Latest(r)' : log'[r][j].phase = "Pending"} =
          IF v.phase = "Pending" THEN P \cup {n} ELSE P
    BY <1>2, <2>1
  <2>3. \A j \in P : log'[r][j] = log[r][j]
    BY <1>2
  <2>4. AskedFor(r)' = {[gen |-> log'[r][j].gen, url |-> log'[r][j].url] :
                         j \in IF v.phase = "Pending" THEN P \cup {n} ELSE P}
    BY <2>2 DEF AskedFor
  <2>5. AskedFor(r) = {[gen |-> log[r][j].gen, url |-> log[r][j].url] : j \in P}
    BY DEF AskedFor
  <2> HIDE DEF P
  <2>6. CASE v.phase # "Pending"
    BY <2>3, <2>4, <2>5, <2>6
  <2>7. CASE v.phase = "Pending"
    <3>1. AskedFor(r)' = {[gen |-> log'[r][j].gen, url |-> log'[r][j].url] : j \in P}
                           \cup {[gen |-> log'[r][n].gen, url |-> log'[r][n].url]}
      BY <2>4, <2>7
    <3>2. log'[r][n] = v
      BY <1>2
    <3>3. {[gen |-> log'[r][j].gen, url |-> log'[r][j].url] : j \in P} = AskedFor(r)
      BY <2>3, <2>5
    <3> QED BY <2>7, <3>1, <3>2, <3>3
  <2> QED BY <2>6, <2>7
<1>6. Asked' = IF v.phase = "Pending"
               THEN [Asked EXCEPT ![r] = @ \cup {[gen |-> v.gen, url |-> v.url]}] ELSE Asked
  BY <1>4, <1>5 DEF Asked
<1> QED BY <1>2, <1>3, <1>6 DEF Resource

\* What a client's step, and storing a phase, do to the log.
LEMMA ClientWrites ==
  ASSUME TypeOK, IndInv, NEW r \in AddOnSet, Touch(r) \/ Delete(r) \/ Create(r)
  PROVE  /\ UNCHANGED <<managed, told>>
         /\ \E v \in Version :
              /\ log' = [log EXCEPT ![r] = Append(@, v)]
              /\ v.gen >= Current(r).gen
              /\ \/ /\ Live(r) /\ v = [Current(r) EXCEPT !.url = v.url]
                 \/ /\ Live(r) /\ v = [Current(r) EXCEPT !.phase = "Gone"]
                 \/ /\ ~Live(r)
                    /\ v = [phase |-> "Pending", gen |-> Current(r).gen + 1, url |-> v.url]
<1>1. Current(r) \in Version /\ Current(r).gen \in Gens /\ MaxGens \in Nat
  BY CurrentTypes, AddOnAssumption DEF Version
<1>2. UNCHANGED <<managed, told>>
  BY DEF Touch, Delete, Create, cluster
<1>3. CASE Touch(r)
  <2>1. PICK u \in BOOLEAN : log' = [log EXCEPT ![r] = Append(@, [Current(r) EXCEPT !.url = u])]
    BY <1>3 DEF Touch, Urls
  <2>2. PICK v : v = [Current(r) EXCEPT !.url = u]
    OBVIOUS
  <2>3. v \in Version /\ v.url = u /\ v.gen = Current(r).gen
    BY <1>1, <2>2 DEF Version
  <2>4. v.gen >= Current(r).gen
    BY <1>1, <2>3 DEF Gens
  <2> QED BY <1>2, <1>3, <2>1, <2>2, <2>3, <2>4 DEF Touch
<1>4. CASE Delete(r)
  <2>1. PICK v : v = [Current(r) EXCEPT !.phase = "Gone"]
    OBVIOUS
  <2>2. v \in Version /\ v.gen = Current(r).gen
    BY <1>1, <2>1 DEF Version, Phases
  <2>3. v.gen >= Current(r).gen
    BY <1>1, <2>2 DEF Gens
  <2> QED BY <1>2, <1>4, <2>1, <2>2, <2>3 DEF Delete
<1>5. CASE Create(r)
  <2>1. PICK u \in BOOLEAN : log' = [log EXCEPT ![r] = Append(@,
          [phase |-> "Pending", gen |-> Current(r).gen + 1, url |-> u])]
    BY <1>5 DEF Create, Urls
  <2>2. PICK v : v = [phase |-> "Pending", gen |-> Current(r).gen + 1, url |-> u]
    OBVIOUS
  <2>3. Current(r).gen + 1 \in Gens
    BY <1>1, <1>5 DEF Create, Gens
  <2>4. v \in Version /\ v.url = u /\ v.gen = Current(r).gen + 1
    BY <2>2, <2>3 DEF Version, Phases
  <2>5. v.gen >= Current(r).gen
    BY <1>1, <2>4 DEF Gens
  <2> QED BY <1>2, <1>5, <2>1, <2>2, <2>4, <2>5 DEF Create
<1> QED BY <1>3, <1>4, <1>5

LEMMA SaveWrites ==
  ASSUME TypeOK, IndInv, NEW w \in Workers, SaveInstalling(w) \/ SaveImplemented(w),
         ~UNCHANGED <<log, told>>
  PROVE  \E r \in AddOnSet, p \in {"Installing", "Implemented"} :
           /\ r = work[w].key /\ UNCHANGED managed
           /\ log' = [log EXCEPT ![r] = Append(@, [Current(r) EXCEPT !.phase = p])]
           /\ \/ told' = told
              \/ /\ p = "Implemented" /\ Current(r).url
                 /\ told' = [told EXCEPT ![r] = @ \cup {<<Current(r).gen, "Completed">>}]
           /\ Announced(r, Current(r).gen)
           /\ p = "Installing" => Current(r).phase = "Pending"
           /\ p = "Implemented" => Current(r).phase \in {"Pending", "Installing"} /\ Succeeded(r)
<1>1. PICK r \in AddOnSet : r = work[w].key
  BY WorkTypes DEF SaveInstalling, SaveImplemented
<1>2. Accepted(w) /\ UNCHANGED managed
  BY DEF SaveInstalling, SaveImplemented, Update, cluster
<1>3. /\ log[r][work[w].ver] = Current(r) /\ GenOf(w) = Current(r).gen /\ UrlOf(w) = Current(r).url
      /\ \A p : [phase |-> p, gen |-> GenOf(w), url |-> UrlOf(w)] = [Current(r) EXCEPT !.phase = p]
  <2>1. /\ log[r][work[w].ver] = Current(r) /\ GenOf(w) = Current(r).gen /\ UrlOf(w) = Current(r).url
    BY <1>1, <1>2 DEF Accepted, Current, GenOf, UrlOf
  <2>2. Current(r) \in Version
    BY CurrentTypes
  <2> QED BY <2>1, <2>2 DEF Version
<1>4. WorkerOK(w)
  BY DEF IndInv
<1>5. Announced(r, Current(r).gen)
  BY <1>1, <1>3, <1>4 DEF WorkerOK, Waiting, SaveInstalling, SaveImplemented
<1>6. CASE SaveInstalling(w)
  <2>1. Current(r).phase = "Pending"
    BY <1>1, <1>3, <1>4, <1>6 DEF WorkerOK, Deploying, SaveInstalling
  <2>2. log' = [log EXCEPT ![r] = Append(@, [Current(r) EXCEPT !.phase = "Installing"])]
        /\ told' = told
    BY <1>1, <1>3, <1>6 DEF SaveInstalling, Update
  <2> QED BY <1>1, <1>2, <1>5, <2>1, <2>2
<1>7. CASE SaveImplemented(w)
  <2>1. Current(r).phase \in {"Pending", "Installing"} /\ Succeeded(r)
    BY <1>1, <1>3, <1>4, <1>7 DEF WorkerOK, Waiting, SaveImplemented
  <2>2. /\ log' = [log EXCEPT ![r] = Append(@, [Current(r) EXCEPT !.phase = "Implemented"])]
        /\ \/ told' = told
           \/ /\ Current(r).url
              /\ told' = [told EXCEPT ![r] = @ \cup {<<Current(r).gen, "Completed">>}]
    BY <1>1, <1>3, <1>7 DEF SaveImplemented, Update, Tell
  <2> QED BY <1>1, <1>2, <1>5, <2>1, <2>2
<1> QED BY <1>6, <1>7

\* The other steps do not write to the server.
LEMMA OthersWrite ==
  ASSUME [Next]_vars, ~(\E r \in AddOnSet : Touch(r) \/ Delete(r) \/ Create(r)),
         ~(\E w \in Workers : SaveInstalling(w) \/ SaveImplemented(w))
  PROVE  UNCHANGED log
BY DEF Next, vars, ClusterChanges, JobSucceeds, Deliver, Resync, GetItem, Process, Dispatch, Gate,
       GetConfig, Prepare, CreateJob, Announce, FindJob, Poll, Restart

LEMMA GensNext == TypeOK /\ IndInv /\ GensGrow /\ [Next]_vars => GensGrow'
<1> SUFFICES ASSUME TypeOK, IndInv, GensGrow, [Next]_vars PROVE GensGrow'
  OBVIOUS
<1>1. CASE UNCHANGED log
  BY <1>1 DEF GensGrow, Latest, Current
<1>2. ASSUME NEW r \in AddOnSet, NEW v \in Version, log' = [log EXCEPT ![r] = Append(@, v)],
             v.gen >= Current(r).gen
      PROVE  GensGrow'
  <2>1. ASSUME NEW q \in AddOnSet, NEW i \in 1 .. Latest(q)' PROVE log'[q][i].gen <= Current(q)'.gen
    <3>1. CASE q # r
      <4>1. log'[q] = log[q]
        BY <1>2, <3>1 DEF TypeOK
      <4> QED BY <2>1, <4>1 DEF GensGrow, Latest, Current
    <3>2. CASE q = r
      <4>1. /\ Current(r)' = v /\ Latest(r)' = Latest(r) + 1 /\ Latest(r) \in Nat
            /\ \A j \in 1 .. Latest(r) : log'[r][j] = log[r][j] /\ log[r][j] \in Version
            /\ Current(r) \in Version
        BY <1>2, Written, CurrentTypes
      <4>2. i \in 1 .. Latest(r) \/ (i = Latest(r) + 1 /\ log'[r][i] = v)
        BY <2>1, <3>2, <4>1 DEF Current
      <4>3. v.gen \in Int /\ Current(r).gen \in Int /\ \A j \in 1 .. Latest(r) : log[r][j].gen \in Int
        BY <4>1 DEF Version, Gens
      <4>4. CASE i \in 1 .. Latest(r)
        <5>1. log[r][i].gen <= Current(r).gen
          BY <4>4 DEF GensGrow
        <5>2. log[r][i].gen \in Int /\ log'[r][i] = log[r][i]
          BY <4>1, <4>3, <4>4
        <5>3. v.gen \in Int /\ Current(r).gen \in Int /\ Current(r).gen <= v.gen
          BY <1>2, <4>3
        <5>4. log[r][i].gen <= v.gen
          BY <5>1, <5>2, <5>3
        <5> QED BY <3>2, <4>1, <5>2, <5>4
      <4>5. CASE i = Latest(r) + 1 /\ log'[r][i] = v
        <5>1. log'[r][i].gen <= v.gen
          BY <4>3, <4>5
        <5> QED BY <3>2, <4>1, <5>1
      <4> QED BY <4>2, <4>4, <4>5
    <3> QED BY <3>1, <3>2
  <2> QED BY <2>1 DEF GensGrow
<1>3. ASSUME NEW r \in AddOnSet, Touch(r) \/ Delete(r) \/ Create(r) PROVE GensGrow'
  BY <1>2, <1>3, ClientWrites
<1>4. ASSUME NEW w \in Workers, SaveInstalling(w) \/ SaveImplemented(w) PROVE GensGrow'
  <2>1. CASE UNCHANGED log
    BY <1>1, <2>1
  <2>2. CASE ~UNCHANGED log
    <3>1. PICK r \in AddOnSet, p \in {"Installing", "Implemented"} :
            log' = [log EXCEPT ![r] = Append(@, [Current(r) EXCEPT !.phase = p])]
      BY <1>4, <2>2, SaveWrites
    <3>2. Current(r) \in Version
      BY CurrentTypes
    <3>3. PICK v : v = [Current(r) EXCEPT !.phase = p]
      OBVIOUS
    <3>4. v \in Version /\ v.gen = Current(r).gen
      BY <3>2, <3>3 DEF Version, Phases
    <3>5. v.gen >= Current(r).gen
      BY <3>2, <3>4 DEF Version, Gens
    <3> QED BY <1>2, <3>1, <3>3, <3>4, <3>5
  <2> QED BY <2>1, <2>2
<1> QED BY <1>1, <1>3, <1>4, OthersWrite

\* One step of each kind, as the life cycle sees it.
LEMMA ClientRefines ==
  ASSUME TypeOK, IndInv, NEW r \in AddOnSet, Touch(r) \/ Delete(r) \/ Create(r)
  PROVE  [Promise!Next]_<<Resource, Asked, managed, told>>
<1>1. /\ Current(r) \in Version /\ Resource[r] = Current(r) /\ r \in Promise!AddOnSet
      /\ UNCHANGED <<managed, told>>
  BY CurrentTypes, ClientWrites DEF Promise!AddOnSet, AddOnSet
<1>2. PICK v \in Version :
        /\ log' = [log EXCEPT ![r] = Append(@, v)]
        /\ \/ /\ Live(r) /\ v = [Current(r) EXCEPT !.url = v.url]
           \/ /\ Live(r) /\ v = [Current(r) EXCEPT !.phase = "Gone"]
           \/ /\ ~Live(r)
              /\ v = [phase |-> "Pending", gen |-> Current(r).gen + 1, url |-> v.url]
  BY ClientWrites
<1>3. /\ Resource' = [Resource EXCEPT ![r] = v]
      /\ Asked' = IF v.phase = "Pending"
                  THEN [Asked EXCEPT ![r] = @ \cup {[gen |-> v.gen, url |-> v.url]}] ELSE Asked
  BY <1>2, Written
<1>4. CASE Live(r) /\ v = [Current(r) EXCEPT !.url = v.url]
  <2>1. PICK u \in BOOLEAN : u = v.url
    BY DEF Version
  <2>2. v = [Current(r) EXCEPT !.url = u] /\ v.phase = Current(r).phase /\ v.gen = Current(r).gen
    BY <1>1, <1>4, <2>1 DEF Version
  <2>3. Resource' = [Resource EXCEPT ![r].url = u]
    BY <1>1, <1>3, <2>2 DEF Resource
  <2>4. IF Resource[r].phase = "Pending" THEN Promise!Ask(r, [gen |-> Resource[r].gen, url |-> u])
        ELSE UNCHANGED Asked
    BY <1>1, <1>3, <2>1, <2>2 DEF Promise!Ask
  <2>5. Resource[r].phase # "Gone"
    BY <1>1, <1>4 DEF Live
  <2>6. Promise!Annotate(r)
    BY <1>1, <2>3, <2>4, <2>5 DEF Promise!Annotate
  <2> QED BY <1>1, <2>6 DEF Promise!Next
<1>5. CASE Live(r) /\ v = [Current(r) EXCEPT !.phase = "Gone"]
  <2>1. v.phase = "Gone"
    BY <1>1, <1>5 DEF Version
  <2>2. Resource' = [Resource EXCEPT ![r].phase = "Gone"] /\ Resource[r].phase # "Gone"
    BY <1>1, <1>3, <1>5 DEF Resource, Live
  <2>3. Promise!Delete(r)
    BY <1>1, <1>3, <2>1, <2>2 DEF Promise!Delete, Promise!Move
  <2> QED BY <1>1, <2>3 DEF Promise!Next
<1>6. CASE ~Live(r) /\ v = [phase |-> "Pending", gen |-> Current(r).gen + 1, url |-> v.url]
  <2>1. PICK u \in BOOLEAN : u = v.url
    BY DEF Version
  <2>2. /\ v = [phase |-> "Pending", gen |-> Current(r).gen + 1, url |-> u]
        /\ v.phase = "Pending" /\ v.gen = Current(r).gen + 1
    BY <1>6, <2>1
  <2>3. /\ Resource' = [Resource EXCEPT ![r] = [phase |-> "Pending", gen |-> @.gen + 1, url |-> u]]
        /\ Resource[r].phase = "Gone"
    BY <1>1, <1>3, <1>6, <2>2 DEF Resource, Live
  <2>4. Promise!Ask(r, [gen |-> Resource[r].gen + 1, url |-> u])
    BY <1>1, <1>3, <2>1, <2>2 DEF Promise!Ask
  <2>5. Promise!Create(r)
    BY <1>1, <2>3, <2>4 DEF Promise!Create
  <2> QED BY <1>1, <2>5 DEF Promise!Next
<1> QED BY <1>2, <1>4, <1>5, <1>6

LEMMA SaveRefines ==
  ASSUME TypeOK, IndInv, NEW w \in Workers, SaveInstalling(w) \/ SaveImplemented(w)
  PROVE  [Promise!Next]_<<Resource, Asked, managed, told>>
<1>1. CASE UNCHANGED <<log, told>>
  <2>1. UNCHANGED managed
    BY DEF SaveInstalling, SaveImplemented, Update, cluster
  <2> QED BY <1>1, <2>1, Unwritten
<1>2. CASE ~UNCHANGED <<log, told>>
  <2>1. PICK r \in AddOnSet, p \in {"Installing", "Implemented"} :
          /\ UNCHANGED managed
          /\ log' = [log EXCEPT ![r] = Append(@, [Current(r) EXCEPT !.phase = p])]
          /\ \/ told' = told
             \/ /\ p = "Implemented" /\ Current(r).url
                /\ told' = [told EXCEPT ![r] = @ \cup {<<Current(r).gen, "Completed">>}]
          /\ Announced(r, Current(r).gen)
          /\ p = "Installing" => Current(r).phase = "Pending"
          /\ p = "Implemented" => Current(r).phase \in {"Pending", "Installing"} /\ Succeeded(r)
    BY <1>2, SaveWrites
  <2>2. Current(r) \in Version /\ Resource[r] = Current(r) /\ r \in Promise!AddOnSet
    BY CurrentTypes DEF Promise!AddOnSet, AddOnSet
  <2>3. PICK v : v = [Current(r) EXCEPT !.phase = p]
    OBVIOUS
  <2>4. v \in Version /\ v.phase # "Pending"
    BY <2>2, <2>3 DEF Version, Phases
  <2>5. Resource' = [Resource EXCEPT ![r] = v] /\ Asked' = Asked
    BY <2>1, <2>3, <2>4, Written
  <2>6. Promise!Move(r, p)
    BY <2>2, <2>3, <2>5 DEF Promise!Move
  <2>7. Promise!Announced(r, Resource[r].gen)
    BY <2>1, <2>2, AnnouncedMeans
  <2>8. CASE p = "Installing"
    <3>1. Promise!RecordDeployed(r)
      BY <2>1, <2>2, <2>6, <2>7, <2>8 DEF Promise!RecordDeployed
    <3> QED BY <2>2, <3>1 DEF Promise!Next
  <2>9. CASE p = "Implemented"
    <3>1. Promise!RecordImplemented(r)
      BY <2>1, <2>2, <2>6, <2>7, <2>9
         DEF Promise!RecordImplemented, Promise!Tell, Promise!Succeeded, Succeeded
    <3> QED BY <2>2, <3>1 DEF Promise!Next
  <2> QED BY <2>8, <2>9
<1> QED BY <1>1, <1>2

LEMMA CreateJobRefines ==
  ASSUME TypeOK, IndInv, NEW w \in Workers, CreateJob(w)
  PROVE  [Promise!Next]_<<Resource, Asked, managed, told>>
<1>1. UNCHANGED <<Resource, Asked, told>>
  BY Unwritten DEF CreateJob
<1>2. CASE UNCHANGED managed
  BY <1>1, <1>2
<1>3. CASE SubmitJob(w) /\ ~UNCHANGED managed
  <2>1. PICK r \in AddOnSet : r = work[w].key
    BY WorkTypes DEF CreateJob
  <2>2. managed[JobOf[r]] = "none" /\ managed' = [managed EXCEPT ![JobOf[r]] = "running"]
    BY <1>3, <2>1 DEF SubmitJob
  <2>3. r \in Applications => Succeeded(Needs[r])
    BY <2>1 DEF IndInv, WorkerOK, CreateJob
  <2>4. Promise!Deploy(r)
    BY <1>1, <2>2, <2>3 DEF Promise!Deploy, Promise!Succeeded, Succeeded
  <2> QED BY <2>4 DEF Promise!Next, Promise!AddOnSet, AddOnSet
<1> QED BY <1>2, <1>3 DEF CreateJob

LEMMA AnnounceRefines ==
  ASSUME TypeOK, IndInv, GensGrow, NEW w \in Workers, Announce(w)
  PROVE  [Promise!Next]_<<Resource, Asked, managed, told>>
<1>1. UNCHANGED <<Resource, Asked, managed>>
  BY Unwritten DEF Announce, cluster
<1>2. PICK r \in AddOnSet, n \in Nat, g \in Gens :
        /\ r = work[w].key /\ n = work[w].ver /\ n \in 1 .. Latest(r)
        /\ g = log[r][n].gen /\ g = GenOf(w)
        /\ log[r][n] \in Version /\ log[r][n].phase = "Pending"
  BY WorkTypes DEF Announce, Deploying, GenOf, IndInv, WorkerOK
<1>3. CASE ~UrlOf(w)
  BY <1>1, <1>3 DEF Announce, TellProgress, Tell
<1>4. CASE UrlOf(w)
  <2>1. g \in 1 .. Resource[r].gen /\ r \in Promise!AddOnSet
    <3>1. g <= Current(r).gen /\ Resource[r] = Current(r) /\ Current(r) \in Version
      BY <1>2, CurrentTypes DEF GensGrow
    <3> QED BY <3>1 DEF Version, Gens, Promise!AddOnSet, AddOnSet
  <2>2. Promise!Tell(r, <<g, "InProgress">>)
    BY <1>2, <1>4 DEF Announce, TellProgress, Tell, Promise!Tell
  <2>3. log[r][n].url = TRUE
    BY <1>2, <1>4 DEF UrlOf, Version
  <2>4. log[r][n] = [phase |-> "Pending", gen |-> g, url |-> TRUE]
    BY <1>2, <2>3 DEF Version
  <2>5. [gen |-> g, url |-> TRUE] \in Asked[r]
    BY <1>2, <2>4, AskedMeans
  <2>6. Promise!Announce(r, g)
    BY <1>1, <2>2, <2>5 DEF Promise!Announce
  <2> QED BY <2>1, <2>6 DEF Promise!Next
<1> QED BY <1>3, <1>4

\* The two controllers keep the promises of AddOnLifecycle: whatever informers,
\* workers, refused or lost updates, panics and stops do in between, a phase only
\* replaces one it may replace, and only when what it says is true.
THEOREM AddOnRefinement == Spec => ImplementsAddOnLifecycle
<1>1. Init => Promise!Init /\ GensGrow
  <2> SUFFICES ASSUME Init PROVE Promise!Init /\ GensGrow
    OBVIOUS
  <2>1. PICK A \in SUBSET Annotated :
          log = [r \in AddOnSet |-> <<[phase |-> "Pending", gen |-> 1, url |-> r \in A]>>]
    BY DEF Init
  <2> DEFINE url == [r \in AddOnSet |-> r \in A]
  <2>2. url \in [AddOnSet -> BOOLEAN] /\ \A r \in AddOnSet : url[r] = (r \in A)
    OBVIOUS
  <2> HIDE DEF url
  <2>3. ASSUME NEW r \in AddOnSet
        PROVE  /\ log[r] = <<[phase |-> "Pending", gen |-> 1, url |-> url[r]]>> /\ Latest(r) = 1
               /\ Current(r) = [phase |-> "Pending", gen |-> 1, url |-> url[r]]
               /\ AskedFor(r) = {[gen |-> 1, url |-> url[r]]}
    <3>1. log[r] = <<[phase |-> "Pending", gen |-> 1, url |-> url[r]]>>
      BY <2>1, <2>2
    <3>2. Latest(r) = 1 /\ Current(r) = [phase |-> "Pending", gen |-> 1, url |-> url[r]]
      BY <3>1 DEF Latest, Current
    <3>3. log[r][1] = [phase |-> "Pending", gen |-> 1, url |-> url[r]] /\ 1 .. Latest(r) = {1}
      BY <3>1, <3>2
    <3>4. {j \in 1 .. Latest(r) : log[r][j].phase = "Pending"} = {1}
      BY <3>3
    <3>5. AskedFor(r) = {[gen |-> log[r][i].gen, url |-> log[r][i].url] : i \in {1}}
      BY <3>4 DEF AskedFor
    <3> QED BY <3>1, <3>2, <3>3, <3>5
  <2>4. /\ Resource = [r \in AddOnSet |-> [phase |-> "Pending", gen |-> 1, url |-> url[r]]]
        /\ Asked = [r \in AddOnSet |-> {[gen |-> 1, url |-> url[r]]}]
    BY <2>3 DEF Resource, Asked
  <2>5. GensGrow
    <3>1. ASSUME NEW r \in AddOnSet, NEW i \in 1 .. Latest(r)
          PROVE  log[r][i].gen <= Current(r).gen
      <4>1. Latest(r) = 1 /\ Current(r).gen = 1
        <5>1. Latest(r) = 1 /\ Current(r) = [phase |-> "Pending", gen |-> 1, url |-> url[r]]
          BY <2>3, Zenon
        <5> QED BY <5>1
      <4>2. Current(r) = log[r][i]
        BY <3>1, <4>1 DEF Current
      <4> QED BY <4>1, <4>2
    <3> QED BY <3>1 DEF GensGrow
  <2>6. managed = [j \in Jobs |-> "none"] /\ told = [r \in AddOnSet |-> {}]
    BY DEF Init
  <2> QED BY <2>2, <2>4, <2>5, <2>6 DEF Promise!Init, Promise!AddOnSet, AddOnSet
<1>2. TypeOK /\ IndInv /\ GensGrow /\ [Next]_vars =>
        [Promise!Next]_<<Resource, Asked, managed, told>>
  <2> SUFFICES ASSUME TypeOK, IndInv, GensGrow, [Next]_vars
               PROVE  [Promise!Next]_<<Resource, Asked, managed, told>>
    OBVIOUS
  <2>1. CASE UNCHANGED <<log, managed, told>>
    BY <2>1, Unwritten
  <2>2. ASSUME NEW r \in AddOnSet, JobSucceeds(r)
        PROVE  [Promise!Next]_<<Resource, Asked, managed, told>>
    <3>1. UNCHANGED <<Resource, Asked>>
      BY <2>2, Unwritten DEF JobSucceeds
    <3>2. Promise!JobSucceeds(JobOf[r])
      BY <2>2, <3>1 DEF JobSucceeds, Promise!JobSucceeds
    <3>3. JobOf[r] \in Jobs
      BY AddOnAssumption
    <3> QED BY <3>2, <3>3 DEF Promise!Next
  <2>3. ASSUME NEW w \in Workers, GetItem(w) \/ Process(w)
        PROVE  [Promise!Next]_<<Resource, Asked, managed, told>>
    <3>1. CASE CreateJob(w) \/ Announce(w) \/ SaveInstalling(w) \/ SaveImplemented(w)
      BY <3>1, CreateJobRefines, AnnounceRefines, SaveRefines
    <3>2. CASE GetItem(w) \/ Dispatch(w) \/ Gate(w) \/ GetConfig(w) \/ Prepare(w) \/ FindJob(w) \/ Poll(w)
      BY <2>1, <3>2 DEF GetItem, Dispatch, Gate, GetConfig, Prepare, FindJob, Poll, cluster
    <3> QED BY <2>3, <3>1, <3>2 DEF Process
  <2>4. ASSUME NEW r \in AddOnSet, Deliver(r) \/ Resync(r) PROVE UNCHANGED <<log, managed, told>>
    BY <2>4 DEF Deliver, Resync, cluster
  <2>5. CASE ClusterChanges \/ Restart \/ UNCHANGED vars
    BY <2>1, <2>5 DEF ClusterChanges, Restart, vars, cluster
  <2> QED BY <2>1, <2>2, <2>3, <2>4, <2>5, ClientRefines DEF Next
<1>3. GensGrow /\ TypeOK /\ IndInv /\ [Next]_vars => GensGrow'
  BY GensNext
<1> QED BY <1>1, <1>2, <1>3, Invariance, PTL
        DEF Spec, ImplementsAddOnLifecycle, Promise!Spec, Promise!vars

-----------------------------------------------------------------------------
(* What the store shows of an add-on that is not installed *)

\* An object shows Implemented over a version that is not, the latest, only while
\* a worker is about to save just that.
ShownIsSaved ==
  \A r \in AddOnSet \ Failing :
    /\ store[r].ver = Latest(r) /\ Current(r).phase \in {"Pending", "Installing"}
    /\ store[r].phase = "Implemented"
    => \E w \in Workers : work[w].pc = "saveImplemented" /\ work[w].key = r /\ work[w].ver = Latest(r)

\* It stays so where log and object do not change, the saving worker included.
LEMMA ShownKept ==
  ASSUME TypeOK, IndInv, ShownIsSaved, UNCHANGED <<log, store>>,
         \A w \in Workers : work[w].pc = "saveImplemented" => work'[w] = work[w]
  PROVE  ShownIsSaved'
BY DEF ShownIsSaved, Latest, Current

\* A new version of an add-on is one its object in the store is behind.
LEMMA ShownWritten ==
  ASSUME TypeOK, IndInv, ShownIsSaved, NEW r \in AddOnSet, NEW v,
         log' = [log EXCEPT ![r] = Append(@, v)], UNCHANGED store,
         \A w \in Workers : work[w].pc = "saveImplemented" /\ work[w].key # r => work'[w] = work[w]
  PROVE  ShownIsSaved'
<1>1. /\ log[r] \in Seq(Version) /\ Latest(r) \in Nat /\ store[r].ver \in Nat
      /\ store[r].ver <= Latest(r)
  <2>1. AddOnOK(r) /\ log[r] \in Seq(Version) /\ store[r] \in [phase : Phases, ver : Nat \ {0}]
    BY DEF TypeOK, IndInv
  <2> QED BY <2>1 DEF AddOnOK, StoreOK, Latest
<1>2. log'[r] = Append(log[r], v) /\ \A q \in AddOnSet : q # r => log'[q] = log[q]
  BY DEF TypeOK
<1>3. Latest(r)' = Latest(r) + 1
  BY <1>1, <1>2 DEF Latest
<1>4. store'[r].ver # Latest(r)'
  BY <1>1, <1>3
<1>5. ASSUME NEW q \in AddOnSet, q # r
      PROVE  Latest(q)' = Latest(q) /\ Current(q)' = Current(q) /\ store'[q] = store[q]
  BY <1>2, <1>5 DEF Latest, Current
<1> QED BY <1>4, <1>5 DEF ShownIsSaved

\* An object that shows what its version says, or Installing, needs no worker.
LEMMA ShownAssigned ==
  ASSUME TypeOK, IndInv, ShownIsSaved, UNCHANGED log, NEW r \in AddOnSet,
         \A q \in AddOnSet : q # r => store'[q] = store[q],
         store'[r].phase # "Implemented" \/ store'[r].phase = log[r][store'[r].ver].phase,
         \A w \in Workers : work[w].pc = "saveImplemented" => work'[w] = work[w]
  PROVE  ShownIsSaved'
BY DEF ShownIsSaved, Latest, Current

\* A fresh process shows what the server has.
LEMMA ShownStarted ==
  ASSUME TypeOK, IndInv, Started, UNCHANGED log
  PROVE  ShownIsSaved'
<1>1. \A r \in AddOnSet : store'[r] = [phase |-> Current(r).phase, ver |-> Latest(r)]
  BY DEF Started
<1>2. ASSUME NEW r \in AddOnSet PROVE store'[r].phase = Current(r)'.phase
  <2>1. PICK p, n : p = Current(r).phase /\ n = Latest(r)
    OBVIOUS
  <2>2. store'[r] = [phase |-> p, ver |-> n]
    BY <1>1, <2>1
  <2>3. store'[r].phase = p
    BY <2>2
  <2>4. Current(r)' = Current(r)
    BY DEF Latest, Current
  <2> QED BY <2>1, <2>3, <2>4, Zenon
<1> QED BY <1>2 DEF ShownIsSaved

\* A step of a worker is a step of no other one, unless the operator panics.
LEMMA OneWorkerMoves ==
  ASSUME TypeOK, NEW w \in Workers, GetItem(w) \/ Process(w), ~Started
  PROVE  Others(w)
<1>1. work \in [Workers -> Work]
  BY DEF TypeOK
<1>2. ASSUME Return(w) PROVE Others(w)
  BY <1>1, <1>2 DEF Return, Others
<1>3. ASSUME NEW pc, Goto(w, pc) PROVE Others(w)
  BY <1>1, <1>3 DEF Goto, Others
<1>4. CASE GetItem(w)
  BY <1>1, <1>4 DEF GetItem, Others
<1>5. CASE Dispatch(w)
  <2>1. CASE ~Return(w)
    <3>1. PICK pc, n : work' = [work EXCEPT ![w].pc = pc, ![w].ver = n]
      BY <1>5, <2>1 DEF Dispatch
    <3> QED BY <1>1, <3>1 DEF Others
  <2> QED BY <1>2, <2>1
<1>6. CASE GetConfig(w)
  <2>1. CASE ~Return(w)
    <3>1. PICK pc, on : work' = [work EXCEPT ![w].pc = pc, ![w].on = on]
      BY <1>6, <2>1 DEF GetConfig
    <3> QED BY <1>1, <3>1 DEF Others
  <2> QED BY <1>2, <2>1
<1>7. CASE Poll(w)
  <2>1. CASE CountPoll(w)
    BY <1>1, <2>1 DEF CountPoll, Others
  <2> QED BY <1>2, <1>3, <1>7, <2>1 DEF Poll, NotYet
<1>8. CASE Gate(w) \/ Prepare(w) \/ CreateJob(w) \/ Announce(w) \/ FindJob(w)
  BY <1>2, <1>3, <1>8 DEF Gate, Prepare, CreateJob, Announce, FindJob
<1>9. CASE SaveInstalling(w) \/ SaveImplemented(w)
  BY <1>2, <1>9 DEF SaveInstalling, SaveImplemented, Update
<1> QED BY <1>4, <1>5, <1>6, <1>7, <1>8, <1>9 DEF Process

\* Finding a job succeeded is followed by saving just what the object shows.
LEMMA PollShown ==
  ASSUME TypeOK, IndInv, ShownIsSaved, NEW w \in Workers, Poll(w)
  PROVE  ShownIsSaved'
<1>1. work[w].pc = "poll" /\ UNCHANGED log /\ work[w] \in Work
  BY DEF Poll, TypeOK
<1>2. PICK k \in AddOnSet : k = work[w].key
  BY <1>1, WorkTypes
<1>3. CASE UNCHANGED store /\ Others(w)
  BY <1>1, <1>3, ShownKept DEF Others
<1>4. CASE NotYet(w)
  BY <1>1, <1>3, <1>4, ReturnMoves DEF NotYet, CountPoll, Others, TypeOK
<1>5. CASE Assign(w, "Implemented") /\ Goto(w, "saveImplemented") /\ store[k].ver = work[w].ver
  <2>1. store' = [store EXCEPT ![k].phase = "Implemented"]
    BY <1>2, <1>5 DEF Assign
  <2>2. Others(w) /\ work'[w] = [work[w] EXCEPT !.pc = "saveImplemented"]
    BY <1>5, GotoMoves DEF Steps
  <2>3. /\ work'[w].pc = "saveImplemented" /\ work'[w].key = k /\ work'[w].ver = store[k].ver
    BY <1>1, <1>2, <1>5, <2>2 DEF Work
  <2>4. store'[k].ver = store[k].ver /\ \A q \in AddOnSet : q # k => store'[q] = store[q]
    BY <2>1 DEF TypeOK
  <2>5. \A q \in AddOnSet : Latest(q)' = Latest(q) /\ Current(q)' = Current(q)
    BY <1>1 DEF Latest, Current
  <2>6. \A v \in Workers : work[v].pc = "saveImplemented" => work'[v] = work[v]
    BY <1>1, <2>2 DEF Others
  <2> QED BY <2>3, <2>4, <2>5, <2>6 DEF ShownIsSaved
<1>6. CASE Assign(w, "Implemented") /\ Goto(w, "saveImplemented") /\ store[k].ver # work[w].ver
  BY <1>2, <1>3, <1>6, GotoMoves DEF Assign, Steps
<1> QED BY <1>2, <1>4, <1>5, <1>6 DEF Poll

\* The update that saves what the object shows is not refused while the object is
\* the latest, and it is not lost unless calls fail for this add-on.
LEMMA SaveShown ==
  ASSUME TypeOK, IndInv, ShownIsSaved, NEW w \in Workers,
         SaveInstalling(w) \/ SaveImplemented(w)
  PROVE  ShownIsSaved'
<1>1. PICK k \in AddOnSet : k = work[w].key
  BY WorkTypes DEF SaveInstalling, SaveImplemented
<1>2. UNCHANGED store /\ Return(w) /\ Others(w)
  BY ReturnMoves DEF SaveInstalling, SaveImplemented, Update
<1>3. CASE ~UNCHANGED log
  <2>1. PICK v : log' = [log EXCEPT ![k] = Append(@, v)]
    BY <1>1, <1>3 DEF SaveInstalling, SaveImplemented, Update
  <2> QED BY <1>1, <1>2, <2>1, ShownWritten DEF Others
<1>4. CASE UNCHANGED log
  <2>1. ~Accepted(w) \/ k \in Failing \/ work[w].pc # "saveImplemented"
    <3>1. ASSUME Accepted(w), k \notin Failing PROVE FALSE
      <4>1. PICK v : log' = [log EXCEPT ![k] = Append(@, v)]
        BY <1>1, <3>1 DEF SaveInstalling, SaveImplemented, Update
      <4>2. log'[k] = Append(log[k], v) /\ log[k] \in Seq(Version)
        BY <4>1 DEF TypeOK
      <4>3. Len(log'[k]) # Len(log[k])
        BY <4>2
      <4> QED BY <1>4, <4>3
    <3> QED BY <3>1
  <2>2. SUFFICES ASSUME NEW r \in AddOnSet \ Failing, store[r].ver = Latest(r),
                        Current(r).phase \in {"Pending", "Installing"},
                        store[r].phase = "Implemented"
                 PROVE  \E v \in Workers : /\ work'[v].pc = "saveImplemented" /\ work'[v].key = r
                                           /\ work'[v].ver = Latest(r)
    BY <1>2, <1>4 DEF ShownIsSaved, Latest, Current
  <2>3. PICK v \in Workers :
          work[v].pc = "saveImplemented" /\ work[v].key = r /\ work[v].ver = Latest(r)
    BY <2>2 DEF ShownIsSaved
  <2>4. v # w
    BY <1>1, <2>1, <2>2, <2>3 DEF Accepted, Live
  <2> QED BY <1>2, <2>3, <2>4 DEF Others
<1> QED BY <1>3, <1>4

LEMMA ShownNext == TypeOK /\ IndInv /\ ShownIsSaved /\ [Next]_vars => ShownIsSaved'
<1> SUFFICES ASSUME TypeOK, IndInv, ShownIsSaved, [Next]_vars PROVE ShownIsSaved'
  OBVIOUS
<1>1. CASE UNCHANGED <<log, store, work>>
  BY <1>1, ShownKept
<1>2. ASSUME NEW r \in AddOnSet, Touch(r) \/ Delete(r) \/ Create(r) PROVE ShownIsSaved'
  <2>1. PICK v : log' = [log EXCEPT ![r] = Append(@, v)]
    BY <1>2, ClientWrites
  <2>2. UNCHANGED <<store, work>>
    BY <1>2 DEF Touch, Delete, Create
  <2> QED BY <2>1, <2>2, ShownWritten
<1>3. ASSUME NEW r \in AddOnSet, Deliver(r) PROVE ShownIsSaved'
  <2>1. /\ store' = [store EXCEPT ![r] = [phase |-> log[r][store[r].ver + 1].phase,
                                          ver |-> store[r].ver + 1]]
        /\ UNCHANGED <<log, work>>
    BY <1>3 DEF Deliver
  <2>2. /\ store'[r].phase = log[r][store'[r].ver].phase
        /\ \A q \in AddOnSet : q # r => store'[q] = store[q]
    BY <2>1 DEF TypeOK
  <2> QED BY <2>1, <2>2, ShownAssigned
<1>4. ASSUME NEW r \in AddOnSet, JobSucceeds(r) \/ Resync(r) PROVE UNCHANGED <<log, store, work>>
  BY <1>4 DEF JobSucceeds, Resync
<1>5. CASE Started /\ UNCHANGED log
  BY <1>5, ShownStarted
<1>6. ASSUME NEW w \in Workers, GetItem(w) \/ Process(w) PROVE ShownIsSaved'
  <2>1. CASE Poll(w) \/ SaveInstalling(w) \/ SaveImplemented(w)
    BY <2>1, PollShown, SaveShown
  <2>2. CASE ~(Poll(w) \/ SaveInstalling(w) \/ SaveImplemented(w))
    <3>1. UNCHANGED log /\ work[w].pc # "saveImplemented"
      BY <1>6, <2>2 DEF Process, GetItem, Dispatch, Gate, GetConfig, Prepare, CreateJob,
                           Announce, FindJob
    <3>2. CASE UNCHANGED store /\ ~Started
      BY <1>6, <3>1, <3>2, OneWorkerMoves, ShownKept DEF Others
    <3>3. CASE Announce(w) /\ ~Started
      <4>1. Assign(w, "Installing") /\ Others(w)
        BY <1>6, <3>3, OneWorkerMoves DEF Announce
      <4>2. PICK k \in AddOnSet : k = work[w].key
        BY <3>3, WorkTypes DEF Announce
      <4>3. CASE UNCHANGED store
        BY <3>2, <3>3, <4>3
      <4>4. CASE ~UNCHANGED store
        <5>1. store' = [store EXCEPT ![k].phase = "Installing"]
          BY <4>1, <4>2, <4>4 DEF Assign
        <5>2. store'[k].phase = "Installing" /\ \A q \in AddOnSet : q # k => store'[q] = store[q]
          BY <5>1 DEF TypeOK
        <5> QED BY <3>1, <4>1, <4>2, <5>2, ShownAssigned DEF Others
      <4> QED BY <4>3, <4>4
    <3>4. UNCHANGED store \/ Announce(w) \/ Started
      BY <1>6, <2>2 DEF Process, GetItem, Dispatch, Gate, GetConfig, Prepare, CreateJob, FindJob
    <3> QED BY <1>5, <3>1, <3>2, <3>3, <3>4
  <2> QED BY <2>1, <2>2
<1>7. CASE Restart
  BY <1>5, <1>7 DEF Restart
<1>8. CASE ClusterChanges \/ UNCHANGED vars
  BY <1>1, <1>8 DEF ClusterChanges, vars
<1> QED BY <1>1, <1>2, <1>3, <1>4, <1>6, <1>7, <1>8 DEF Next

\* A resync finds every add-on that is not installed, that no worker is busy with
\* and for which the API servers answer: the object in the store, in which workers
\* assign phases before they save them, does not show it as installed
\* (handleErr, controller.go:158).
THEOREM ResyncFindsIt == Spec => []ResyncRetries
<1>1. Init => ShownIsSaved
  BY DEF Init, ShownIsSaved
<1>2. TypeOK /\ IndInv /\ ShownIsSaved /\ [Next]_vars => ShownIsSaved'
  BY ShownNext
<1>3. TypeOK /\ IndInv /\ ShownIsSaved => ResyncRetries
  <2> SUFFICES ASSUME TypeOK, IndInv, ShownIsSaved, NEW r \in AddOnSet \ Failing,
                      store[r].ver = Latest(r), Current(r).phase \in {"Pending", "Installing"},
                      \A w \in Workers : work[w].key # r
               PROVE  store[r].phase \in {"Pending", "Installing"}
    BY DEF ResyncRetries
  <2>1. store[r].phase \in MayShow(Current(r).phase)
    BY DEF IndInv, AddOnOK, StoreOK, Current
  <2>2. store[r].phase # "Implemented"
    BY DEF ShownIsSaved
  <2> QED BY <2>1, <2>2 DEF MayShow
<1> QED BY <1>1, <1>2, <1>3, Invariance, PTL DEF Spec

-----------------------------------------------------------------------------
(* What is behind the two violations of the addons_management and             *)
(* addons_redeploy runs: without it, what they check holds.                   *)

\* Workers are at work on the managed cluster.
OnManaged == management = FALSE /\ \A w \in Workers : work[w].on = "managed"

LEMMA OnManagedNext ==
  ASSUME Keyless = {}, TypeOK, OnManaged, [Next]_vars
  PROVE  OnManaged'
<1>1. /\ work \in [Workers -> Work]
      /\ \A w \in Workers : work[w].on = "managed" /\ DOMAIN work[w] = DOMAIN Free
  BY DEF TypeOK, OnManaged, Work, Free
<1>2. ASSUME Started PROVE \A w \in Workers : work'[w].on = "managed"
  BY <1>2 DEF Started, Free
<1>3. ASSUME NEW w \in Workers, GetItem(w) \/ Process(w)
      PROVE  \A v \in Workers : work'[v].on = "managed"
  <2> SUFFICES ASSUME ~Started PROVE work'[w].on = "managed"
    BY <1>1, <1>2, <1>3, OneWorkerMoves DEF Others, Started, Free
  <2>1. ASSUME Return(w) PROVE work'[w].on = "managed"
    BY <1>1, <2>1 DEF Return, Free
  <2>2. ASSUME NEW pc, Goto(w, pc) PROVE work'[w].on = "managed"
    BY <1>1, <2>2 DEF Goto, Free
  <2>3. CASE GetItem(w)
    BY <1>1, <2>3 DEF GetItem, Free
  <2>4. CASE Dispatch(w)
    <3>1. CASE ~Return(w)
      <4>1. PICK pc, n : work' = [work EXCEPT ![w].pc = pc, ![w].ver = n]
        BY <2>4, <3>1 DEF Dispatch
      <4> QED BY <1>1, <4>1 DEF Free
    <3> QED BY <2>1, <3>1
  <2>5. CASE GetConfig(w)
    <3>1. CASE ~Return(w)
      <4>1. PICK pc : work' = [work EXCEPT ![w].pc = pc, ![w].on = "managed"]
        BY <2>5, <3>1 DEF GetConfig, ConfigAnswers
      <4> QED BY <1>1, <4>1 DEF Free
    <3> QED BY <2>1, <3>1
  <2>6. CASE Poll(w)
    <3>1. CASE CountPoll(w)
      BY <1>1, <3>1 DEF CountPoll, Free
    <3> QED BY <2>1, <2>2, <2>6, <3>1 DEF Poll, NotYet
  <2>7. CASE Gate(w) \/ Prepare(w) \/ CreateJob(w) \/ Announce(w) \/ FindJob(w)
    BY <2>1, <2>2, <2>7 DEF Gate, Prepare, CreateJob, Announce, FindJob
  <2>8. CASE SaveInstalling(w) \/ SaveImplemented(w)
    BY <2>1, <2>8 DEF SaveInstalling, SaveImplemented, Update
  <2> QED BY <1>3, <2>3, <2>4, <2>5, <2>6, <2>7, <2>8 DEF Process
<1>4. ASSUME NEW w \in Workers, GetItem(w) \/ Process(w) PROVE management' = management
  <2>1. CASE CreateJob(w)
    BY <1>1, <2>1 DEF CreateJob, SubmitJob
  <2>2. CASE ~CreateJob(w)
    BY <1>4, <2>2 DEF GetItem, Process, Dispatch, Gate, GetConfig, Prepare, Announce, FindJob, Poll,
           SaveInstalling, SaveImplemented, Update, cluster
  <2> QED BY <2>1, <2>2
<1>5. CASE UNCHANGED <<work, management>>
  BY <1>5 DEF OnManaged
<1>6. ASSUME NEW r \in AddOnSet,
             Touch(r) \/ Delete(r) \/ Create(r) \/ JobSucceeds(r) \/ Deliver(r) \/ Resync(r)
      PROVE  UNCHANGED <<work, management>>
  BY <1>6 DEF Touch, Delete, Create, JobSucceeds, Deliver, Resync, cluster
<1>7. ASSUME NEW w \in Workers, GetItem(w) \/ Process(w) PROVE OnManaged'
  BY <1>3, <1>4, <1>7 DEF OnManaged
<1>8. CASE Restart
  BY <1>8 DEF Restart, Started, Free, OnManaged, cluster
<1>9. CASE ClusterChanges \/ UNCHANGED vars
  BY <1>5, <1>9 DEF ClusterChanges, cluster, vars
<1> QED BY <1>5, <1>6, <1>7, <1>8, <1>9 DEF Next

\* Only an empty kubeconfig sends an installation astray: when every answer is the
\* managed cluster's kubeconfig or an error, nothing is ever installed on the
\* management cluster, whatever fails, panics or stops (controller.go:296-305).
THEOREM OnlyEmptyGoesAstray == Keyless = {} => (Spec => []NothingOnManagement)
<1> SUFFICES ASSUME Keyless = {} PROVE Spec => []NothingOnManagement
  OBVIOUS
<1>1. Init => OnManaged
  BY DEF Init, OnManaged, Free
<1>2. TypeOK /\ OnManaged /\ [Next]_vars => OnManaged'
  BY OnManagedNext
<1>3. OnManaged => NothingOnManagement
  BY DEF OnManaged, NothingOnManagement
<1> QED BY <1>1, <1>2, <1>3, AddOnsTypeCorrect, PTL DEF Spec

\* No two add-ons share the name of a job.
JobsApart == \A q, r \in AddOnSet : JobOf[q] = JobOf[r] => q = r

\* A job that is there was made for its one add-on.
MadeForIt == \A r \in AddOnSet : managed[JobOf[r]] # "none" => madeFor[JobOf[r]] = <<r, 1>>

LEMMA MadeForNext ==
  ASSUME JobsApart, MaxGens = 1, TypeOK, IndInv, MadeForIt, [Next]_vars
  PROVE  MadeForIt'
<1>1. CASE UNCHANGED <<managed, madeFor>>
  BY <1>1 DEF MadeForIt
<1>2. ASSUME NEW r \in AddOnSet, JobSucceeds(r) PROVE MadeForIt'
  <2>1. PICK j \in Jobs : j = JobOf[r]
    BY AddOnAssumption
  <2>2. /\ managed[j] = "running" /\ managed' = [managed EXCEPT ![j] = "succeeded"]
        /\ madeFor' = madeFor
    BY <1>2, <2>1 DEF JobSucceeds
  <2>3. ASSUME NEW q \in AddOnSet, managed'[JobOf[q]] # "none" PROVE managed[JobOf[q]] # "none"
    BY <2>2, <2>3 DEF TypeOK
  <2> QED BY <2>2, <2>3 DEF MadeForIt
<1>3. ASSUME NEW w \in Workers, CreateJob(w) PROVE MadeForIt'
  <2>1. CASE ~SubmitJob(w)
    BY <1>1, <1>3, <2>1 DEF CreateJob
  <2>2. CASE SubmitJob(w)
    <3>1. PICK k \in AddOnSet : k = work[w].key
      BY <1>3, WorkTypes DEF CreateJob
    <3>2. GenOf(w) = 1
      <4>1. GenOf(w) \in Gens
        BY <1>3, WorkTypes DEF CreateJob, Deploying
      <4> QED BY <4>1 DEF Gens
    <3>3. CASE /\ managed' = [managed EXCEPT ![JobOf[k]] = "running"]
               /\ madeFor' = [madeFor EXCEPT ![JobOf[k]] = <<k, 1>>]
      <4>1. \A r \in AddOnSet : JobOf[r] \in Jobs /\ (JobOf[r] = JobOf[k] => r = k)
        BY AddOnAssumption DEF JobsApart
      <4> QED BY <3>3, <4>1 DEF MadeForIt, TypeOK
    <3> QED BY <1>1, <2>2, <3>1, <3>2, <3>3 DEF SubmitJob
  <2> QED BY <2>1, <2>2
<1>4. ASSUME NEW r \in AddOnSet, Touch(r) \/ Delete(r) \/ Create(r) \/ Deliver(r) \/ Resync(r)
      PROVE  UNCHANGED <<managed, madeFor>>
  BY <1>4 DEF Touch, Delete, Create, Deliver, Resync, cluster
<1>5. ASSUME NEW w \in Workers, GetItem(w) \/ Process(w), ~CreateJob(w)
      PROVE  UNCHANGED <<managed, madeFor>>
  BY <1>5 DEF GetItem, Process, Dispatch, Gate, GetConfig, Prepare, Announce, FindJob, Poll,
         SaveInstalling, SaveImplemented, Update, cluster
<1>6. CASE ClusterChanges \/ Restart \/ UNCHANGED vars
  BY <1>1, <1>6 DEF ClusterChanges, Restart, cluster, vars
<1> QED BY <1>1, <1>2, <1>3, <1>4, <1>5, <1>6 DEF Next, Process

\* A Completed that was not earned comes from the names of jobs alone: where no two
\* add-ons share one, and no client creates a name that was deleted, every
\* deployment that is announced as complete was run for that very add-on.
THEOREM OnlyNamesConfuse == JobsApart /\ MaxGens = 1 => (Spec => []CompletedWasRunForIt)
<1> SUFFICES ASSUME JobsApart, MaxGens = 1 PROVE Spec => []CompletedWasRunForIt
  OBVIOUS
<1>1. Init => MadeForIt
  BY AddOnAssumption DEF Init, MadeForIt
<1>2. TypeOK /\ IndInv /\ MadeForIt /\ [Next]_vars => MadeForIt'
  BY MadeForNext
<1>3. TypeOK /\ IndInv /\ MadeForIt => CompletedWasRunForIt
  <2> SUFFICES ASSUME TypeOK, IndInv, MadeForIt, NEW r \in AddOnSet, NEW g \in Gens,
                      <<g, "Completed">> \in told[r]
               PROVE  madeFor[JobOf[r]] = <<r, g>>
    BY DEF CompletedWasRunForIt
  <2>1. managed[JobOf[r]] = "succeeded"
    BY DEF IndInv, AddOnOK, Succeeded
  <2>2. g = 1
    BY DEF Gens
  <2> QED BY <2>1, <2>2 DEF MadeForIt
<1> QED BY <1>1, <1>2, <1>3, Invariance, PTL DEF Spec
=============================================================================
