-------------------------- MODULE ClusterController --------------------------
(***************************************************************************)
(* The SDSCluster controller (pkg/controllers/sds-cluster/controller.go)   *)
(* with the API server it writes to, the informer cache it reads from, its *)
(* work queue, its workers, and the goroutines the workers spawn.          *)
(*                                                                         *)
(* The API server is a log of versions per name; the index of a version is *)
(* its resourceVersion.  The informer decodes a version into an object the *)
(* store and every goroutine started for it share: a goroutine assigns     *)
(* Status.Phase in place (controller.go:259, 275, 503), so what the store  *)
(* holds may differ from every version the server ever had.                *)
(*                                                                         *)
(* The phases None, Pending and WaitingForCluster are treated alike by the *)
(* code (controller.go:156) and are one phase here, "Waiting".  "Gone" is  *)
(* the version a deletion leaves, and "Garbled" any text read while        *)
(* another goroutine is assigning the phase: that is a data race, and the  *)
(* two words of a Go string can be torn.                                   *)
(***************************************************************************)
EXTENDS WorkQueue

CONSTANTS
  Clusters,      \* the names of the SDSCluster resources
  Workers,       \* the worker goroutines of this controller (root.go starts 3)
  Slots,         \* bound: handler goroutines of one name alive at once
  MaxTries,      \* WaitForClusterChangeMaxTries (100 in the code)
  Answers,       \* what the cluster-manager-api may answer to GetCluster
  ApiFails,      \* whether a call to the API server may fail or lose its answer
  Rewrites,      \* whether clients also write without changing the phase
  MaxVersions,   \* bound: clients write only below this length of a log
  MaxRelists,    \* bound: how often the informer lists again
  MaxRestarts,   \* bound: how often the operator restarts
  NoKey          \* a worker that waits in queue.Get

Phases  == {"Gone", "Waiting", "Ready", "Failed", "Error", "Deleting", "Upgrading", "Garbled"}
Notices == {"InProgress", "Completed", "Failed", "Deleted"}

\* GetCluster answers with a status the code takes for running, with ERROR,
\* with any other status, or with an error.
AllAnswers == {"running", "error", "other", "fail"}

\* Where a handler goroutine stands.
Steps == {"idle", "wait", "read", "install", "saveReady", "fail", "save",
          "announce", "delete", "remove"}

ASSUME ConstantsAssumption ==
  /\ IsFiniteSet(Clusters) /\ NoKey \notin Clusters
  /\ MaxTries \in Nat \ {0}
  /\ Answers \subseteq AllAnswers
  /\ ApiFails \in BOOLEAN /\ Rewrites \in BOOLEAN
  /\ MaxVersions \in Nat /\ MaxRelists \in Nat /\ MaxRestarts \in Nat

VARIABLES
  log,        \* log[c]: the versions of c on the API server, oldest first
  heap,       \* heap[c]: the decoded objects; the last one is in the store
  queue,      \* the work queue
  working,    \* working[w]: the key worker w holds, and whether it is processed
  tasks,      \* tasks[c][s]: the handler goroutines of c
  sent,       \* sent[c]: the notices handed to the callback package so far
  relists, restarts

vars == <<log, heap, queue, working, tasks, sent, relists, restarts>>

Version == [phase : Phases, url : BOOLEAN, gen : Nat]
Object  == [phase : Phases, ver : Nat \ {0}]
Task    == [pc : Steps, obj : Nat \ {0}, fresh : Nat \ {0}, tries : 0 .. MaxTries - 1]

\* A worker that waits in queue.Get.
AtRest == [key |-> NoKey, done |-> FALSE]

Idle == [pc |-> "idle", obj |-> 1, fresh |-> 1, tries |-> 0]

Latest(c)  == Len(log[c])
Current(c) == log[c][Latest(c)]
Live(c)    == Current(c).phase # "Gone"
Stored(c)  == Len(heap[c])                 \* the object GetByKey returns

\* The version an object was decoded from.
Origin(c, o) == log[c][heap[c][o].ver]

-----------------------------------------------------------------------------
(* The API server *)

\* A write the server accepts: a new version that differs in its phase only.
Write(c, p) == log' = [log EXCEPT ![c] = Append(@, [Current(c) EXCEPT !.phase = p])]

\* Mutant of Accepted: no optimistic locking.
AcceptedBlindly(c, ver) == Live(c)

\* Update carries the resourceVersion the object was read with: the server
\* refuses it when another write came between or the resource is gone.
Accepted(c, ver) == ver = Latest(c) /\ Live(c)

-----------------------------------------------------------------------------
(* Clients of the API server *)

Create(c) ==
  /\ ~Live(c) /\ Latest(c) < MaxVersions
  /\ \E u \in BOOLEAN :
       log' = [log EXCEPT ![c] = Append(@, [phase |-> "Waiting", url |-> u,
                                            gen |-> Current(c).gen + 1])]
  /\ UNCHANGED <<heap, queue, working, tasks, sent, relists, restarts>>

\* A client asks for a phase, or writes something else than the status.  Nobody
\* takes a deletion back, or changes the annotation of what there is.
Request(c) ==
  /\ Live(c) /\ Latest(c) < MaxVersions
  /\ Current(c).phase # "Deleting"
  /\ \E p \in {"Waiting", "Upgrading", "Deleting"} :
       (p # Current(c).phase \/ Rewrites) /\ Write(c, p)
  /\ UNCHANGED <<heap, queue, working, tasks, sent, relists, restarts>>

\* A client deletes the resource itself.
Withdraw(c) ==
  /\ Live(c) /\ Latest(c) < MaxVersions
  /\ Write(c, "Gone")
  /\ UNCHANGED <<heap, queue, working, tasks, sent, relists, restarts>>

-----------------------------------------------------------------------------
(* The informer *)

\* The store takes a new object decoded from version v, and the handler of
\* the event adds the key: Add, Update and Delete all do the same.
Observe(c, v) ==
  /\ heap' = [heap EXCEPT ![c] = Append(@, [phase |-> log[c][v].phase, ver |-> v])]
  /\ queue' = Enqueue(queue, c)

\* The next event of the watch.
Deliver(c) ==
  /\ heap[c][Stored(c)].ver < Latest(c)
  /\ Observe(c, heap[c][Stored(c)].ver + 1)
  /\ UNCHANGED <<log, working, tasks, sent, relists, restarts>>

\* The watch broke and the informer lists again: it skips to the current
\* version, and replaces the object even when it has seen that version.
Relist(c) ==
  /\ relists < MaxRelists /\ relists' = relists + 1
  /\ Live(c) \/ heap[c][Stored(c)].phase # "Gone"
  /\ Observe(c, Latest(c))
  /\ UNCHANGED <<log, working, tasks, sent, restarts>>

-----------------------------------------------------------------------------
(* The workers: processNextItem *)

GetItem(w) ==
  /\ working[w] = AtRest /\ queue.order # << >>
  /\ working' = [working EXCEPT ![w].key = Head(queue.order)]
  /\ queue' = Dequeue(queue)
  /\ UNCHANGED <<log, heap, tasks, sent, relists, restarts>>

\* The phase goroutine s is about to assign to its object, if it is.
Assigns(t) == CASE t.pc = "fail"     -> {"Failed"}
                [] t.pc = "announce" -> {"Error"}
                [] OTHER             -> {}

\* What a read of the phase of object o may yield.
Readable(c, o) ==
  {heap[c][o].phase} \cup
    IF \E s \in Slots : /\ tasks[c][s].obj = o
                        /\ \E p \in Assigns(tasks[c][s]) : p # heap[c][o].phase
    THEN {"Garbled"} ELSE {}

\* The goroutine processItem starts for a phase: its first step, if any.
Handler(p) == CASE p = "Waiting"  -> "wait"
                [] p = "Deleting" -> "delete"
                [] p = "Failed"   -> "announce"
                [] OTHER          -> "idle"

\* The goroutine started for object o in phase p.
Started(p, o) == [pc |-> Handler(p), obj |-> o, fresh |-> 1, tries |-> 0]

\* A notice goes to the URL of an annotation; without one it reaches nobody.
Notify(c, v, kind) ==
  sent' = [sent EXCEPT ![c] = @ \cup IF v.url THEN {<<v.gen, kind>>} ELSE {}]

\* processItem: GetByKey, the phase of what it returns, and the goroutine for
\* that phase.  waitForClusterReady hands out its InProgress notice before its
\* first step.
ProcessItem(w) ==
  LET c == working[w].key
      o == Stored(c)
  IN /\ working[w] # AtRest /\ ~working[w].done
     /\ \E p \in Readable(c, o) :
          IF Handler(p) = "idle"
          THEN UNCHANGED <<tasks, sent>>
          ELSE /\ \E s \in Slots :
                    /\ tasks[c][s].pc = "idle"
                    /\ tasks' = [tasks EXCEPT ![c][s] = Started(p, o)]
               /\ IF p = "Waiting" THEN Notify(c, Origin(c, o), "InProgress")
                                   ELSE UNCHANGED sent
     /\ working' = [working EXCEPT ![w].done = TRUE]
     /\ UNCHANGED <<log, heap, queue, relists, restarts>>

\* handleErr and Done.  GetByKey on the in-memory store never fails, so
\* handleErr always forgets the key.
FinishItem(w) ==
  /\ working[w].done
  /\ queue' = Finish(queue, working[w].key)
  /\ working' = [working EXCEPT ![w] = AtRest]
  /\ UNCHANGED <<log, heap, tasks, sent, relists, restarts>>

-----------------------------------------------------------------------------
(* The handler goroutines.  tries counts the polls of a loop. *)

Move(c, s, pc, fresh, tries) ==
  tasks' = [tasks EXCEPT ![c][s] =
              [pc |-> pc, obj |-> @.obj, fresh |-> fresh, tries |-> tries]]

Goto(c, s, pc) == Move(c, s, pc, tasks[c][s].fresh, tasks[c][s].tries)
End(c, s)      == tasks' = [tasks EXCEPT ![c][s] = Idle]

\* Mutant of Again: one try too many.
AgainOnceMore(c, s, loop, leave) ==
  IF tasks[c][s].tries < MaxTries
  THEN Move(c, s, loop, 1, tasks[c][s].tries + 1)
  ELSE leave

\* Sleep and go around the loop again, or, after the last try, leave it.
Again(c, s, loop, leave) ==
  IF tasks[c][s].tries + 1 < MaxTries
  THEN Move(c, s, loop, 1, tasks[c][s].tries + 1)
  ELSE leave

\* Mutants of GiveUp: Update without having assigned Failed; no Update at all.
GiveUpUnmarked(c, s) == Move(c, s, "save", 1, 0)
GiveUpQuietly(c, s)  == End(c, s)

GiveUp(c, s)   == Move(c, s, "fail", 1, 0)

NextTry(c, s)  == Again(c, s, "wait", GiveUp(c, s))

\* waitForClusterReady: one GetCluster of its loop.
WaitPoll(c, s) ==
  /\ tasks[c][s].pc = "wait"
  /\ \E a \in Answers :
       CASE a = "running" -> Goto(c, s, "read")
         [] a = "error"   -> GiveUp(c, s)
         [] OTHER         -> NextTry(c, s)
  /\ UNCHANGED <<log, heap, queue, working, sent, relists, restarts>>

\* Mutant of ReadFresh: the copy is taken from the informer's store.
ReadStored(c, s) ==
  /\ tasks[c][s].pc = "read"
  /\ Move(c, s, "install", heap[c][Stored(c)].ver, tasks[c][s].tries)
  /\ UNCHANGED <<log, heap, queue, working, sent, relists, restarts>>

\* handleClusterReady: Get the fresh copy, by name.
ReadFresh(c, s) ==
  /\ tasks[c][s].pc = "read"
  /\ \/ /\ Live(c)
        /\ Move(c, s, "install", Latest(c), tasks[c][s].tries)
     \/ ~Live(c) /\ NextTry(c, s)
     \/ ApiFails /\ NextTry(c, s)
  /\ UNCHANGED <<log, heap, queue, working, sent, relists, restarts>>

\* Mutant of Install: the annotation is read in the shared object.
InstallByObject(c, s) ==
  /\ tasks[c][s].pc = "install"
  /\ Notify(c, Origin(c, tasks[c][s].obj), "Completed")
  /\ Goto(c, s, "saveReady")
  /\ UNCHANGED <<log, heap, queue, working, relists, restarts>>

\* handleClusterReady: create what runs on a ready cluster, when the fresh
\* copy names a callback URL, and hand out the Completed notice.  None of the
\* errors met here has a consequence.
Install(c, s) ==
  /\ tasks[c][s].pc = "install"
  /\ Notify(c, log[c][tasks[c][s].fresh], "Completed")
  /\ Goto(c, s, "saveReady")
  /\ UNCHANGED <<log, heap, queue, working, relists, restarts>>

\* handleClusterReady: Update the fresh copy with phase Ready.  The server
\* answers an Update that changes nothing without writing a version.
SaveReady(c, s) ==
  LET v       == tasks[c][s].fresh
      Stores  == Accepted(c, v) /\ IF Current(c).phase = "Ready" THEN UNCHANGED log
                                                                 ELSE Write(c, "Ready")
  IN /\ tasks[c][s].pc = "saveReady"
     /\ \/ Stores /\ End(c, s)
        \/ ~Accepted(c, v) /\ UNCHANGED log /\ NextTry(c, s)
        \/ ApiFails /\ (UNCHANGED log \/ Stores) /\ NextTry(c, s)
     /\ UNCHANGED <<heap, queue, working, sent, relists, restarts>>

\* waitForClusterReady: assign Failed to the shared object.
AssignFailed(c, s) ==
  /\ tasks[c][s].pc = "fail"
  /\ heap' = [heap EXCEPT ![c][tasks[c][s].obj].phase = "Failed"]
  /\ Goto(c, s, "save")
  /\ UNCHANGED <<log, queue, working, sent, relists, restarts>>

\* Mutant of Announce: the annotation is read in a fresh copy.
AnnounceFresh(c, s) ==
  /\ tasks[c][s].pc = "announce"
  /\ Notify(c, Current(c), "Failed")
  /\ heap' = [heap EXCEPT ![c][tasks[c][s].obj].phase = "Error"]
  /\ Goto(c, s, "save")
  /\ UNCHANGED <<log, queue, working, relists, restarts>>

\* handleFailedCluster: hand out the Failed notice and assign Error.
Announce(c, s) ==
  LET o == tasks[c][s].obj
  IN /\ tasks[c][s].pc = "announce"
     /\ Notify(c, Origin(c, o), "Failed")
     /\ heap' = [heap EXCEPT ![c][o].phase = "Error"]
     /\ Goto(c, s, "save")
     /\ UNCHANGED <<log, queue, working, relists, restarts>>

\* waitForClusterReady and handleFailedCluster: Update the shared object,
\* with the phase it has by now.  An error is only logged.
Save(c, s) ==
  LET o == tasks[c][s].obj
  IN /\ tasks[c][s].pc = "save"
     /\ \/ /\ Accepted(c, heap[c][o].ver)
           /\ \E p \in Readable(c, o) : Write(c, p)
        \/ ~Accepted(c, heap[c][o].ver) /\ UNCHANGED log
        \/ ApiFails /\ UNCHANGED log
     /\ End(c, s)
     /\ UNCHANGED <<heap, queue, working, sent, relists, restarts>>

\* Mutant of DeletePoll: the notice is about what has that name by now.
DeletePollFresh(c, s) ==
  /\ tasks[c][s].pc = "delete"
  /\ \E a \in Answers :
       IF a = "fail"
       THEN /\ Notify(c, Current(c), "Deleted")
            /\ Move(c, s, "remove", 1, 0)
       ELSE Again(c, s, "delete", End(c, s)) /\ UNCHANGED sent
  /\ UNCHANGED <<log, heap, queue, working, relists, restarts>>

\* handleDeletedCluster: one GetCluster of its loop.  Any error is taken for
\* the cluster being gone.  After the last try the goroutine just ends.
DeletePoll(c, s) ==
  /\ tasks[c][s].pc = "delete"
  /\ \E a \in Answers :
       IF a = "fail"
       THEN /\ Notify(c, Origin(c, tasks[c][s].obj), "Deleted")
            /\ Move(c, s, "remove", 1, 0)
       ELSE Again(c, s, "delete", End(c, s)) /\ UNCHANGED sent
  /\ UNCHANGED <<log, heap, queue, working, relists, restarts>>

\* handleDeletedCluster: Delete by name, whatever has that name by now.
Remove(c, s) ==
  /\ tasks[c][s].pc = "remove"
  /\ IF Live(c) THEN Write(c, "Gone") \/ (ApiFails /\ UNCHANGED log)
                ELSE UNCHANGED log
  /\ End(c, s)
  /\ UNCHANGED <<heap, queue, working, sent, relists, restarts>>

Handle(c, s) ==
  \/ WaitPoll(c, s) \/ ReadFresh(c, s) \/ Install(c, s) \/ SaveReady(c, s)
  \/ AssignFailed(c, s) \/ Announce(c, s) \/ Save(c, s)
  \/ DeletePoll(c, s) \/ Remove(c, s)

-----------------------------------------------------------------------------
(* The operator process *)

NoTasks   == [c \in Clusters |-> [s \in Slots |-> Idle]]
NoWorkers == [w \in Workers |-> AtRest]

\* The process ends at any point (nothing closes the stop channel, a panic
\* ends it) and starts again: the informer lists, and adds every key before
\* the workers run.
Restart ==
  /\ restarts < MaxRestarts /\ restarts' = restarts + 1
  /\ heap' = [c \in Clusters |-> <<[phase |-> Current(c).phase, ver |-> Latest(c)]>>]
  /\ \E keys \in Orders({c \in Clusters : Live(c)}) : queue' = FilledQueue(keys)
  /\ working' = NoWorkers
  /\ tasks' = NoTasks
  /\ UNCHANGED <<log, sent, relists>>

Init ==
  /\ log = [c \in Clusters |-> <<[phase |-> "Gone", url |-> FALSE, gen |-> 0]>>]
  /\ heap = [c \in Clusters |-> <<[phase |-> "Gone", ver |-> 1]>>]
  /\ queue = EmptyQueue
  /\ working = NoWorkers
  /\ tasks = NoTasks
  /\ sent = [c \in Clusters |-> {}]
  /\ relists = 0 /\ restarts = 0

Client(c) == Create(c) \/ Request(c) \/ Withdraw(c)

Next ==
  \/ \E c \in Clusters : Client(c) \/ Deliver(c) \/ Relist(c)
  \/ \E w \in Workers : GetItem(w) \/ ProcessItem(w) \/ FinishItem(w)
  \/ \E c \in Clusters, s \in Slots : Handle(c, s)
  \/ Restart

Spec == Init /\ [][Next]_vars

-----------------------------------------------------------------------------
(* Fairness: the Go scheduler runs every goroutine that can run, the watch *)
(* delivers, calls return and sleeps end.  Nothing is assumed of the       *)
(* clients, of relists and of restarts, nor of what a call answers.        *)

Fairness ==
  /\ \A c \in Clusters : WF_vars(Deliver(c))
  /\ \A w \in Workers : WF_vars(GetItem(w)) /\ WF_vars(ProcessItem(w)) /\ WF_vars(FinishItem(w))
  /\ \A c \in Clusters, s \in Slots : WF_vars(Handle(c, s))

FairSpec == Spec /\ Fairness

-----------------------------------------------------------------------------
(* Properties *)

TypeOK ==
  /\ log \in [Clusters -> Seq(Version)]
  /\ heap \in [Clusters -> Seq(Object)]
  /\ queue \in QueueOf(Clusters)
  /\ working \in [Workers -> [key : Clusters, done : BOOLEAN] \cup {AtRest}]
  /\ tasks \in [Clusters -> [Slots -> Task]]
  /\ sent \in [Clusters -> SUBSET (Nat \X Notices)]
  /\ relists \in 0 .. MaxRelists /\ restarts \in 0 .. MaxRestarts

\* Every pointer points to something: the store holds an object, the object
\* was decoded from a version the server had, and a goroutine's objects exist.
PointersOK ==
  \A c \in Clusters :
    /\ Stored(c) \in Nat \ {0} /\ Latest(c) \in Nat \ {0}
    /\ \A o \in 1 .. Stored(c) : heap[c][o].ver \in 1 .. Latest(c)
    /\ \A s \in Slots : /\ tasks[c][s].obj \in 1 .. Stored(c)
                        /\ tasks[c][s].fresh \in 1 .. Latest(c)

\* In-place assignment is the only way an object comes to differ from the
\* version it was decoded from, and it happens only to objects that waited
\* or had failed.
SharedObjects ==
  \A c \in Clusters : \A o \in 1 .. Stored(c) :
    heap[c][o].phase # Origin(c, o).phase =>
      \/ Origin(c, o).phase = "Waiting" /\ heap[c][o].phase \in {"Failed", "Error"}
      \/ Origin(c, o).phase = "Failed"  /\ heap[c][o].phase = "Error"

\* What a goroutine was started for is still true of the version its object
\* was decoded from; before it writes the object, the object was assigned (so
\* that Save never is an Update that changes nothing).
TasksOK ==
  \A c \in Clusters, s \in Slots :
    LET t == tasks[c][s]
        p == Origin(c, t.obj).phase
    IN  /\ t.pc \in {"wait", "read", "install", "saveReady", "fail"} => p = "Waiting"
        /\ t.pc \in {"announce", "save"} => p \in {"Waiting", "Failed"}
        /\ t.pc = "save" => heap[c][t.obj].phase # p
        /\ t.pc \in {"delete", "remove"} => p = "Deleting"

\* The invariant the proofs need: with goroutines sharing and assigning objects,
\* a handler still acts on behalf of a version in the phase it was started for.
IndInv == PointersOK /\ SharedObjects /\ TasksOK

\* The controller's queue never loses a key and never hands one key to two
\* workers: every key in the order is dirty and unheld, and the keys being
\* processed are the ones the workers hold, each by one worker.
QueueOK ==
  /\ WellFormed(queue)
  /\ queue.processing = {working[w].key : w \in Workers} \ {NoKey}
  /\ \A v, w \in Workers : working[v].key = working[w].key /\ working[v].key # NoKey => v = w

\* A resource is stored as Error only after its Failed notice, and as Ready
\* only after its Completed notice, was handed out for the same incarnation
\* (when the resource names a URL): announcing comes before recording, even
\* with several goroutines assigning to one object.
RecordedWasAnnounced ==
  \A c \in Clusters :
    LET v == Current(c)
    IN  v.url => /\ v.phase = "Error" => <<v.gen, "Failed">> \in sent[c]
                 /\ v.phase = "Ready" => <<v.gen, "Completed">> \in sent[c]

\* Nobody is told that a cluster failed without having been told, of the same
\* incarnation, that it was in progress: handleFailedCluster runs only on what
\* a waitForClusterReady has assigned or stored.
FailureFollowsProgress ==
  \A c \in Clusters : \A n \in sent[c] :
    n[2] = "Failed" => <<n[1], "InProgress">> \in sent[c]

\* Nobody is told that a cluster was deleted unless the deletion of that very
\* incarnation was asked for, though the deleter polls on a shared object, may be
\* overtaken by a deletion and a new creation, and removes by name in the end.
DeletedWasAskedFor ==
  \A c \in Clusters : \A n \in sent[c] :
    n[2] = "Deleted" =>
      \E i \in 1 .. Latest(c) : log[c][i].gen = n[1] /\ log[c][i].phase = "Deleting"

\* A resource that waits or has failed, and that the informer has delivered,
\* is not forgotten: its key is queued, or a worker has still to look at it, or
\* a goroutine of that very version is on its way.  (handleErr, controller.go:174: "checks if an
\* error happened and makes sure we will retry later".)
NotForgotten ==
  \A c \in Clusters :
    /\ heap[c][Stored(c)].ver = Latest(c)
    /\ Current(c).phase \in {"Waiting", "Failed"}
    => \/ c \in queue.dirty
       \/ \E w \in Workers : working[w] = [key |-> c, done |-> FALSE]
       \/ \E s \in Slots : /\ tasks[c][s].pc # "idle"
                           /\ heap[c][tasks[c][s].obj].ver = Latest(c)

\* The controller implements the life cycle of ClusterLifecycle.
Lifecycle == INSTANCE ClusterLifecycle WITH resource <- [c \in Clusters |-> Current(c)]
ImplementsLifecycle == Lifecycle!Spec

\* The copy that a waiter of ClusterReadiness has: none before ReadFresh, and
\* Install is the notice.
CopyOf(c, s) ==
  LET t == tasks[c][s]
      v == log[c][t.fresh]
  IN  IF t.pc \in {"install", "saveReady"}
      THEN [stage |-> IF t.pc = "install" THEN "taken" ELSE "told", ver |-> t.fresh,
            url |-> v.url, gen |-> v.gen]
      ELSE [stage |-> "none", ver |-> 0, url |-> FALSE, gen |-> 0]

VersionOf(c) == [phase |-> Current(c).phase, url |-> Current(c).url, gen |-> Current(c).gen,
                 ver |-> Latest(c)]

CompletedOf(c) == {n[1] : n \in {m \in sent[c] : m[2] = "Completed"}}

\* The waiters among the handlers implement ClusterReadiness: Ready is stored by a
\* waiter only, over the version it read, and after a notice of the incarnation it
\* read, though it shares an object with others and reads by name, not by object.
Readiness == INSTANCE ClusterReadiness WITH
  resource  <- [c \in Clusters |-> VersionOf(c)],
  copy      <- [c \in Clusters |-> [s \in Slots |-> CopyOf(c, s)]],
  completed <- [c \in Clusters |-> CompletedOf(c)]
ImplementsReadiness == Readiness!Spec

\* As long as the API server does not fail, no resource waits or stays Failed
\* for ever: the tries of a waiter run out, and Failed becomes Error.
Settles ==
  \A c \in Clusters : Current(c).phase \in {"Waiting", "Failed"}
                        ~> Current(c).phase \notin {"Waiting", "Failed"}

\* When the cluster-manager-api has nothing left of a cluster (every GetCluster
\* fails) and the API server does not fail, a resource that is to be deleted
\* goes away.
DeletionEnds == \A c \in Clusters : Current(c).phase = "Deleting" ~> ~Live(c)

=============================================================================
