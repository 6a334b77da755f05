-------------------------------- MODULE AddOns --------------------------------
(***************************************************************************)
(* The SDSPackageManager and SDSApplication controllers                    *)
(* (pkg/controllers/sds-package-manager, pkg/controllers/sdsapplication)   *)
(* at work on what one SDSCluster is to run: each package manager is       *)
(* installed by a job (tiller), and each application by a job that talks   *)
(* to the tiller of its package manager.                                   *)
(*                                                                         *)
(* The two controllers are the same program twice: a resource with no      *)
(* phase is deployed once the thing it needs is there, one that is         *)
(* Installing is waited for.  Unlike the SDSCluster controller they run    *)
(* their handlers in the worker itself, polling included, discard every    *)
(* error, and rely on the informer's resync of every 30 seconds.           *)
(*                                                                         *)
(* A resource is an add-on here.  The server keeps a log of versions per   *)
(* add-on; the index of a version is its resourceVersion, its gen counts   *)
(* how often clients have created the name, and its url says whether it    *)
(* has the annotation with a callback URL, without which nobody is told of *)
(* it (the add-ons the operator creates for a bundle have none).  The      *)
(* store holds the object decoded last; a worker assigns Status.Phase in   *)
(* that object before it updates the server (controller.go:261, 331).      *)
(*                                                                         *)
(* Jobs go by name: tiller-install-job in the namespace of the package     *)
(* manager, app-install-<name> beside it.  So package managers that share  *)
(* a namespace share a job, and a name that is created again finds the job *)
(* of its predecessor.                                                     *)
(***************************************************************************)
EXTENDS WorkQueue

CONSTANTS
  PackageManagers, Applications,
  Needs,          \* Needs[a]: the package manager application a names
  Jobs, JobOf,    \* JobOf[r]: the name and namespace of the install job of r
  PMWorkers, AppWorkers,    \* the workers of the two controllers
  MaxPolls,       \* polls of an install job in one wait (2000 in the code)
  Failing,        \* the add-ons for which calls may fail
  Keyless,        \* the add-ons for which the kubeconfig of the cluster may be empty
  Stuck,          \* install jobs that never succeed
  Degrades,       \* whether the SDSCluster may stop being Ready
  Touched,        \* bound: the add-ons clients write
  MaxTouches,     \* bound: how often they change or delete one
  MaxGens,        \* bound: how often they create one
  Annotated,      \* bound: the add-ons to which clients may give a callback URL
  MayStop,        \* whether the operator may stop and start again at any time
  NoKey

AddOnSet == PackageManagers \cup Applications
Workers  == PMWorkers \cup AppWorkers
Kinds    == {"pm", "app"}

Kind(r)    == IF r \in PackageManagers THEN "pm" ELSE "app"
KindOf(w)  == IF w \in PMWorkers THEN "pm" ELSE "app"

Phases  == {"Pending", "Installing", "Implemented", "Gone"}
Notices == {"InProgress", "Completed"}
Gens    == 1 .. MaxGens
Version == [phase : Phases, gen : Gens, url : BOOLEAN]

\* What the annotation of r may be.
Urls(r) == IF r \in Annotated THEN BOOLEAN ELSE {FALSE}

\* What asking for the kubeconfig of the managed cluster may yield for r.
ConfigAnswers(r) == {"managed"} \cup (IF r \in Keyless THEN {"empty"} ELSE {})
                               \cup (IF r \in Failing THEN {"fail"} ELSE {})

ASSUME AddOnAssumption ==
  /\ IsFiniteSet(AddOnSet)
  /\ PackageManagers \cap Applications = {} /\ PMWorkers \cap AppWorkers = {}
  /\ NoKey \notin AddOnSet
  /\ Needs \in [Applications -> PackageManagers]
  /\ JobOf \in [AddOnSet -> Jobs]
  /\ \A p \in PackageManagers, a \in Applications : JobOf[p] # JobOf[a]
  /\ \A a, b \in Applications : JobOf[a] = JobOf[b] => JobOf[Needs[a]] = JobOf[Needs[b]]
  /\ MaxPolls \in Nat \ {0}
  /\ Failing \subseteq AddOnSet /\ Keyless \subseteq AddOnSet /\ MayStop \in BOOLEAN
  /\ Stuck \subseteq Jobs /\ Degrades \in BOOLEAN
  /\ Touched \subseteq AddOnSet /\ MaxTouches \in Nat /\ MaxGens \in Nat \ {0}
  /\ Annotated \subseteq AddOnSet

VARIABLES
  ready,      \* whether the SDSCluster is in phase Ready on the server
  log,        \* log[r]: the versions of r on the server, oldest first
  store,      \* store[r]: [phase, ver], the object in the informer's store
  queue,      \* queue[k]: the work queue of a controller
  work,       \* work[w]: what worker w is doing
  managed,    \* managed[j]: the install job j on the managed cluster
  madeFor,    \* madeFor[j]: the add-on and gen whose deployment created job j
  rights,     \* the jobs whose service account has been given its rights
  management, \* whether an install job has been sent to the management cluster
  told,       \* told[r]: the notices handed to the callback package, with the gen
  touches

cluster == <<managed, madeFor, rights, management>>
vars == <<ready, log, store, queue, work, cluster, told, touches>>

Steps == {"idle", "dispatch", "gate", "config", "prepare", "create", "announce",
          "saveInstalling", "find", "poll", "saveImplemented"}
Work  == [pc : Steps, key : AddOnSet \cup {NoKey}, ver : Nat \ {0},
          polls : 0 .. MaxPolls - 1, on : {"managed", "management"}]

Free == [pc |-> "idle", key |-> NoKey, ver |-> 1, polls |-> 0, on |-> "managed"]

Latest(r)  == Len(log[r])
Current(r) == log[r][Latest(r)]
Live(r)    == Current(r).phase # "Gone"

\* What r cannot be installed without.
Relied(r)  == IF r \in Applications THEN {Needs[r]} ELSE {}

\* Whether the job of r has succeeded: job.Status.Succeeded > 0.
Succeeded(r) == managed[JobOf[r]] = "succeeded"

-----------------------------------------------------------------------------
(* The surroundings: the SDSCluster, clients, the clusters that run jobs *)

ClusterChanges ==
  /\ ready => Degrades
  /\ ready' = ~ready
  /\ UNCHANGED <<log, store, queue, work, cluster, told, touches>>

Count(r) == r \in Touched /\ touches < MaxTouches /\ touches' = touches + 1

\* A client writes something else than the status, the annotation perhaps.
Touch(r) ==
  /\ Live(r) /\ Count(r)
  /\ \E u \in Urls(r) : log' = [log EXCEPT ![r] = Append(@, [Current(r) EXCEPT !.url = u])]
  /\ UNCHANGED <<ready, store, queue, work, cluster, told>>

\* A client, or the garbage collector, deletes the add-on.
Delete(r) ==
  /\ Live(r) /\ Count(r)
  /\ log' = [log EXCEPT ![r] = Append(@, [Current(r) EXCEPT !.phase = "Gone"])]
  /\ UNCHANGED <<ready, store, queue, work, cluster, told>>

\* A client creates an add-on of a name that was deleted.
Create(r) ==
  /\ ~Live(r) /\ Current(r).gen < MaxGens
  /\ \E u \in Urls(r) :
       log' = [log EXCEPT ![r] =
                 Append(@, [phase |-> "Pending", gen |-> Current(r).gen + 1, url |-> u])]
  /\ UNCHANGED <<ready, store, queue, work, cluster, told, touches>>

\* The job of a package manager installs tiller with the account deployTiller
\* made; that of an application can only succeed where tiller runs.
JobSucceeds(r) ==
  LET j == JobOf[r]
  IN /\ managed[j] = "running" /\ j \notin Stuck
     /\ r \in PackageManagers => j \in rights
     /\ \A x \in Relied(r) : Succeeded(x)
     /\ managed' = [managed EXCEPT ![j] = "succeeded"]
     /\ UNCHANGED <<ready, log, store, queue, work, madeFor, rights, management, told, touches>>

-----------------------------------------------------------------------------
(* The informers *)

AddKey(r) == queue' = [queue EXCEPT ![Kind(r)] = Enqueue(@, r)]

Deliver(r) ==
  /\ store[r].ver < Latest(r)
  /\ LET v == store[r].ver + 1
     IN  store' = [store EXCEPT ![r] = [phase |-> log[r][v].phase, ver |-> v]]
  /\ AddKey(r)
  /\ UNCHANGED <<ready, log, work, cluster, told, touches>>

\* Every 30 seconds the informer shows its handlers the whole store again.
Resync(r) ==
  /\ store[r].phase # "Gone" /\ AddKey(r)
  /\ UNCHANGED <<ready, log, store, work, cluster, told, touches>>

-----------------------------------------------------------------------------
(* The workers: processNextItem *)

GetItem(w) ==
  LET q == queue[KindOf(w)]
  IN /\ work[w].pc = "idle" /\ q.order # << >>
     /\ work' = [work EXCEPT ![w] = [Free EXCEPT !.pc = "dispatch", !.key = Head(q.order)]]
     /\ queue' = [queue EXCEPT ![KindOf(w)] = Dequeue(q)]
     /\ UNCHANGED <<ready, log, store, cluster, told, touches>>

Goto(w, pc) == work' = [work EXCEPT ![w].pc = pc] /\ UNCHANGED queue

\* The handler returns.  Whatever it returns, processItem returns nil, the key
\* is forgotten by the rate limiter, and Done.
Return(w) ==
  /\ work' = [work EXCEPT ![w] = Free]
  /\ queue' = [queue EXCEPT ![KindOf(w)] = Finish(@, work[w].key)]

\* Mutant of Handler: an add-on that is Installing is not waited for.
HandlerOnce(p) == IF p = "Pending" THEN "gate" ELSE "idle"

\* Where the handler for a phase starts, if there is one.
Handler(p) == CASE p = "Pending"    -> "gate"
                [] p = "Installing" -> "find"
                [] OTHER            -> "idle"

\* processItem: choose the handler by the phase of the object in the store.
Dispatch(w) ==
  LET o  == store[work[w].key]
      pc == Handler(o.phase)
  IN /\ work[w].pc = "dispatch"
     /\ IF pc = "idle" THEN Return(w)
        ELSE work' = [work EXCEPT ![w].pc = pc, ![w].ver = o.ver] /\ UNCHANGED queue
     /\ UNCHANGED <<ready, log, store, cluster, told, touches>>

\* Mutant of MayDeploy: the package manager need only have been started.
MayDeployEarly(r) ==
  IF r \in PackageManagers THEN ready ELSE Current(Needs[r]).phase \in {"Installing", "Implemented"}

\* deployTiller asks the server whether the cluster is Ready, deployApplication
\* whether the package manager is Implemented.
MayDeploy(r) == IF r \in PackageManagers THEN ready ELSE Current(Needs[r]).phase = "Implemented"

Gate(w) ==
  LET r == work[w].key
  IN /\ work[w].pc = "gate"
     /\ \/ MayDeploy(r) /\ Goto(w, "config")
        \/ (~MayDeploy(r) \/ r \in Failing) /\ Return(w)
     /\ UNCHANGED <<ready, log, store, cluster, told, touches>>

\* Mutant of FirstCall: the job without the account and its rights.
FirstCallIsJob(r) == "create"

\* What deployTiller and deployApplication create first.
FirstCall(r) == IF r \in PackageManagers THEN "prepare" ELSE "create"

\* getRestConfigForRemoteCluster, on the way to deploy.  For an empty kubeconfig
\* it returns no config and no error, and every k8sutil function takes no config
\* for the management cluster's.
GetConfig(w) ==
  /\ work[w].pc = "config"
  /\ \E a \in ConfigAnswers(work[w].key) :
       IF a = "fail" THEN Return(w)
       ELSE /\ work' = [work EXCEPT ![w].pc = FirstCall(work[w].key),
                          ![w].on = IF a = "empty" THEN "management" ELSE "managed"]
            /\ UNCHANGED queue
  /\ UNCHANGED <<ready, log, store, cluster, told, touches>>

\* The object the worker holds is assigned a phase: the one in the store, unless
\* the informer has replaced it.
Assign(w, p) ==
  LET r == work[w].key
  IN  store' = IF store[r].ver = work[w].ver THEN [store EXCEPT ![r].phase = p] ELSE store

\* The gen and the annotation of the object worker w holds.
GenOf(w) == log[work[w].key][work[w].ver].gen
UrlOf(w) == log[work[w].key][work[w].ver].url

\* A notice goes to the URL in the object the worker holds, if there is one.
Tell(w, notice) ==
  told' = IF UrlOf(w) THEN [told EXCEPT ![work[w].key] = @ \cup {<<GenOf(w), notice>>}] ELSE told

\* What an operator process that starts finds.
Started ==
  /\ work' = [w \in Workers |-> Free]
  /\ store' = [r \in AddOnSet |-> [phase |-> Current(r).phase, ver |-> Latest(r)]]
  /\ \E q \in [Kinds -> UNION {Orders({r \in AddOnSet : Live(r) /\ Kind(r) = k}) : k \in Kinds}] :
       /\ \A k \in Kinds : q[k] \in Orders({r \in AddOnSet : Live(r) /\ Kind(r) = k})
       /\ queue' = [k \in Kinds |-> FilledQueue(q[k])]

\* deployTiller: namespace, service account, role and binding.  Nobody looks at
\* the errors, and without one of them the account lacks its rights.
Prepare(w) ==
  LET r == work[w].key
      j == JobOf[r]
  IN /\ work[w].pc = "prepare"
     /\ \/ rights' = IF work[w].on = "managed" THEN rights \cup {j} ELSE rights
        \/ r \in Failing /\ UNCHANGED rights
     /\ Goto(w, "create")
     /\ UNCHANGED <<ready, log, store, managed, madeFor, management, told, touches>>

\* Create of a job: one that exists is left as it is, and nobody looks at errors.
SubmitJob(w) ==
  LET r == work[w].key
      j == JobOf[r]
  IN \/ /\ work[w].on = "managed" /\ managed[j] = "none"
        /\ managed' = [managed EXCEPT ![j] = "running"]
        /\ madeFor' = [madeFor EXCEPT ![j] = <<r, GenOf(w)>>]
        /\ UNCHANGED management
     \/ /\ work[w].on = "management"
        /\ management' = TRUE /\ UNCHANGED <<managed, madeFor>>
     \/ /\ r \in Failing \/ (work[w].on = "managed" /\ managed[j] # "none")
        /\ UNCHANGED <<managed, madeFor, management>>

\* Submit the job.  An application's is written from its package manager, read
\* a second time: when that is gone by now, the operator panics.
CreateJob(w) ==
  LET r == work[w].key
  IN /\ work[w].pc = "create"
     /\ \/ /\ \A x \in Relied(r) : Live(x)
           /\ SubmitJob(w)
           /\ Goto(w, "announce") /\ UNCHANGED store
        \/ /\ \E x \in Relied(r) : ~Live(x) \/ r \in Failing
           /\ Started
           /\ UNCHANGED <<managed, madeFor, management>>
     /\ UNCHANGED <<ready, log, rights, told, touches>>

\* Mutant of TellProgress: only a deployment that made the job is announced.
TellProgressOnce(w) ==
  IF madeFor[JobOf[work[w].key]] = <<work[w].key, GenOf(w)>>
  THEN Tell(w, "InProgress") ELSE UNCHANGED told

\* The deployment is announced whoever made the job of that name.
TellProgress(w) == Tell(w, "InProgress")

\* Hand out the notice and assign Installing.
Announce(w) ==
  /\ work[w].pc = "announce"
  /\ TellProgress(w)
  /\ Assign(w, "Installing")
  /\ Goto(w, "saveInstalling")
  /\ UNCHANGED <<ready, log, cluster, touches>>

\* waitForTiller and waitForApplication ask for the kubeconfig again, and an
\* application for its package manager; without a kubeconfig the client for
\* the managed cluster is made from nil, a panic.
FindJob(w) ==
  LET r == work[w].key
  IN /\ work[w].pc = "find"
     /\ \E a \in ConfigAnswers(r) :
          \/ /\ a = "fail" \/ \E x \in Relied(r) : ~Live(x) \/ r \in Failing
             /\ Return(w) /\ UNCHANGED store
          \/ /\ a # "fail" /\ \A x \in Relied(r) : Live(x)
             /\ IF a = "empty" THEN Started
                ELSE Goto(w, "poll") /\ UNCHANGED store
     /\ UNCHANGED <<ready, log, cluster, told, touches>>

CountPoll(w) == work' = [work EXCEPT ![w].polls = @ + 1] /\ UNCHANGED <<queue, store>>

\* Mutants of NotYet: one poll too many; polling for ever; the last poll counts
\* as a success that is not saved.
NotYetOnceMore(w) ==
  IF work[w].polls < MaxPolls THEN CountPoll(w) ELSE Return(w) /\ UNCHANGED store

NotYetForEver(w) == UNCHANGED <<work, queue, store>>

NotYetOptimistic(w) ==
  IF work[w].polls + 1 < MaxPolls THEN CountPoll(w) ELSE Return(w) /\ Assign(w, "Implemented")

\* After the last poll the handler returns, and a resync starts another wait.
NotYet(w) ==
  IF work[w].polls + 1 < MaxPolls THEN CountPoll(w) ELSE Return(w) /\ UNCHANGED store

\* Mutant of Finished: a job that exists will do.
FinishedOrNot(r) == managed[JobOf[r]] # "none"

\* The job of that name has succeeded, whoever it was made for.
Finished(r) == Succeeded(r)

\* One poll of the job.
Poll(w) ==
  LET r == work[w].key
  IN /\ work[w].pc = "poll"
     /\ \/ Finished(r) /\ Assign(w, "Implemented") /\ Goto(w, "saveImplemented")
        \/ (~Finished(r) \/ r \in Failing) /\ NotYet(w)
     /\ UNCHANGED <<ready, log, cluster, told, touches>>

\* Mutant of Accepted: the server does not mind a stale object.
AcceptedBlindly(w) == Live(work[w].key)

\* The server takes an object only if it is the latest version of the resource.
Accepted(w) == work[w].ver = Latest(work[w].key) /\ Live(work[w].key)

\* Update the resource with the assigned phase, and return.
Update(w, p, Success) ==
  LET r == work[w].key
      v == [phase |-> p, gen |-> GenOf(w), url |-> UrlOf(w)]
      Write == log' = [log EXCEPT ![r] = Append(@, v)]
  IN /\ \/ Accepted(w) /\ Write /\ Success
        \/ ~Accepted(w) /\ UNCHANGED <<log, told>>
        \/ /\ r \in Failing /\ UNCHANGED told
           /\ UNCHANGED log \/ (Accepted(w) /\ Write)
     /\ Return(w)
     /\ UNCHANGED <<ready, store, cluster, touches>>

SaveInstalling(w)  == work[w].pc = "saveInstalling" /\ Update(w, "Installing", UNCHANGED told)
SaveImplemented(w) == work[w].pc = "saveImplemented" /\ Update(w, "Implemented", Tell(w, "Completed"))

Process(w) ==
  \/ Dispatch(w) \/ Gate(w) \/ GetConfig(w) \/ Prepare(w) \/ CreateJob(w)
  \/ Announce(w) \/ SaveInstalling(w) \/ FindJob(w) \/ Poll(w) \/ SaveImplemented(w)

\* The operator stops, at any point, and starts again.
Restart ==
  /\ MayStop /\ Started
  /\ UNCHANGED <<ready, log, cluster, told, touches>>

-----------------------------------------------------------------------------
Init ==
  /\ ready = FALSE
  /\ \E A \in SUBSET Annotated :
       log = [r \in AddOnSet |-> <<[phase |-> "Pending", gen |-> 1, url |-> r \in A]>>]
  /\ store = [r \in AddOnSet |-> [phase |-> "Pending", ver |-> 1]]
  /\ \E q \in [Kinds -> UNION {Orders({r \in AddOnSet : Kind(r) = k}) : k \in Kinds}] :
       /\ \A k \in Kinds : q[k] \in Orders({r \in AddOnSet : Kind(r) = k})
       /\ queue = [k \in Kinds |-> FilledQueue(q[k])]
  /\ work = [w \in Workers |-> Free]
  /\ managed = [j \in Jobs |-> "none"]
  /\ madeFor = [j \in Jobs |-> NoKey]
  /\ rights = {}
  /\ management = FALSE
  /\ told = [r \in AddOnSet |-> {}]
  /\ touches = 0

Next ==
  \/ ClusterChanges
  \/ \E r \in AddOnSet : Touch(r) \/ Delete(r) \/ Create(r) \/ JobSucceeds(r) \/ Deliver(r) \/ Resync(r)
  \/ \E w \in Workers : GetItem(w) \/ Process(w)
  \/ Restart

Spec == Init /\ [][Next]_vars

\* Each informer delivers what is there and resyncs every add-on, a worker that
\* can go on does, calls return, and a job that can succeed does.
Fairness ==
  /\ \A k \in Kinds : WF_vars(\E r \in AddOnSet : Kind(r) = k /\ Deliver(r))
  /\ \A r \in AddOnSet : WF_vars(Resync(r))
  /\ \A w \in Workers : WF_vars(GetItem(w) \/ Process(w))
  /\ WF_vars(\E r \in AddOnSet : JobSucceeds(r))

FairSpec == Spec /\ Fairness

-----------------------------------------------------------------------------
(* Properties *)

TypeOK ==
  /\ ready \in BOOLEAN
  /\ log \in [AddOnSet -> Seq(Version)]
  /\ store \in [AddOnSet -> [phase : Phases, ver : Nat \ {0}]]
  /\ queue \in [Kinds -> QueueOf(AddOnSet)]
  /\ work \in [Workers -> Work]
  /\ managed \in [Jobs -> {"none", "running", "succeeded"}]
  /\ madeFor \in [Jobs -> (AddOnSet \X Gens) \cup {NoKey}]
  /\ rights \subseteq Jobs
  /\ management \in BOOLEAN
  /\ told \in [AddOnSet -> SUBSET (Gens \X Notices)]
  /\ touches \in 0 .. MaxTouches

\* No install job of an application reaches the managed cluster before the tiller
\* it talks to has been installed there (the gate of deployApplication reads a
\* phase another controller wrote after polling another cluster).
TillerFirst ==
  \A a \in Applications : managed[JobOf[a]] # "none" => Succeeded(Needs[a])

\* An add-on is stored as Implemented only when its job has succeeded on the
\* managed cluster (waitForTiller and waitForApplication), now and in every
\* version the server ever had.
ImplementedRan ==
  \A r \in AddOnSet : \A i \in DOMAIN log[r] :
    log[r][i].phase = "Implemented" => Succeeded(r)

\* The deployment of gen g of r has been announced, unless a worker may have
\* deployed it from an object without the annotation.
Announced(r, g) ==
  \/ <<g, "InProgress">> \in told[r]
  \/ \E i \in 1 .. Latest(r) : log[r][i] = [phase |-> "Pending", gen |-> g, url |-> FALSE]

\* A client is told that a deployment is complete only after it was told that the
\* same deployment is in progress, and only when the job has succeeded: also
\* after stops, refused updates, and when the name was created again meanwhile.
\* The one way to hear of the end only is that the add-on, while it was waiting
\* to be deployed, had no callback URL, and was given one later
\* (controller.go:251 and 350, application.go:33 and 91 look at the annotation
\* of the object in hand).
CompletedFollowsProgress ==
  \A r \in AddOnSet : \A g \in Gens :
    <<g, "Completed">> \in told[r] => Announced(r, g) /\ Succeeded(r)

\* Two workers never work on one add-on: here, where the worker itself runs the
\* handler, what controller.go:118 says of the queue does hold.  And a resource
\* the informer has is never lost between the order and the workers.
OneWorkerPerAddOn ==
  /\ \A v, w \in Workers : work[v].key = work[w].key /\ work[v].key # NoKey => v = w
  /\ \A k \in Kinds : WellFormed(queue[k])

\* The two controllers implement the life cycle of an add-on: whatever informers,
\* workers, refused or lost updates, panics and stops do in between, a phase only
\* ever replaces one it may replace, and only when what it says is true.
Resource == [r \in AddOnSet |-> Current(r)]

\* The gens of r that have been waiting to be deployed, each with its annotation.
AskedFor(r) == {[gen |-> log[r][i].gen, url |-> log[r][i].url] :
                  i \in {j \in 1 .. Latest(r) : log[r][j].phase = "Pending"}}
Asked       == [r \in AddOnSet |-> AskedFor(r)]

Promise == INSTANCE AddOnLifecycle WITH resource <- Resource, asked <- Asked,
                                        job <- managed, told <- told

ImplementsAddOnLifecycle == Promise!Spec

\* Every error is thrown away, so a resync is the only retry; it retries what the
\* store shows.  Unless a worker is busy with it, an add-on that is not installed
\* is not shown as installed, and the resync deploys it or waits for it again, if
\* the updates of this add-on do not fail other than by being refused.
\* (handleErr, controller.go:158: "checks if an error happened and makes sure we
\* will retry later".)
ResyncRetries ==
  \A r \in AddOnSet \ Failing :
    /\ store[r].ver = Latest(r) /\ Current(r).phase \in {"Pending", "Installing"}
    /\ \A w \in Workers : work[w].key # r
    => store[r].phase \in {"Pending", "Installing"}

\* Nothing is installed on the management cluster.  (getRestConfigForRemoteCluster,
\* controller.go:302, logs "Could not install tiller yet for cluster" when the
\* kubeconfig is empty.)
NothingOnManagement == ~management

\* A deployment that is announced as complete was run for this very add-on.
\* (Comments at controller.go:252 and 353: "We need to notify someone that the
\* package manager is being deployed(again)".  A job that exists is never run again.)
CompletedWasRunForIt ==
  \A r \in AddOnSet : \A g \in Gens :
    <<g, "Completed">> \in told[r] => madeFor[JobOf[r]] = <<r, g>>

\* While the cluster stays Ready, every add-on is installed in the end, even when
\* other install jobs never succeed and occupy the workers: waits are bounded and
\* the queue is fair.
Installs ==
  \A r \in AddOnSet :
    LET Relevant == {r} \cup Relied(r)
    IN  (\A x \in Relevant : JobOf[x] \notin Stuck) =>
          ((ready /\ Live(r)) ~>
             (~ready \/ Current(r).phase = "Implemented" \/ \E x \in Relevant : ~Live(x)))
=============================================================================
