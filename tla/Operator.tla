------------------------------- MODULE Operator -------------------------------
(***************************************************************************)
(* The operator process (cmd/cma-operator/cmd/root.go): it loads a          *)
(* configuration, creates the custom resource definitions one after         *)
(* another, constructs the three controllers and runs them until it is      *)
(* killed.  A controller waits for its cache before its workers start, and  *)
(* the notices its handlers hand out live and die with the process.  The    *)
(* deployment starts the process again whenever it ends.                    *)
(*                                                                         *)
(* The channel stop of root.go:98 is never closed and no signal is handled: *)
(* a process ends by being killed, by os.Exit or by a panic, never by the   *)
(* lines after <-stop.                                                      *)
(***************************************************************************)
EXTENDS Callbacks, Sequences

CONSTANT MaxStops     \* bound: how often the process ends, by a panic or otherwise

ASSUME OperatorAssumption == MaxStops \in Nat

\* The order in which operator() creates the definitions, and the kinds that
\* have a controller.
CRDs        == <<"cluster", "packageManager", "application", "appBundle">>
Kinds       == {CRDs[i] : i \in 1 .. Len(CRDs)}
Controllers == {"cluster", "packageManager", "application"}

VARIABLES
  at,           \* where operator() is
  next,         \* the definition it creates next
  crds,         \* the definitions on the API server
  controller,   \* controller[k]: where Run of the controller of k is
  stops

processVars == <<at, next, crds, controller, stops>>
vars == <<posts, processVars>>

NoControllers == [k \in Controllers |-> "none"]

Init ==
  /\ PostsInit
  /\ at = "down" /\ next = 1 /\ controller = NoControllers /\ stops = 0
  /\ crds \in SUBSET Kinds

\* What every end of the process does.
Ends ==
  /\ stops < MaxStops /\ stops' = stops + 1
  /\ at' = "down" /\ controller' = NoControllers
  /\ UNCHANGED <<next, crds>>

\* GenerateKubernetesConfig found a configuration.
Boot ==
  /\ at = "down"
  /\ at' = "setup" /\ next' = 1
  /\ UNCHANGED <<posts, crds, controller, stops>>

\* It found none: the error is logged, and NewForConfigOrDie of the nil
\* configuration panics.
BootWithoutConfig == at = "down" /\ Ends /\ UNCHANGED posts

\* CreateCRD, whose error is ignored.  One that exists is left as it is.
CreateCRD ==
  /\ at = "setup" /\ next <= Len(CRDs)
  /\ next' = next + 1
  /\ crds' \in {crds, crds \cup {CRDs[next]}}
  /\ UNCHANGED <<posts, at, controller, stops>>

\* New...Controller three times, then a goroutine for each Run.
Start ==
  /\ at = "setup" /\ next > Len(CRDs)
  /\ at' = "up" /\ controller' = [k \in Controllers |-> "syncing"]
  /\ UNCHANGED <<posts, next, crds, stops>>

\* No client of the cluster-manager-api: os.Exit(-1).
StartWithoutClient ==
  /\ at = "setup" /\ next > Len(CRDs)
  /\ Ends /\ UNCHANGED posts

\* Mutant of Listable: one factory for all, which waits for every cache.
AllListable(k) == Controllers \subseteq crds

\* The reflector lists again and again until the server knows the kind.
Listable(k) == k \in crds

\* WaitForCacheSync returns: the workers start.
Sync(k) ==
  /\ controller[k] = "syncing" /\ Listable(k)
  /\ controller' = [controller EXCEPT ![k] = "working"]
  /\ UNCHANGED <<posts, at, next, crds, stops>>

\* A handler of controller k hands out a notice.
HandOut(k, m) ==
  /\ controller[k] = "working"
  /\ \E url \in Urls : DoCallback(m, url)
  /\ UNCHANGED processVars

PostStep(m) == (Received(m) \/ Unreachable(m) \/ WakeUp(m)) /\ UNCHANGED processVars

\* The panic of a post takes the process down, and every other post with it.
Panic(m) == Panics(m) /\ CutOff /\ Ends

\* The process is killed, moved to another node, or out of memory.
Kill == at # "down" /\ CutOff /\ Ends

Next ==
  \/ Boot \/ BootWithoutConfig \/ CreateCRD \/ Start \/ StartWithoutClient \/ Kill
  \/ \E k \in Controllers : Sync(k) \/ \E m \in Messages : HandOut(k, m)
  \/ \E m \in Messages : PostStep(m) \/ Panic(m)

\* The deployment starts the process again, the process goes on, reflectors
\* list again, and a post is tried, answered or slept over.  Nothing is
\* assumed of the faults, nor that a notice is ever handed out; that a post
\* is answered is not assumed either, for Received may hang.
Fairness ==
  /\ WF_vars(Boot) /\ WF_vars(CreateCRD) /\ WF_vars(Start)
  /\ \A k \in Controllers : WF_vars(Sync(k))
  /\ \A m \in Messages : WF_vars(PostStep(m))

Spec     == Init /\ [][Next]_vars
FairSpec == Spec /\ Fairness

-----------------------------------------------------------------------------

TypeOK ==
  /\ PostsOK
  /\ at \in {"down", "setup", "up"} /\ next \in 1 .. Len(CRDs) + 1
  /\ crds \subseteq Kinds
  /\ controller \in [Controllers -> {"none", "syncing", "working"}]
  /\ stops \in Nat

\* Every post comes to an end, is cut off with its process, or waits for ever
\* for a receiver that took the notice and does not answer.  One whose URL is
\* malformed ends the process instead.
PostsEnd ==
  \A m \in Messages :
    Alive(m) ~> (~Alive(m) \/ posts[m].pc = "hung" \/ posts[m].url = "malformed")

\* After the last fault the process is up for good and every controller whose
\* kind the server knows works, also when the definitions of other kinds could
\* not be created and also when a former process died in the middle.
ComesUp ==
  <>[](at = "up" /\ \A k \in Controllers \cap crds : controller[k] = "working")
=============================================================================
