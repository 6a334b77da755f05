----------------------------- MODULE ClusterInstall -----------------------------
(***************************************************************************)
(* What a waiter does between finding a cluster running and storing Ready: *)
(* handleClusterReady with checkBundles and CreateSDSToken, call by call   *)
(* (ClusterController.Install is this module in one step).                 *)
(*                                                                         *)
(* Every event of a waiting SDSCluster starts another waiter, so several   *)
(* of one name walk through the same list of things to create, each with   *)
(* a Get and a Create that others come between.  An error in a bundle ends *)
(* the bundles, an error elsewhere is only logged; either way the notice   *)
(* goes out and Ready is stored.                                           *)
(*                                                                         *)
(* The list is made of entries: what the bundles that match the provider   *)
(* ask for, then logging, the service and the ingress.  Two entries may    *)
(* name the same object: names are put together from the bundle's words    *)
(* and the name of the cluster (sdsappbundle.go:55, 108).                  *)
(***************************************************************************)
EXTENDS Sequences, Integers, FiniteSets, SequencesExt

CONSTANTS
  Bundles,        \* the SDSAppBundles, in the order List returns them
  Provider,       \* Spec.Provider of the cluster
  Slots,          \* bound: waiters at once
  MaxTouches,     \* bound: writes of clients
  ConfigAnswers,  \* what asking for the kubeconfig may yield
  MaxFails,       \* bound: calls to API servers that fail
  MaxStops        \* bound: how often the operator is stopped

\* Where the account of the token may come to be.
Places == {"managed", "management"}

ASSUME InstallAssumption ==
  /\ Bundles \in Seq([pm : STRING, apps : Seq(STRING), providers : Seq(STRING),
                      home : BOOLEAN])
  /\ MaxTouches \in Nat /\ MaxFails \in Nat /\ MaxStops \in Nat
  /\ ConfigAnswers \subseteq Places \cup {"fail"}

VARIABLES
  url,        \* whether the resource names a callback URL
  phase, version,   \* the SDSCluster on the server
  seen,       \* the phase of the object in the informer's store
  present,    \* the objects that have been created for the cluster
  account,    \* account[p]: the service account at p, and whether it has a token
  bound,      \* where the account is bound to the cluster role
  saved,      \* the token in the secret kept for the cluster
  told,       \* the tokens that Completed notices carried
  waiter,     \* waiter[s]: a goroutine
  touches,
  trouble     \* what has gone wrong so far, in the operator's surroundings

resource == <<url, phase, version, seen, touches>>
vars == <<resource, present, account, bound, saved, told, waiter, trouble>>

\* The calls to API servers that failed; whether a kubeconfig was not to be had;
\* how often the operator was stopped.
Troubles == [calls : 0 .. MaxFails, config : BOOLEAN, stops : 0 .. MaxStops]
None     == [calls |-> 0, config |-> FALSE, stops |-> 0]

Tokens == Places \cup {"empty"}
Steps  == {"idle", "read", "list", "look", "create", "account", "bind", "name",
           "secret", "keep", "tell", "saveReady"}

Idle == [pc |-> "idle", fresh |-> 1, next |-> 1, at |-> "managed",
         named |-> FALSE, token |-> "empty"]

-----------------------------------------------------------------------------
(* The list of things to create *)

\* An object is of a kind, and has a name that no other of its kind has.
Manager(name)     == <<"SDSPackageManager", name>>
Application(name) == <<"SDSApplication", name>>

Kinds == {"SDSPackageManager", "SDSApplication", "Service", "Ingress"}
Entry == [object : Kinds \X STRING, looks : BOOLEAN, home : BOOLEAN, bundled : BOOLEAN]

Bundled(obj, home) == [object |-> obj, looks |-> TRUE, home |-> home, bundled |-> TRUE]
Own(obj, looks)    == [object |-> obj, looks |-> looks, home |-> TRUE, bundled |-> FALSE]

\* A package manager is created in the namespace of the bundle: unless that is
\* the operator's, the server refuses.  Applications are always at home.  Each
\* names its package manager itself: here, that of its bundle.
BundleEntries(b) ==
  <<Bundled(Manager(b.pm), b.home)>>
    \o [i \in 1 .. Len(b.apps) |-> Bundled(Application(b.apps[i]), TRUE)]

\* Once without providers, else once per entry that is the cluster's provider.
Rounds(b) ==
  IF b.providers = << >> THEN 1
  ELSE Cardinality({i \in 1 .. Len(b.providers) : b.providers[i] = Provider})

AllOf(b) == FlattenSeq([r \in 1 .. Rounds(b) |-> BundleEntries(b)])

\* What the bundles ask for, one after the other.
AllBundles == FlattenSeq([n \in 1 .. Len(Bundles) |-> AllOf(Bundles[n])])

\* The service and the ingress are created without a look.
Extras ==
  <<Own(Manager("pm-logger"), TRUE), Own(Application("logging-client-pm-logger"), TRUE),
    Own(<<"Service", "k8s-api-service-for">>, FALSE),
    Own(<<"Ingress", "k8s-api-ingress-for">>, FALSE)>>

Plan == AllBundles \o Extras

\* Where the extras begin.
FirstExtra == Len(AllBundles) + 1

\* A waiter: next is the place of the entry in Plan that it is at.
Waiter == [pc : Steps, fresh : Nat \ {0}, next : 1 .. Len(Plan) + 1, at : Places,
           named : BOOLEAN, token : Tokens]

-----------------------------------------------------------------------------
(* The surroundings *)

\* A client writes the resource, which then waits (again).
Touch ==
  /\ touches < MaxTouches /\ touches' = touches + 1
  /\ version' = version + 1 /\ phase' = "Waiting"
  /\ UNCHANGED <<url, seen, present, account, bound, saved, told, waiter, trouble>>

Deliver ==
  /\ seen # phase /\ seen' = phase
  /\ UNCHANGED <<url, phase, version, touches, present, account, bound, saved, told, waiter,
                 trouble>>

\* The token controller of a cluster gives an account its token.
GiveToken(p) ==
  /\ account[p] = "bare" /\ account' = [account EXCEPT ![p] = "token"]
  /\ UNCHANGED <<resource, present, bound, saved, told, waiter, trouble>>

-----------------------------------------------------------------------------
(* The waiters *)

Goto(s, pc) == waiter' = [waiter EXCEPT ![s].pc = pc]

\* A call is answered, or it fails.
Answered == UNCHANGED trouble
Fails    == trouble.calls < MaxFails /\ trouble' = [trouble EXCEPT !.calls = @ + 1]

\* waitForClusterReady polls again, or has run out of tries.
Again(s) == \/ waiter' = [waiter EXCEPT ![s] = [Idle EXCEPT !.pc = "read"]]
            \/ waiter' = [waiter EXCEPT ![s] = Idle]

\* An event of a resource that waits, and a cluster that runs.
Start(s) ==
  /\ waiter[s].pc = "idle" /\ seen = "Waiting"
  /\ Goto(s, "read")
  /\ UNCHANGED <<resource, present, account, bound, saved, told, trouble>>

\* Mutant of Continue: the end of the list is overlooked.
ContinueLooking(s, i) == waiter' = [waiter EXCEPT ![s].next = i, ![s].pc = "look"]

\* Go on with the entry at i; after the last comes the token.
Continue(s, i) ==
  waiter' = [waiter EXCEPT ![s].next = i,
                           ![s].pc = IF i > Len(Plan) THEN "account" ELSE "look"]

\* handleClusterReady: Get the fresh copy and look for the annotation.
ReadFresh(s) ==
  /\ waiter[s].pc = "read"
  /\ \/ /\ Answered
        /\ waiter' = [waiter EXCEPT ![s].fresh = version,
                                    ![s].pc = IF url THEN "list" ELSE "saveReady"]
     \/ Fails /\ Again(s)
  /\ UNCHANGED <<resource, present, account, bound, saved, told>>

\* checkBundles: List the bundles; on an error there are none.
ListBundles(s) ==
  /\ waiter[s].pc = "list"
  /\ \/ Continue(s, 1) /\ Answered
     \/ Continue(s, FirstExtra) /\ Fails
  /\ UNCHANGED <<resource, present, account, bound, saved, told>>

\* Mutants of AfterError: an error in a bundle is only logged, too; it ends all
\* that handleClusterReady creates.
AfterErrorGoesOn(i)  == i + 1
AfterErrorReturns(i) == Len(Plan) + 1

\* checkBundles returns at the first error; what comes after it is done anyway.
AfterError(i) == IF Plan[i].bundled THEN FirstExtra ELSE i + 1

\* Mutant of Look: what is there already is taken for an error.
LookOnce(s) ==
  LET i == waiter[s].next
  IN /\ waiter[s].pc = "look" /\ Plan[i].looks
     /\ \/ Plan[i].object \in present /\ Continue(s, AfterError(i))
        \/ Plan[i].object \notin present /\ Goto(s, "create")
     /\ Answered
     /\ UNCHANGED <<resource, present, account, bound, saved, told>>

\* Get the entry by name; any error is taken for "not found".
Look(s) ==
  LET i == waiter[s].next
  IN /\ waiter[s].pc = "look" /\ Plan[i].looks
     /\ \/ Plan[i].object \in present /\ Continue(s, i + 1) /\ Answered
        \/ Plan[i].object \notin present /\ Goto(s, "create") /\ Answered
        \/ Fails /\ Goto(s, "create")
     /\ UNCHANGED <<resource, present, account, bound, saved, told>>

\* Create the entry: refused when the name is taken or the namespace another.
CreateEntry(s) ==
  LET i     == waiter[s].next
      e     == Plan[i]
      Takes == e.home /\ e.object \notin present
      Error == UNCHANGED present /\ Continue(s, AfterError(i))
  IN /\ waiter[s].pc = "create" \/ (waiter[s].pc = "look" /\ ~e.looks)
     /\ \/ Takes /\ present' = present \cup {e.object} /\ Continue(s, i + 1) /\ Answered
        \/ ~Takes /\ Error /\ Answered
        \/ Fails /\ Error
     /\ UNCHANGED <<resource, account, bound, saved, told>>

\* Mutant of CreateAccount: without a kubeconfig there is no token, and no notice.
CreateAccountOrReturn(s) ==
  /\ waiter[s].pc = "account"
  /\ \E p \in ConfigAnswers :
       IF p = "fail"
       THEN /\ Goto(s, "saveReady") /\ UNCHANGED account
            /\ trouble' = [trouble EXCEPT !.config = TRUE]
       ELSE /\ waiter' = [waiter EXCEPT ![s].pc = "bind", ![s].at = p]
            /\ \/ /\ account' = [account EXCEPT ![p] = IF @ = "none" THEN "bare" ELSE @]
                  /\ Answered
               \/ Fails /\ UNCHANGED account
  /\ UNCHANGED <<resource, present, bound, saved, told>>

\* CreateSDSToken: the kubeconfig of the cluster, or of the management cluster
\* when it is empty, and the account there; an account that exists is left alone.
CreateAccount(s) ==
  /\ waiter[s].pc = "account"
  /\ \E p \in ConfigAnswers :
       IF p = "fail"
       THEN /\ Goto(s, "tell") /\ UNCHANGED account
            /\ trouble' = [trouble EXCEPT !.config = TRUE]
       ELSE /\ waiter' = [waiter EXCEPT ![s].pc = "bind", ![s].at = p]
            /\ \/ /\ account' = [account EXCEPT ![p] = IF @ = "none" THEN "bare" ELSE @]
                  /\ Answered
               \/ Fails /\ UNCHANGED account
  /\ UNCHANGED <<resource, present, bound, saved, told>>

\* CreateClusterRole and CreateClusterRoleBinding.
BindAccount(s) ==
  /\ waiter[s].pc = "bind"
  /\ \/ bound' = bound \cup {waiter[s].at} /\ Answered
     \/ Fails /\ UNCHANGED bound
  /\ Goto(s, "name")
  /\ UNCHANGED <<resource, present, account, saved, told>>

\* The operator goes down with all its goroutines, and comes up again.
Starts == waiter' = [s \in Slots |-> Idle] /\ seen' = phase

\* Mutant of NameToken: an account without a token has an empty name, no panic.
NameTokenOrNone(s) ==
  /\ waiter[s].pc = "name"
  /\ waiter' = [waiter EXCEPT ![s].pc = "secret",
                              ![s].named = (account[waiter[s].at] = "token")]
  /\ Answered
  /\ UNCHANGED <<resource, present, account, bound, saved, told>>

\* GetTokenNameFromServiceAccount: an account without a token is a panic, a
\* failed Get only an empty name.
NameToken(s) ==
  LET a == account[waiter[s].at]
      Named(b) == waiter' = [waiter EXCEPT ![s].named = b, ![s].pc = "secret"] /\ UNCHANGED seen
  IN /\ waiter[s].pc = "name"
     /\ \/ a = "token" /\ Named(TRUE) /\ Answered
        \/ a = "bare" /\ Starts /\ Answered
        \/ a = "none" /\ Named(FALSE) /\ Answered
        \/ Fails /\ Named(FALSE)
     /\ UNCHANGED <<url, phase, version, touches, present, account, bound, saved, told>>

\* GetSecret, without a name or on an error the empty secret.
ReadToken(s) ==
  LET Read(t) == waiter' = [waiter EXCEPT ![s].pc = "keep", ![s].token = t]
  IN /\ waiter[s].pc = "secret"
     /\ \/ waiter[s].named /\ Read(waiter[s].at) /\ Answered
        \/ ~waiter[s].named /\ Read("empty") /\ Answered
        \/ Fails /\ Read("empty")
     /\ UNCHANGED <<resource, present, account, bound, saved, told>>

\* CreateSecret: what is kept already is not replaced.
KeepToken(s) ==
  /\ waiter[s].pc = "keep"
  /\ \/ saved' = (IF saved = "none" THEN waiter[s].token ELSE saved) /\ Answered
     \/ Fails /\ UNCHANGED saved
  /\ Goto(s, "tell")
  /\ UNCHANGED <<resource, present, account, bound, told>>

\* Hand out the Completed notice.
TellCompleted(s) ==
  /\ waiter[s].pc = "tell"
  /\ told' = told \cup {waiter[s].token}
  /\ Goto(s, "saveReady")
  /\ UNCHANGED <<resource, present, account, bound, saved, trouble>>

\* Update the fresh copy with phase Ready.
SaveReady(s) ==
  LET Accepted == waiter[s].fresh = version
      Stores   == /\ Accepted /\ phase' = "Ready"
                  /\ version' = IF phase = "Ready" THEN version ELSE version + 1
      Keeps    == UNCHANGED <<phase, version>>
  IN /\ waiter[s].pc = "saveReady"
     /\ \/ Stores /\ waiter' = [waiter EXCEPT ![s] = Idle] /\ Answered
        \/ ~Accepted /\ Keeps /\ Again(s) /\ Answered
        \/ Fails /\ (Keeps \/ Stores) /\ Again(s)
     /\ UNCHANGED <<url, seen, touches, present, account, bound, saved, told>>

Restart ==
  /\ trouble.stops < MaxStops /\ trouble' = [trouble EXCEPT !.stops = @ + 1]
  /\ Starts
  /\ UNCHANGED <<url, phase, version, touches, present, account, bound, saved, told>>

-----------------------------------------------------------------------------
Init ==
  /\ url \in BOOLEAN
  /\ phase = "Waiting" /\ version = 1 /\ seen = "Waiting" /\ touches = 0
  /\ present = {} /\ bound = {} /\ saved = "none" /\ told = {} /\ trouble = None
  /\ account = [p \in Places |-> "none"]
  /\ waiter = [s \in Slots |-> Idle]

Handle(s) ==
  \/ Start(s) \/ ReadFresh(s) \/ ListBundles(s) \/ Look(s) \/ CreateEntry(s)
  \/ CreateAccount(s) \/ BindAccount(s) \/ NameToken(s) \/ ReadToken(s)
  \/ KeepToken(s) \/ TellCompleted(s) \/ SaveReady(s)

Next ==
  \/ Touch \/ Deliver \/ Restart
  \/ \E p \in Places : GiveToken(p)
  \/ \E s \in Slots : Handle(s)

Spec == Init /\ [][Next]_vars

-----------------------------------------------------------------------------
(* Properties *)

TypeOK ==
  /\ url \in BOOLEAN
  /\ phase \in {"Waiting", "Ready"} /\ seen \in {"Waiting", "Ready"}
  /\ version \in Nat \ {0} /\ touches \in 0 .. MaxTouches
  /\ present \subseteq {Plan[i].object : i \in 1 .. Len(Plan)}
  /\ account \in [Places -> {"none", "bare", "token"}]
  /\ bound \subseteq Places
  /\ saved \in Tokens \cup {"none"} /\ told \subseteq Tokens
  /\ trouble \in Troubles
  /\ waiter \in [Slots -> Waiter]
  /\ \A s \in Slots : /\ waiter[s].fresh <= version
                      /\ waiter[s].pc \in {"look", "create"} => waiter[s].next <= Len(Plan)

\* What the bundles ask for before the first that the server must refuse, and
\* what every cluster gets.
Wanted ==
  {Plan[i].object : i \in {j \in 1 .. Len(Plan) :
     Plan[j].bundled => \A k \in 1 .. j : Plan[k].home}}

Installed ==
  url /\ phase = "Ready" /\ (\A s \in Slots : waiter[s].pc = "idle") => Wanted \subseteq present

\* As long as nothing goes wrong, a resource with a callback URL that is Ready,
\* and whose waiters are done, has all that was to be created: a waiter that
\* another one beat to a Create gives up its bundles, but never all of them do,
\* and no panic takes down the one that is left.  (Bundles leave the names of
\* logging alone, and the kubeconfig does not come and go between two clusters.)
InstalledWithoutTrouble == trouble = None => Installed

\* The same, as README.md states it, whatever happens: "SDSAppBundles are a way
\* to define what helm charts get installed on managed clusters automatically on
\* cluster creation".
BundlesGetInstalled == Installed

\* An application of a bundle is created only where a package manager for it is:
\* the order of the bundle holds whatever fails and whoever else creates.
ApplicationsHaveManagers ==
  \A i \in 1 .. Len(Bundles) : \A j \in 1 .. Len(Bundles[i].apps) :
    Application(Bundles[i].apps[j]) \in present =>
      \E k \in 1 .. Len(Bundles) : /\ Manager(Bundles[k].pm) \in present
                                  /\ \E l \in 1 .. Len(Bundles[k].apps) :
                                       Bundles[k].apps[l] = Bundles[i].apps[j]

\* Unless a call fails, the token of a Completed notice is the one kept for the
\* cluster, even after a panic in CreateSDSToken, and no later notice carries
\* another.
ToldTokenIsKept == trouble.calls = 0 => \A t \in told \ {"empty"} : saved = t

\* Unless a call fails, whoever is told that the cluster is complete finds
\* logging, the service and the ingress, and a token that comes with the notice
\* has its role.
CompletedIsUsable ==
  trouble.calls = 0 =>
    /\ told # {} => {Extras[i].object : i \in 1 .. Len(Extras)} \subseteq present
    /\ told \cap Places \subseteq bound

\* The copy that a waiter of ClusterReadiness has: from ReadFresh to SaveReady.
CopyOf(s) ==
  LET pc == waiter[s].pc
  IN  IF pc \in {"idle", "read"}
      THEN [stage |-> "none", ver |-> 0, url |-> FALSE, gen |-> 0]
      ELSE [stage |-> IF pc = "saveReady" THEN "told" ELSE "taken", ver |-> waiter[s].fresh,
            url |-> url, gen |-> 1]

\* All that a waiter does between its copy and its notice is one step to
\* ClusterController (Install), and none to ClusterReadiness, which both implement:
\* no error on the way, in a bundle, a kubeconfig or a token, keeps a waiter from
\* its notice, and only one that gave it stores Ready, over the version it read.
Readiness == INSTANCE ClusterReadiness WITH
  Clusters  <- {"it"},
  resource  <- [c \in {"it"} |-> [phase |-> phase, url |-> url, gen |-> 1, ver |-> version]],
  copy      <- [c \in {"it"} |-> [s \in Slots |-> CopyOf(s)]],
  completed <- [c \in {"it"} |-> IF told = {} THEN {} ELSE {1}]
ImplementsReadiness == Readiness!Spec
=============================================================================
