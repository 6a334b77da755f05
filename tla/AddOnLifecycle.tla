---------------------------- MODULE AddOnLifecycle ----------------------------
(***************************************************************************)
(* What the two add-on controllers promise: which phase of an add-on may   *)
(* follow which, what must have been announced by then, and what must have *)
(* run on the managed cluster.  There are no informers, queues or workers  *)
(* here; every step happens at once, where the API server and the managed  *)
(* cluster see it.                                                         *)
(***************************************************************************)
EXTENDS Integers

CONSTANTS
  PackageManagers, Applications,
  Needs,          \* Needs[a]: the package manager application a is installed with
  Jobs, JobOf     \* JobOf[r]: the install job of add-on r

VARIABLES
  resource,   \* resource[r]: [phase, gen, url], what the API server has
  asked,      \* asked[r]: the [gen, url] with which r has been waiting to be deployed
  job,        \* job[j]: the install job j on the managed cluster
  told        \* told[r]: the notices for r, each with the gen it is about

vars == <<resource, asked, job, told>>

AddOnSet == PackageManagers \cup Applications

Succeeded(r) == job[JobOf[r]] = "succeeded"

Move(r, p) == resource' = [resource EXCEPT ![r].phase = p] /\ UNCHANGED asked

Tell(r, notice) == told' = [told EXCEPT ![r] = @ \cup {notice}]

\* Gen g of r has been announced, unless it could be deployed from an object that
\* names no callback URL.
Announced(r, g) == <<g, "InProgress">> \in told[r] \/ [gen |-> g, url |-> FALSE] \in asked[r]

-----------------------------------------------------------------------------
(* Clients *)

Ask(r, a) == asked' = [asked EXCEPT ![r] = @ \cup {a}]

\* A client gives r a callback URL or takes it away.
Annotate(r) ==
  /\ resource[r].phase # "Gone"
  /\ \E u \in BOOLEAN :
       /\ resource' = [resource EXCEPT ![r].url = u]
       /\ IF resource[r].phase = "Pending" THEN Ask(r, [gen |-> resource[r].gen, url |-> u])
          ELSE UNCHANGED asked
  /\ UNCHANGED <<job, told>>

Delete(r) ==
  /\ resource[r].phase # "Gone"
  /\ Move(r, "Gone") /\ UNCHANGED <<job, told>>

Create(r) ==
  /\ resource[r].phase = "Gone"
  /\ \E u \in BOOLEAN :
       /\ resource' = [resource EXCEPT ![r] = [phase |-> "Pending", gen |-> @.gen + 1, url |-> u]]
       /\ Ask(r, [gen |-> resource[r].gen + 1, url |-> u])
  /\ UNCHANGED <<job, told>>

-----------------------------------------------------------------------------
(* The operator *)

\* Start the job of r unless a job of that name is there.  The job of an
\* application is only started where tiller has been installed.
Deploy(r) ==
  /\ job[JobOf[r]] = "none"
  /\ r \in Applications => Succeeded(Needs[r])
  /\ job' = [job EXCEPT ![JobOf[r]] = "running"]
  /\ UNCHANGED <<resource, asked, told>>

\* Announce the deployment of a gen, which may be an old one by now: nobody hears
\* of one that never named a callback URL while it was waiting.
Announce(r, g) ==
  /\ [gen |-> g, url |-> TRUE] \in asked[r]
  /\ Tell(r, <<g, "InProgress">>)
  /\ UNCHANGED <<resource, asked, job>>

\* What is Installing has been announced.
RecordDeployed(r) ==
  /\ resource[r].phase = "Pending" /\ Announced(r, resource[r].gen)
  /\ Move(r, "Installing") /\ UNCHANGED <<job, told>>

\* What is Implemented has been announced and has run; the client, if r names one
\* by now, hears of it when the operator knows it has been stored.
RecordImplemented(r) ==
  /\ resource[r].phase \in {"Pending", "Installing"}
  /\ Announced(r, resource[r].gen) /\ Succeeded(r)
  /\ Move(r, "Implemented")
  /\ \/ resource[r].url /\ Tell(r, <<resource[r].gen, "Completed">>)
     \/ UNCHANGED told
  /\ UNCHANGED job

-----------------------------------------------------------------------------
(* The managed cluster *)

JobSucceeds(j) ==
  /\ job[j] = "running" /\ job' = [job EXCEPT ![j] = "succeeded"]
  /\ UNCHANGED <<resource, asked, told>>

-----------------------------------------------------------------------------
Init ==
  /\ \E url \in [AddOnSet -> BOOLEAN] :
       /\ resource = [r \in AddOnSet |-> [phase |-> "Pending", gen |-> 1, url |-> url[r]]]
       /\ asked = [r \in AddOnSet |-> {[gen |-> 1, url |-> url[r]]}]
  /\ job = [j \in Jobs |-> "none"]
  /\ told = [r \in AddOnSet |-> {}]

Next ==
  \/ \E r \in AddOnSet :
       \/ Annotate(r) \/ Delete(r) \/ Create(r)
       \/ Deploy(r) \/ RecordDeployed(r) \/ RecordImplemented(r)
       \/ \E g \in 1 .. resource[r].gen : Announce(r, g)
  \/ \E j \in Jobs : JobSucceeds(j)

Spec == Init /\ [][Next]_vars
=============================================================================
