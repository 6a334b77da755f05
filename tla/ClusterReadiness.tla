--------------------------- MODULE ClusterReadiness ---------------------------
(***************************************************************************)
(* What the waiters of an SDSCluster do about it between finding that its  *)
(* cluster runs and storing Ready (handleClusterReady,                     *)
(* sds-cluster/controller.go:283-459), and nothing of what they create on  *)
(* the way.  A waiter takes a fresh copy of the resource, hands out the    *)
(* Completed notice when the copy names a callback URL, and then tries to  *)
(* store Ready:                                                            *)
(*                                                                         *)
(*   - nothing but the end of the process keeps a waiter that has taken a  *)
(*     copy from handing out its notice, whatever fails meanwhile;         *)
(*   - the notice is of the incarnation of the copy, and only of one that  *)
(*     names a URL;                                                        *)
(*   - only a waiter that has done so stores Ready, and only over the very *)
(*     version that it took.                                               *)
(*                                                                         *)
(* ClusterController and ClusterInstall both implement this, the former    *)
(* for all clusters and with the way to Ready in one step, the latter for  *)
(* one cluster and call by call: it is what the two modules agree on.      *)
(***************************************************************************)
EXTENDS Integers

CONSTANTS Clusters,     \* the names of the SDSCluster resources
          Slots         \* the waiters of a name

VARIABLES
  resource,    \* resource[c]: [phase, url, gen, ver] as the API server has it
  copy,        \* copy[c][s]: the fresh copy of a waiter, and how far it is
  completed    \* completed[c]: the incarnations with a Completed notice

Phases == {"Gone", "Waiting", "Ready", "Failed", "Error", "Deleting", "Upgrading", "Garbled"}

\* A waiter that has no copy, and one with a copy of v.
NoCopy       == [stage |-> "none", ver |-> 0, url |-> FALSE, gen |-> 0]
Copy(v, stage) == [stage |-> stage, ver |-> v.ver, url |-> v.url, gen |-> v.gen]

NoCopies == [c \in Clusters |-> [s \in Slots |-> NoCopy]]

Init ==
  /\ resource \in [Clusters -> [phase : Phases \ {"Ready"}, url : BOOLEAN, gen : {0, 1}, ver : {1}]]
  /\ copy = NoCopies
  /\ completed = [c \in Clusters |-> {}]

Live(c) == resource[c].phase # "Gone"

\* The next version of c.
Store(c, p, u, g) ==
  resource' = [resource EXCEPT ![c] = [phase |-> p, url |-> u, gen |-> g, ver |-> @.ver + 1]]

\* Clients and other handlers.
Create(c) ==
  /\ ~Live(c)
  /\ \E u \in BOOLEAN : Store(c, "Waiting", u, resource[c].gen + 1)
  /\ UNCHANGED <<copy, completed>>

Write(c) ==
  /\ Live(c)
  /\ resource'[c].phase \in Phases \ {"Ready"}
  /\ Store(c, resource'[c].phase, resource[c].url, resource[c].gen)
  /\ UNCHANGED <<copy, completed>>

\* Get the resource by name.  Without a URL there is nothing to do or to say.
Take(c, s) ==
  /\ Live(c) /\ copy[c][s] = NoCopy
  /\ \E stage \in {"taken"} \cup (IF resource[c].url THEN {} ELSE {"told"}) :
       copy' = [copy EXCEPT ![c][s] = Copy(resource[c], stage)]
  /\ UNCHANGED <<resource, completed>>

\* Hand out the Completed notice.
Tell(c, s) ==
  LET v == copy[c][s]
  IN /\ v.stage = "taken"
     /\ copy' = [copy EXCEPT ![c][s] = Copy(v, "told")]
     /\ completed' = [completed EXCEPT ![c] = @ \cup IF v.url THEN {v.gen} ELSE {}]
     /\ UNCHANGED resource

\* The Update with Ready is accepted.
MarkReady(c, s) ==
  /\ copy[c][s].stage = "told" /\ copy[c][s].ver = resource[c].ver /\ Live(c)
  /\ Store(c, "Ready", resource[c].url, resource[c].gen)
  /\ copy' = [copy EXCEPT ![c][s] = NoCopy]
  /\ UNCHANGED completed

\* It is refused, fails, or changes nothing.
Leave(c, s) ==
  /\ copy[c][s].stage = "told"
  /\ copy' = [copy EXCEPT ![c][s] = NoCopy]
  /\ UNCHANGED <<resource, completed>>

\* The operator ends, and its waiters with it.
Stop == copy' = NoCopies /\ UNCHANGED <<resource, completed>>

Next ==
  \/ Stop
  \/ \E c \in Clusters : Create(c) \/ Write(c)
  \/ \E c \in Clusters, s \in Slots : Take(c, s) \/ Tell(c, s) \/ MarkReady(c, s) \/ Leave(c, s)

Spec == Init /\ [][Next]_<<resource, copy, completed>>
=============================================================================
