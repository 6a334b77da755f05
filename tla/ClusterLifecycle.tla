--------------------------- MODULE ClusterLifecycle ---------------------------
(***************************************************************************)
(* What the SDSCluster controller promises about the SDSCluster resource   *)
(* it keeps on the API server, and nothing about how: for every name, the  *)
(* steps the stored resource may take.  A client takes the steps Create,   *)
(* Request and Remove, the operator all but Create and Request.            *)
(*                                                                         *)
(*   - the operator never creates a resource and never turns one           *)
(*     incarnation of a name into another;                                 *)
(*   - Failed is only ever written over a resource that still waits, and   *)
(*     Error (or the garbled text a data race can leave, see               *)
(*     ClusterController) only over one that waits or has failed: a        *)
(*     resource that has become Ready, or that a client asked to delete or *)
(*     to upgrade, is never declared failed by a late handler.             *)
(*                                                                         *)
(* Ready may replace any phase: the code promises no more (MarkReady).     *)
(***************************************************************************)
EXTENDS Integers

CONSTANTS Clusters      \* the names of the SDSCluster resources

VARIABLES resource      \* resource[c]: [phase, url, gen] as the API server has it

Live(c) == resource[c].phase # "Gone"

SetPhase(c, p) == resource' = [resource EXCEPT ![c].phase = p]

Init == resource = [c \in Clusters |-> [phase |-> "Gone", url |-> FALSE, gen |-> 0]]

Create(c) ==
  /\ ~Live(c)
  /\ \E u \in BOOLEAN :
       resource' = [resource EXCEPT
                      ![c] = [phase |-> "Waiting", url |-> u, gen |-> @.gen + 1]]

Request(c) ==
  /\ Live(c) /\ resource[c].phase # "Deleting"
  /\ \E p \in {"Waiting", "Upgrading", "Deleting"} : SetPhase(c, p)

Remove(c) == Live(c) /\ SetPhase(c, "Gone")

MarkReady(c) == Live(c) /\ SetPhase(c, "Ready")

MarkFailed(c) == resource[c].phase = "Waiting" /\ SetPhase(c, "Failed")

MarkError(c) ==
  /\ resource[c].phase \in {"Waiting", "Failed"}
  /\ \E p \in {"Error", "Garbled"} : SetPhase(c, p)

Next == \E c \in Clusters :
  Create(c) \/ Request(c) \/ Remove(c) \/ MarkReady(c) \/ MarkFailed(c) \/ MarkError(c)

Spec == Init /\ [][Next]_resource
=============================================================================
