------------------------------ MODULE ApiSchema ------------------------------
(***************************************************************************)
(* How the definitions of SchemaTypes are put together: the builder of       *)
(* kube-openapi takes a type from the map of GetOpenAPIDefinitions, adds its *)
(* definition to the specification it builds, and goes on with the           *)
(* dependencies, depth first.  A type that is already built is passed over;  *)
(* a type that has no definition ends the build with an error.  Nothing in   *)
(* the repository calls the builder: the map is exported for an API server   *)
(* that serves these types.                                                  *)
(***************************************************************************)
EXTENDS SchemaTypes, Integers, Sequences

\* The map, evaluated once.
Definitions == GetOpenAPIDefinitions
Types       == DOMAIN Definitions

\* The types of this repository, and the types the definitions refer to
\* although the generator wrote no definition for them.
OwnTypes == {"cma.Chart", "cma.ChartRepository", "cma.Condition",
             "cma.PackageManagerPermissions", "cma.SDSAppBundle", "cma.SDSAppBundleList",
             "cma.SDSAppBundleSpec", "cma.SDSAppBundleStatus", "cma.SDSApplication",
             "cma.SDSApplicationList", "cma.SDSApplicationSpec", "cma.SDSApplicationStatus",
             "cma.SDSCluster", "cma.SDSClusterList", "cma.SDSClusterRef",
             "cma.SDSClusterSpec", "cma.SDSClusterStatus", "cma.SDSPackageManager",
             "cma.SDSPackageManagerList", "cma.SDSPackageManagerRef",
             "cma.SDSPackageManagerSpec", "cma.SDSPackageManagerStatus", "cma.ServiceAccount"}
Elsewhere == {"resource.Quantity", "intstr.IntOrString", "runtime.RawExtension", "runtime.Object"}

VARIABLES
  root,    \* the type the build was asked for
  stack,   \* the types still to be built, the next one first
  built    \* the definitions in the specification

vars == <<root, stack, built>>

Init == root \in Types /\ stack = <<root>> /\ built = {}

\* buildDefinitionRecursively of the next type.
Build ==
  /\ stack # <<>> /\ Head(stack) \in Types \ built
  /\ built' = built \cup {Head(stack)}
  /\ stack' = Definitions[Head(stack)].dependencies \o Tail(stack)
  /\ UNCHANGED root

PassOver ==
  /\ stack # <<>> /\ Head(stack) \in built
  /\ stack' = Tail(stack)
  /\ UNCHANGED <<root, built>>

Next == Build \/ PassOver

Spec == Init /\ [][Next]_vars

-----------------------------------------------------------------------------

\* "cannot find model definition": the build ended with an error.
Missing == stack # <<>> /\ Head(stack) \notin Types

InStack == {stack[i] : i \in 1 .. Len(stack)}

References(t) == {Definitions[t].references[f] : f \in DOMAIN Definitions[t].references}

\* Beyond their form: of the types a build comes to, only the four of Elsewhere
\* have no definition.
TypeOK ==
  /\ root \in Types
  /\ InStack \subseteq Types \cup Elsewhere
  /\ built \subseteq Types

\* No reference dangles: whatever a definition in the specification refers to
\* is in it too, or still to be built.  The references stand in the schemas and
\* the dependencies beside them, and the builder follows the dependencies only.
NoDanglingReference ==
  \A t \in built : References(t) \subseteq built \cup InStack

\* The types of this repository can be built: none of them leads to a type for
\* which the generator wrote no definition, as a hundred types of the file do.
OwnTypesBuild == root \in OwnTypes => ~Missing

\* A property that a built definition requires is one that it has.
RequiredIsDefined ==
  \A t \in built :
    Definitions[t].required \subseteq Definitions[t].fields \cup DOMAIN Definitions[t].references
=============================================================================
