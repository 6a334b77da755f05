------------------------ MODULE ClusterInstalledProofs ------------------------
(***************************************************************************)
(* Theorems about what ClusterInstall creates, for any bundles, any number *)
(* of waiters at once, of touches, failing calls and stops.                *)
(*                                                                         *)
(* An application of a bundle is told from the others by its name, so two  *)
(* theorems suppose that bundles leave the names of logging alone.  That   *)
(* a Ready cluster has what it was to get needs one thing more: that the   *)
(* kubeconfig, where there is one, is always that of one cluster.  TLC     *)
(* finds counterexamples without either.                                   *)
(***************************************************************************)
EXTENDS ClusterInstallProofs, FiniteSetTheorems, WellFoundedInduction

-----------------------------------------------------------------------------
(* Flattened sequences *)

\* Induction over a set of numbers.
LEMMA AllNumbers ==
  ASSUME NEW T, 0 \in T, \A n \in Nat : n \in T => n + 1 \in T
  PROVE  Nat \subseteq T
<1> SUFFICES ASSUME ~(Nat \subseteq T) PROVE FALSE
  OBVIOUS
<1> DEFINE less == {p \in Nat \X Nat : p[1] < p[2]}
<1> DEFINE rest == Nat \ T
<1>1. IsWellFoundedOn(less, Nat)
  BY NatLessThanWellFounded, Zenon DEF OpToRel
<1>2. rest \subseteq Nat /\ rest # {}
  OBVIOUS
<1> HIDE DEF less, rest
<1>3. PICK n \in rest : \A m \in rest : ~(<<m, n>> \in less)
  BY <1>1, <1>2, WFMin
<1>4. n \in Nat /\ n \notin T
  BY DEF rest
<1>5. n - 1 \in Nat /\ n - 1 \in rest
  BY <1>4 DEF rest
<1>6. <<n - 1, n>> \in less
  BY <1>4, <1>5 DEF less
<1> QED BY <1>3, <1>5, <1>6

\* f[n] is the parts up to n, one after the other.
Flattens(f, part, n) ==
  \A i \in 1 .. n : f[i] = IF i = 1 THEN part[i] ELSE f[i - 1] \o part[i]

LEMMA FlattenDefined ==
  ASSUME NEW G, \A s, t \in G : s \o t \in G, NEW N \in Nat, NEW part \in [1 .. N -> G]
  PROVE  \E f \in [1 .. N -> G] : Flattens(f, part, N)
<1> DEFINE T == {n \in Nat : n <= N => \E f \in [1 .. n -> G] : Flattens(f, part, n)}
<1>1. 0 \in T
  <2>1. PICK f : f \in [1 .. 0 -> G]
    <3>1. [i \in 1 .. 0 |-> 0] \in [1 .. 0 -> G]
      OBVIOUS
    <3> QED BY <3>1
  <2>2. Flattens(f, part, 0)
    BY DEF Flattens
  <2> QED BY <2>1, <2>2
<1>2. ASSUME NEW n \in Nat, n \in T PROVE n + 1 \in T
  <2> SUFFICES ASSUME n + 1 <= N
               PROVE  \E f \in [1 .. n + 1 -> G] : Flattens(f, part, n + 1)
    OBVIOUS
  <2>1. PICK f \in [1 .. n -> G] : Flattens(f, part, n)
    BY <1>2
  <2>2. n + 1 \in 1 .. N /\ part[n + 1] \in G
    OBVIOUS
  <2>3. n # 0 => f[n] \in G /\ f[n] \o part[n + 1] \in G
    BY <2>2
  <2>4. PICK x \in G : x = IF n = 0 THEN part[n + 1] ELSE f[n] \o part[n + 1]
    BY <2>2, <2>3
  <2> DEFINE g == [i \in 1 .. n + 1 |-> IF i = n + 1 THEN x ELSE f[i]]
  <2>5. g \in [1 .. n + 1 -> G]
    OBVIOUS
  <2>6. ASSUME NEW i \in 1 .. n + 1 PROVE g[i] = IF i = 1 THEN part[i] ELSE g[i - 1] \o part[i]
    <3>1. CASE i = n + 1
      <4>1. g[i] = x /\ (n # 0 => g[i - 1] = f[n])
        BY <3>1
      <4> QED BY <2>4, <3>1, <4>1
    <3>2. CASE i # n + 1
      <4>1. i \in 1 .. n /\ g[i] = f[i] /\ (i # 1 => g[i - 1] = f[i - 1])
        BY <3>2
      <4>2. f[i] = IF i = 1 THEN part[i] ELSE f[i - 1] \o part[i]
        BY <2>1, <4>1 DEF Flattens
      <4> HIDE DEF g
      <4> QED BY <4>1, <4>2
    <3> QED BY <3>1, <3>2
  <2>7. Flattens(g, part, n + 1)
    BY <2>6 DEF Flattens
  <2> HIDE DEF g
  <2> QED BY <2>5, <2>7
<1>3. Nat \subseteq T
  <2> HIDE DEF T
  <2> QED BY <1>1, <1>2, AllNumbers
<1> QED BY <1>3

\* What holds of the parts, and of any two together, holds of all together.
LEMMA FlattenIn ==
  ASSUME NEW G, << >> \in G, \A s, t \in G : s \o t \in G, NEW seqs \in Seq(G)
  PROVE  FlattenSeq(seqs) \in G
<1> DEFINE N == Len(seqs)
<1> DEFINE flatten[i \in 1 .. N] == IF i = 1 THEN seqs[i] ELSE flatten[i - 1] \o seqs[i]
<1>1. N \in Nat /\ seqs \in [1 .. N -> G]
  OBVIOUS
<1>2. FlattenSeq(seqs) = IF N = 0 THEN seqs ELSE flatten[N]
  BY DEF FlattenSeq
<1>3. N = 0 => seqs = << >>
  OBVIOUS
<1>4. \E f : f = [i \in 1 .. N |-> IF i = 1 THEN seqs[i] ELSE f[i - 1] \o seqs[i]]
  <2> HIDE DEF N
  <2>1. PICK f \in [1 .. N -> G] : Flattens(f, seqs, N)
    BY <1>1, FlattenDefined
  <2>2. f = [i \in 1 .. N |-> IF i = 1 THEN seqs[i] ELSE f[i - 1] \o seqs[i]]
    BY <2>1 DEF Flattens
  <2> QED BY <2>2
<1> HIDE DEF N
<1>5. flatten = [i \in 1 .. N |-> IF i = 1 THEN seqs[i] ELSE flatten[i - 1] \o seqs[i]]
  BY <1>4 DEF flatten
<1> HIDE DEF flatten
<1> DEFINE T == {n \in Nat : n + 1 \in 1 .. N => flatten[n + 1] \in G}
<1>6. 0 \in T
  BY <1>1, <1>5
<1>7. ASSUME NEW n \in Nat, n \in T PROVE n + 1 \in T
  <2> SUFFICES ASSUME n + 2 \in 1 .. N PROVE flatten[n + 2] \in G
    OBVIOUS
  <2>1. n + 1 \in 1 .. N /\ n + 2 # 1 /\ (n + 2) - 1 = n + 1
    BY <1>1
  <2>2. flatten[n + 2] = flatten[n + 1] \o seqs[n + 2]
    BY <1>5, <2>1
  <2>3. flatten[n + 1] \in G /\ seqs[n + 2] \in G
    BY <1>1, <1>7, <2>1
  <2> QED BY <2>2, <2>3
<1>8. Nat \subseteq T
  <2> HIDE DEF T
  <2> QED BY <1>6, <1>7, AllNumbers
<1>9. N # 0 => flatten[N] \in G
  <2> SUFFICES ASSUME N # 0 PROVE flatten[N] \in G
    OBVIOUS
  <2>1. N - 1 \in Nat /\ (N - 1) + 1 = N /\ N \in 1 .. N
    BY <1>1
  <2> QED BY <1>8, <2>1
<1> QED BY <1>2, <1>3, <1>9

-----------------------------------------------------------------------------
(* The list of things to create *)

\* What a bundle asks for: it is looked for first.
BundleEntry ==
  [object : {"SDSPackageManager", "SDSApplication"} \X STRING,
   looks : {TRUE}, home : BOOLEAN, bundled : {TRUE}]

\* Each entry is the package manager of a bundle, or an application of a bundle
\* whose package manager comes before it.
InOrder(es) ==
  \A j \in 1 .. Len(es) : \E m \in 1 .. j, b \in 1 .. Len(Bundles) :
    /\ es[m].object = Manager(Bundles[b].pm)
    /\ j = m \/ \E a \in 1 .. Len(Bundles[b].apps) :
                   es[j].object = Application(Bundles[b].apps[a])

Lists == {es \in Seq(BundleEntry) : InOrder(es)}

\* Two sequences, one after the other.
LEMMA Joined ==
  ASSUME NEW S, NEW s \in Seq(S), NEW t \in Seq(S)
  PROVE  /\ s \o t \in Seq(S) /\ Len(s) \in Nat /\ Len(t) \in Nat
         /\ Len(s \o t) = Len(s) + Len(t)
         /\ \A i \in 1 .. Len(s) : (s \o t)[i] = s[i]
         /\ \A i \in 1 .. Len(t) : (s \o t)[Len(s) + i] = t[i]
OBVIOUS

LEMMA ListsJoin == \A s, t \in Lists : s \o t \in Lists
<1> SUFFICES ASSUME NEW s \in Lists, NEW t \in Lists PROVE InOrder(s \o t)
  BY Joined DEF Lists
<1> DEFINE st == s \o t
<1>1. /\ InOrder(s) /\ InOrder(t)
      /\ Len(s) \in Nat /\ Len(t) \in Nat /\ Len(st) = Len(s) + Len(t)
      /\ \A i \in 1 .. Len(s) : st[i] = s[i]
      /\ \A i \in 1 .. Len(t) : st[Len(s) + i] = t[i]
  BY Joined DEF Lists
<1> HIDE DEF st
<1> SUFFICES ASSUME NEW j \in 1 .. Len(st)
             PROVE  \E m \in 1 .. j, b \in 1 .. Len(Bundles) :
                      /\ st[m].object = Manager(Bundles[b].pm)
                      /\ j = m \/ \E a \in 1 .. Len(Bundles[b].apps) :
                                     st[j].object = Application(Bundles[b].apps[a])
  BY DEF InOrder, st
<1>2. CASE j <= Len(s)
  <2>1. j \in 1 .. Len(s)
    BY <1>1, <1>2
  <2>2. PICK m \in 1 .. j, b \in 1 .. Len(Bundles) :
          /\ s[m].object = Manager(Bundles[b].pm)
          /\ j = m \/ \E a \in 1 .. Len(Bundles[b].apps) :
                         s[j].object = Application(Bundles[b].apps[a])
    BY <1>1, <2>1 DEF InOrder
  <2>3. st[m] = s[m] /\ st[j] = s[j]
    BY <1>1, <2>1
  <2> QED BY <2>2, <2>3
<1>3. CASE j > Len(s)
  <2>1. PICK k \in 1 .. Len(t) : j = Len(s) + k
    <3>1. j - Len(s) \in 1 .. Len(t) /\ j = Len(s) + (j - Len(s))
      BY <1>1, <1>3
    <3> QED BY <3>1
  <2>2. PICK m \in 1 .. k, b \in 1 .. Len(Bundles) :
          /\ t[m].object = Manager(Bundles[b].pm)
          /\ k = m \/ \E a \in 1 .. Len(Bundles[b].apps) :
                         t[k].object = Application(Bundles[b].apps[a])
    BY <1>1 DEF InOrder
  <2>3. m \in 1 .. Len(t) /\ Len(s) + m \in 1 .. j /\ (k = m => j = Len(s) + m)
    <3>1. Len(s) \in Nat /\ Len(t) \in Nat
      BY <1>1
    <3> QED BY <2>1, <3>1
  <2>4. st[Len(s) + m] = t[m] /\ st[j] = t[k]
    BY <1>1, <2>1, <2>3
  <2> QED BY <2>2, <2>3, <2>4
<1> QED BY <1>1, <1>2, <1>3

LEMMA BundleTyped ==
  ASSUME NEW b \in 1 .. Len(Bundles)
  PROVE  /\ Bundles[b].pm \in STRING /\ Bundles[b].home \in BOOLEAN
         /\ Bundles[b].apps \in Seq(STRING) /\ Bundles[b].providers \in Seq(STRING)
<1> DEFINE Bundle == [pm : STRING, apps : Seq(STRING), providers : Seq(STRING), home : BOOLEAN]
<1>1. Bundles[b] \in Bundle
  <2>1. Bundles \in Seq(Bundle)
    BY InstallAssumption
  <2> HIDE DEF Bundle
  <2> QED BY <2>1
<1> QED BY <1>1

LEMMA BundleListed ==
  ASSUME NEW b \in 1 .. Len(Bundles)
  PROVE  BundleEntries(Bundles[b]) \in Lists
<1> DEFINE pm == Bundles[b].pm
<1> DEFINE apps == Bundles[b].apps
<1> DEFINE home == Bundles[b].home
<1> DEFINE first == <<Bundled(Manager(pm), home)>>
<1> DEFINE rest == [i \in 1 .. Len(apps) |-> Bundled(Application(apps[i]), TRUE)]
<1>1. pm \in STRING /\ apps \in Seq(STRING) /\ home \in BOOLEAN
  BY BundleTyped
<1>2. BundleEntries(Bundles[b]) = first \o rest
  BY DEF BundleEntries
<1> HIDE DEF pm, apps, home
<1>3. /\ Bundled(Manager(pm), home) \in BundleEntry
      /\ Bundled(Manager(pm), home).object = Manager(pm)
  BY <1>1 DEF Bundled, BundleEntry, Manager
<1>4. ASSUME NEW i \in 1 .. Len(apps)
      PROVE  /\ Bundled(Application(apps[i]), TRUE) \in BundleEntry
             /\ Bundled(Application(apps[i]), TRUE).object = Application(apps[i])
  <2>1. apps[i] \in STRING
    BY <1>1
  <2> QED BY <2>1 DEF Bundled, BundleEntry, Application
<1>5. first \in Seq(BundleEntry) /\ Len(first) = 1 /\ first[1].object = Manager(pm)
  BY <1>3
<1>6. /\ rest \in Seq(BundleEntry) /\ Len(rest) = Len(apps) /\ Len(apps) \in Nat
      /\ \A i \in 1 .. Len(apps) : rest[i].object = Application(apps[i])
  <2>1. Len(apps) \in Nat
    BY <1>1
  <2>2. \A i \in 1 .. Len(apps) : rest[i] \in BundleEntry /\ rest[i].object = Application(apps[i])
    BY <1>4
  <2>3. rest \in [1 .. Len(apps) -> BundleEntry]
    BY <1>4
  <2> HIDE DEF rest
  <2>4. rest \in Seq(BundleEntry) /\ Len(rest) = Len(apps)
    BY <2>1, <2>3
  <2> QED BY <2>1, <2>2, <2>4
<1> HIDE DEF first, rest
<1>7. /\ first \o rest \in Seq(BundleEntry) /\ Len(first \o rest) = Len(apps) + 1
      /\ (first \o rest)[1].object = Manager(pm)
      /\ \A j \in 2 .. Len(apps) + 1 : (first \o rest)[j].object = Application(apps[j - 1])
  <2>1. /\ first \o rest \in Seq(BundleEntry) /\ Len(first \o rest) = 1 + Len(apps)
        /\ (first \o rest)[1] = first[1]
        /\ \A i \in 1 .. Len(apps) : (first \o rest)[1 + i] = rest[i]
    <3>1. /\ first \o rest \in Seq(BundleEntry) /\ Len(first \o rest) = Len(first) + Len(rest)
          /\ \A i \in 1 .. Len(first) : (first \o rest)[i] = first[i]
          /\ \A i \in 1 .. Len(rest) : (first \o rest)[Len(first) + i] = rest[i]
      <4>1. PICK s \in Seq(BundleEntry), t \in Seq(BundleEntry) : s = first /\ t = rest
        BY <1>5, <1>6
      <4>2. /\ s \o t \in Seq(BundleEntry) /\ Len(s \o t) = Len(s) + Len(t)
            /\ \A i \in 1 .. Len(s) : (s \o t)[i] = s[i]
            /\ \A i \in 1 .. Len(t) : (s \o t)[Len(s) + i] = t[i]
        BY Joined
      <4> QED BY <4>1, <4>2
    <3> QED BY <1>5, <1>6, <3>1
  <2>2. ASSUME NEW j \in 2 .. Len(apps) + 1
        PROVE  (first \o rest)[j].object = Application(apps[j - 1])
    <3>1. j - 1 \in 1 .. Len(apps) /\ j = 1 + (j - 1)
      BY <1>6
    <3>2. (first \o rest)[j] = rest[j - 1]
      BY <2>1, <3>1
    <3> QED BY <1>6, <3>1, <3>2
  <2> QED BY <1>5, <1>6, <2>1, <2>2
<1>8. ASSUME NEW j \in 1 .. Len(first \o rest)
      PROVE  \E m \in 1 .. j, c \in 1 .. Len(Bundles) :
               /\ (first \o rest)[m].object = Manager(Bundles[c].pm)
               /\ j = m \/ \E a \in 1 .. Len(Bundles[c].apps) :
                              (first \o rest)[j].object = Application(Bundles[c].apps[a])
  <2>1. 1 \in 1 .. j /\ (j # 1 => j \in 2 .. Len(apps) + 1 /\ j - 1 \in 1 .. Len(apps))
    BY <1>6, <1>7
  <2> QED BY <1>7, <2>1 DEF pm, apps
<1>9. InOrder(first \o rest)
  BY <1>8 DEF InOrder
<1> QED BY <1>2, <1>7, <1>9 DEF Lists

LEMMA RoundsCounted ==
  ASSUME NEW b \in 1 .. Len(Bundles)
  PROVE  Rounds(Bundles[b]) \in Nat
<1> DEFINE ps == Bundles[b].providers
<1>1. ps \in Seq(STRING) /\ Len(ps) \in Nat
  BY BundleTyped
<1> HIDE DEF ps
<1>2. IsFiniteSet(1 .. Len(ps))
  BY <1>1, FS_Interval
<1>3. IsFiniteSet({i \in 1 .. Len(ps) : ps[i] = Provider})
  BY <1>2, FS_Subset
<1>4. Cardinality({i \in 1 .. Len(ps) : ps[i] = Provider}) \in Nat
  BY <1>3, FS_CardinalityType
<1> QED BY <1>4 DEF Rounds, ps

\* The bundles ask for a list of entries in their order.
LEMMA BundlesListed == AllBundles \in Lists
<1>1. << >> \in Lists
  BY DEF Lists, InOrder
<1>2. ASSUME NEW b \in 1 .. Len(Bundles) PROVE AllOf(Bundles[b]) \in Lists
  <2>1. [r \in 1 .. Rounds(Bundles[b]) |-> BundleEntries(Bundles[b])] \in Seq(Lists)
    BY BundleListed, RoundsCounted
  <2> QED BY <1>1, <2>1, ListsJoin, FlattenIn DEF AllOf
<1>3. Len(Bundles) \in Nat
  BY InstallAssumption
<1>4. [n \in 1 .. Len(Bundles) |-> AllOf(Bundles[n])] \in Seq(Lists)
  BY <1>2, <1>3
<1> QED BY <1>1, <1>4, ListsJoin, FlattenIn DEF AllBundles

LEMMA FourLong ==
  ASSUME NEW a, NEW b, NEW c, NEW d
  PROVE  LET s == <<a, b, c, d>>
         IN s \in Seq({s[1], s[2], s[3], s[4]}) /\ Len(s) = 4
OBVIOUS

\* The plan: the bundled entries, and the extras, which are at home.
LEMMA PlanMade ==
  /\ Len(AllBundles) \in Nat /\ Len(Plan) = Len(AllBundles) + 4
  /\ FirstExtra = Len(AllBundles) + 1
  /\ \A i \in 1 .. Len(AllBundles) :
       Plan[i] = AllBundles[i] /\ Plan[i] \in BundleEntry /\ Plan[i].bundled /\ Plan[i].looks
  /\ \A k \in 1 .. 4 :
       LET i == Len(AllBundles) + k
       IN Plan[i] = Extras[k] /\ ~Plan[i].bundled /\ Plan[i].home
<1>1. AllBundles \in Seq(BundleEntry) /\ Len(AllBundles) \in Nat
  BY BundlesListed DEF Lists
<1>2. Len(Extras) = 4 /\ \A k \in 1 .. 4 : ~Extras[k].bundled /\ Extras[k].home
  BY DEF Extras, Own
<1>3. /\ Len(Plan) = Len(AllBundles) + 4
      /\ \A i \in 1 .. Len(AllBundles) : Plan[i] = AllBundles[i]
      /\ \A k \in 1 .. 4 : Plan[Len(AllBundles) + k] = Extras[k]
  <2> DEFINE S == BundleEntry \cup {Extras[1], Extras[2], Extras[3], Extras[4]}
  <2>1. AllBundles \in Seq(S)
    BY <1>1
  <2>2. Extras \in Seq(S)
    <3>1. Extras \in Seq({Extras[1], Extras[2], Extras[3], Extras[4]})
      BY FourLong DEF Extras
    <3> HIDE DEF Extras
    <3> QED BY <3>1
  <2> HIDE DEF S
  <2>3. /\ Len(AllBundles \o Extras) = Len(AllBundles) + Len(Extras)
        /\ \A i \in 1 .. Len(AllBundles) : (AllBundles \o Extras)[i] = AllBundles[i]
        /\ \A i \in 1 .. Len(Extras) : (AllBundles \o Extras)[Len(AllBundles) + i] = Extras[i]
    BY <2>1, <2>2, Joined
  <2> QED BY <1>2, <2>3 DEF Plan
<1>4. \A i \in 1 .. Len(AllBundles) : AllBundles[i] \in BundleEntry
  BY <1>1
<1>5. \A e \in BundleEntry : e.bundled /\ e.looks
  BY DEF BundleEntry
<1> QED BY <1>1, <1>2, <1>3, <1>4, <1>5 DEF FirstExtra

\* An entry behind the bundles is one of the four extras.
LEMMA ExtraAt ==
  ASSUME NEW i \in 1 .. Len(Plan), i > Len(AllBundles)
  PROVE  \E k \in 1 .. 4 : /\ i = Len(AllBundles) + k
                           /\ Plan[i] = Extras[k] /\ ~Plan[i].bundled /\ Plan[i].home
<1> DEFINE k == i - Len(AllBundles)
<1>1. Len(AllBundles) \in Nat /\ Len(Plan) = Len(AllBundles) + 4
  BY PlanMade
<1>2. k \in 1 .. 4 /\ i = Len(AllBundles) + k
  BY <1>1
<1> HIDE DEF k
<1>3. /\ Plan[Len(AllBundles) + k] = Extras[k]
      /\ ~Plan[Len(AllBundles) + k].bundled /\ Plan[Len(AllBundles) + k].home
  BY <1>2, PlanMade
<1> QED BY <1>2, <1>3

-----------------------------------------------------------------------------
(* Types *)

WaiterOK(x) ==
  /\ x \in Waiter /\ x.fresh <= version
  /\ x.pc \in {"look", "create"} => x.next <= Len(Plan)

LEMMA TypedWaiters ==
  ASSUME TypeOK
  PROVE  /\ Shapes /\ version \in Nat \ {0} /\ waiter \in [Slots -> Waiter]
         /\ \A s \in Slots : WaiterOK(waiter[s])
         /\ ConfigAnswers \subseteq Places \cup {"fail"}
BY InstallAssumption DEF TypeOK, WaiterOK, Shapes, Waiter, Fields

\* A waiter that is only at another step.
LEMMA MovedOn ==
  ASSUME NEW x \in Waiter, NEW p \in Steps
  PROVE  LET y == [x EXCEPT !.pc = p]
         IN y \in Waiter /\ y.pc = p /\ y.fresh = x.fresh /\ y.next = x.next
BY DEF Waiter

\* A waiter that is done, or polls again.
Begun == {Idle, [Idle EXCEPT !.pc = "read"]}

LEMMA BegunTyped ==
  ASSUME NEW x \in Begun
  PROVE  x \in Waiter /\ x.fresh = 1 /\ x.pc \in {"idle", "read"}
<1>1. 1 \in 1 .. Len(Plan) + 1
  BY PlanMade
<1>2. Idle \in Waiter /\ Idle.fresh = 1 /\ Idle.pc = "idle"
  BY <1>1 DEF Idle, Waiter, Steps, Places, Tokens
<1>3. PICK y \in Waiter : y = Idle
  BY <1>2
<1>4. [y EXCEPT !.pc = "read"] \in Waiter /\ [y EXCEPT !.pc = "read"].pc = "read"
      /\ [y EXCEPT !.pc = "read"].fresh = y.fresh
  BY MovedOn DEF Steps
<1> QED BY <1>2, <1>3, <1>4 DEF Begun

\* A waiter that goes on with the entry at i, or with the token, is one.
LEMMA ContinueTyped ==
  ASSUME waiter \in [Slots -> Waiter], NEW s \in Slots, NEW i \in 1 .. Len(Plan) + 1,
         Continue(s, i), waiter[s].fresh <= version, version' = version
  PROVE  WaiterOK(waiter[s])'
<1>1. /\ waiter'[s] \in Waiter /\ waiter'[s].next = i /\ waiter'[s].fresh = waiter[s].fresh
      /\ waiter'[s].pc = IF i > Len(Plan) THEN "account" ELSE "look"
  BY DEF Continue, Waiter, Steps
<1>2. Len(Plan) \in Nat
  BY PlanMade
<1> QED BY <1>1, <1>2 DEF WaiterOK

LEMMA TypedTurn ==
  ASSUME TypeOK, NEW s \in Slots, Handle(s)
  PROVE  AllIdle \/ WaiterOK(waiter[s])'
<1> DEFINE x == waiter[s]
<1>1. /\ version \in Nat \ {0} /\ waiter \in [Slots -> Waiter] /\ x \in Waiter
      /\ WaiterOK(x) /\ ConfigAnswers \subseteq Places \cup {"fail"}
  BY TypedWaiters
<1>2. x.next \in 1 .. Len(Plan) + 1 /\ x.fresh \in Nat \ {0} /\ Len(Plan) \in Nat
  BY <1>1, PlanMade DEF Waiter
<1>3. ASSUME Again(s), version' = version PROVE WaiterOK(waiter[s])'
  <2>1. waiter'[s] \in Begun
    BY <1>1, <1>3 DEF Again, Begun
  <2> QED BY <1>1, <1>3, <2>1, BegunTyped DEF WaiterOK
<1>4. ASSUME NEW p \in Steps, Goto(s, p), p \in {"look", "create"} => x.next <= Len(Plan),
             version' = version
      PROVE  WaiterOK(waiter[s])'
  <2>1. waiter'[s] = [x EXCEPT !.pc = p]
    BY <1>1, <1>4 DEF Goto
  <2>2. waiter'[s].pc = p /\ waiter'[s].next = x.next /\ waiter'[s].fresh = x.fresh
    BY <1>1, <2>1 DEF Waiter
  <2> QED BY <1>1, <1>4, <2>1, <2>2, MovedOn DEF WaiterOK
<1>5. ASSUME NEW i \in 1 .. Len(Plan) + 1, Continue(s, i), version' = version
      PROVE  WaiterOK(waiter[s])'
  BY <1>1, <1>5, ContinueTyped DEF WaiterOK
<1>6. CASE Start(s)
  BY <1>4, <1>6 DEF Start, resource, Steps
<1>7. CASE ReadFresh(s)
  <2>1. CASE Again(s)
    BY <1>3, <1>7, <2>1 DEF ReadFresh, resource
  <2>2. CASE waiter' = [waiter EXCEPT ![s].fresh = version,
                                      ![s].pc = IF url THEN "list" ELSE "saveReady"]
    <3>1. /\ waiter'[s] \in Waiter /\ waiter'[s].fresh = version
          /\ waiter'[s].pc \in {"list", "saveReady"}
      BY <1>1, <2>2 DEF Waiter, Steps
    <3> QED BY <1>1, <1>7, <3>1 DEF ReadFresh, resource, WaiterOK
  <2> QED BY <1>7, <2>1, <2>2 DEF ReadFresh
<1>8. CASE ListBundles(s)
  <2>1. 1 \in 1 .. Len(Plan) + 1 /\ FirstExtra \in 1 .. Len(Plan) + 1
    BY PlanMade
  <2> QED BY <1>5, <1>8, <2>1 DEF ListBundles, resource
<1>9. CASE Look(s) \/ CreateEntry(s)
  <2>1. x.next <= Len(Plan) /\ x.next + 1 \in 1 .. Len(Plan) + 1
    BY <1>1, <1>2, <1>9 DEF Look, CreateEntry, WaiterOK
  <2>2. AfterError(x.next) \in 1 .. Len(Plan) + 1
    BY <2>1, PlanMade DEF AfterError
  <2>3. Continue(s, x.next + 1) \/ Continue(s, AfterError(x.next)) \/ Goto(s, "create")
    BY <1>9 DEF Look, CreateEntry
  <2> QED BY <1>4, <1>5, <1>9, <2>1, <2>2, <2>3 DEF Look, CreateEntry, resource, Steps
<1>10. CASE CreateAccount(s)
  <2>1. CASE Goto(s, "tell")
    BY <1>4, <1>10, <2>1 DEF CreateAccount, resource, Steps
  <2>2. ASSUME NEW p \in Places, waiter' = [waiter EXCEPT ![s].pc = "bind", ![s].at = p]
        PROVE  WaiterOK(waiter[s])'
    <3>1. waiter'[s] \in Waiter /\ waiter'[s].fresh = x.fresh /\ waiter'[s].pc = "bind"
      BY <1>1, <2>2 DEF Waiter, Steps
    <3> QED BY <1>1, <1>10, <3>1 DEF CreateAccount, resource, WaiterOK
  <2> QED BY <1>1, <1>10, <2>1, <2>2 DEF CreateAccount
<1>11. CASE BindAccount(s)
  BY <1>4, <1>11 DEF BindAccount, resource, Steps
<1>12. CASE NameToken(s)
  <2>1. ASSUME NEW b \in BOOLEAN, waiter' = [waiter EXCEPT ![s].named = b, ![s].pc = "secret"]
        PROVE  WaiterOK(waiter[s])'
    <3>1. waiter'[s] \in Waiter /\ waiter'[s].fresh = x.fresh /\ waiter'[s].pc = "secret"
      BY <1>1, <2>1 DEF Waiter, Steps
    <3> QED BY <1>1, <1>12, <3>1 DEF NameToken, WaiterOK
  <2> QED BY <1>12, <2>1 DEF NameToken, Starts, AllIdle
<1>13. CASE ReadToken(s)
  <2>1. ASSUME NEW t \in Tokens, waiter' = [waiter EXCEPT ![s].pc = "keep", ![s].token = t]
        PROVE  WaiterOK(waiter[s])'
    <3>1. waiter'[s] \in Waiter /\ waiter'[s].fresh = x.fresh /\ waiter'[s].pc = "keep"
      BY <1>1, <2>1 DEF Waiter, Steps
    <3> QED BY <1>1, <1>13, <3>1 DEF ReadToken, resource, WaiterOK
  <2>2. x.at \in Tokens /\ "empty" \in Tokens
    BY <1>1 DEF Waiter, Tokens
  <2> QED BY <1>13, <2>1, <2>2 DEF ReadToken
<1>14. CASE KeepToken(s)
  BY <1>4, <1>14 DEF KeepToken, resource, Steps
<1>15. CASE TellCompleted(s)
  BY <1>4, <1>15 DEF TellCompleted, resource, Steps
<1>16. CASE SaveReady(s)
  <2>1. waiter'[s] \in Begun
    BY <1>1, <1>16 DEF SaveReady, Again, Begun
  <2>2. version' \in Nat \ {0}
    BY <1>1, <1>16 DEF SaveReady
  <2>3. waiter'[s] \in Waiter /\ waiter'[s].fresh = 1 /\ waiter'[s].pc \in {"idle", "read"}
    BY <2>1, BegunTyped
  <2> QED BY <2>2, <2>3 DEF WaiterOK
<1> QED BY <1>6, <1>7, <1>8, <1>9, <1>10, <1>11, <1>12, <1>13, <1>14, <1>15, <1>16 DEF Handle

\* Who writes what.
LEMMA Writers ==
  ASSUME [Next]_vars
  PROVE  /\ url' = url
         /\ UNCHANGED <<phase, version>> \/ Touch \/ \E s \in Slots : SaveReady(s)
         /\ UNCHANGED touches \/ Touch
         /\ seen' \in {seen, phase}
         /\ UNCHANGED present \/ \E s \in Slots : CreateEntry(s)
         /\ UNCHANGED bound \/ \E s \in Slots : BindAccount(s)
         /\ UNCHANGED saved \/ \E s \in Slots : KeepToken(s)
         /\ UNCHANGED told \/ \E s \in Slots : TellCompleted(s)
BY DEF Next, Handle, vars, resource, Touch, Deliver, Restart, GiveToken, Start, ReadFresh,
   ListBundles, Look, CreateEntry, CreateAccount, BindAccount, NameToken, Starts, ReadToken,
   KeepToken, TellCompleted, SaveReady

\* Who moves: one waiter at most, unless all go down.
LEMMA Movers ==
  ASSUME TypeOK, [Next]_vars
  PROVE  \/ UNCHANGED waiter
         \/ AllIdle
         \/ \E s \in Slots : Handle(s) /\ Turn(s)
BY TypedWaiters, Turns DEF Next, vars, resource, Touch, Deliver, Restart, GiveToken, Starts, AllIdle

LEMMA TypeKept ==
  ASSUME TypeOK, [Next]_vars
  PROVE  TypeOK'
<1>1. Shapes'
  BY TypedWaiters, ShapesKept
<1>2. phase' \in {"Waiting", "Ready"} /\ version' \in Nat \ {0} /\ version' >= version
  <2>1. \A s \in Slots : SaveReady(s) => /\ phase' \in {phase, "Ready"}
                                         /\ version' \in {version, version + 1}
    BY DEF SaveReady
  <2> QED BY <2>1, Writers DEF TypeOK, Touch
<1>3. url' \in BOOLEAN /\ seen' \in {"Waiting", "Ready"} /\ touches' \in 0 .. MaxTouches
  BY Writers, InstallAssumption DEF TypeOK, Touch
<1>4. present' \subseteq {Plan[i].object : i \in 1 .. Len(Plan)}
  <2>1. ASSUME NEW s \in Slots, CreateEntry(s)
        PROVE  present' \subseteq present \cup {Plan[waiter[s].next].object}
    BY <2>1 DEF CreateEntry
  <2>2. ASSUME NEW s \in Slots, CreateEntry(s) PROVE waiter[s].next \in 1 .. Len(Plan)
    <3>1. waiter[s] \in Waiter /\ WaiterOK(waiter[s]) /\ waiter[s].pc \in {"look", "create"}
      BY <2>2, TypedWaiters DEF CreateEntry
    <3> QED BY <3>1, PlanMade DEF WaiterOK, Waiter
  <2> QED BY <2>1, <2>2, Writers DEF TypeOK
<1>5. bound' \subseteq Places
  BY Writers DEF TypeOK, BindAccount, Waiter
<1>6. saved' \in Tokens \cup {"none"} /\ told' \subseteq Tokens
  BY Writers DEF TypeOK, KeepToken, TellCompleted, Waiter
<1>7. waiter' \in [Slots -> Waiter] /\ \A s \in Slots : WaiterOK(waiter[s])'
  <2>1. CASE UNCHANGED waiter
    <3>1. \A s \in Slots : waiter[s].fresh \in Nat /\ version \in Nat
      BY TypedWaiters DEF Waiter
    <3> QED BY <1>2, <2>1, <3>1, TypedWaiters DEF WaiterOK
  <2>2. CASE AllIdle
    <3>1. Idle \in Waiter /\ Idle.fresh = 1 /\ Idle.pc \in {"idle", "read"}
      BY BegunTyped DEF Begun
    <3> QED BY <1>2, <2>2, <3>1 DEF AllIdle, WaiterOK
  <2>3. ASSUME NEW s \in Slots, Handle(s), Turn(s), ~AllIdle
        PROVE  waiter' \in [Slots -> Waiter] /\ \A t \in Slots : WaiterOK(waiter[t])'
    <3>1. WaiterOK(waiter[s])'
      BY <2>3, TypedTurn
    <3>2. ASSUME NEW t \in Slots PROVE WaiterOK(waiter[t])'
      <4>1. CASE t # s
        <5>1. waiter'[t] = waiter[t] /\ WaiterOK(waiter[t]) /\ waiter[t] \in Waiter
          BY <2>3, <4>1, TypedWaiters DEF Turn
        <5>2. waiter[t].fresh \in Nat /\ version \in Nat
          BY <5>1, TypedWaiters DEF Waiter
        <5> QED BY <1>2, <5>1, <5>2 DEF WaiterOK
      <4> QED BY <3>1, <4>1
    <3>3. DOMAIN waiter' = Slots /\ waiter' = [t \in Slots |-> waiter'[t]]
      <4>1. waiter \in [Slots -> Waiter]
        BY TypedWaiters
      <4> QED BY <2>3, <4>1
            DEF Handle, AllIdle, Start, ReadFresh, ListBundles, Look, CreateEntry, CreateAccount,
                BindAccount, NameToken, Starts, ReadToken, KeepToken, TellCompleted, SaveReady,
                Goto, Continue, Again
    <3> QED BY <3>2, <3>3 DEF WaiterOK
  <2> QED BY <2>1, <2>2, <2>3, Movers
<1> QED BY <1>1, <1>2, <1>3, <1>4, <1>5, <1>6, <1>7 DEF TypeOK, Shapes, WaiterOK

\* Every variable keeps its type, every waiter that looks for an entry or creates
\* one is at an entry of the plan, and nothing else is ever created.
THEOREM TypeCorrect == Spec => []TypeOK
<1>1. Init => TypeOK
  <2>1. Idle \in Waiter /\ Idle.fresh = 1 /\ Idle.pc = "idle"
    BY BegunTyped DEF Begun, Idle
  <2> QED BY <2>1, InstallAssumption DEF Init, TypeOK, Troubles, None, Tokens
<1>2. TypeOK /\ [Next]_vars => TypeOK'
  BY TypeKept
<1> QED BY <1>1, <1>2, PTL DEF Spec

-----------------------------------------------------------------------------
(* The walk along the list *)

AtList == {"look", "create"}

\* What a waiter does at an entry.
LEMMA EntryMoves ==
  ASSUME TypeOK, NEW s \in Slots, Look(s) \/ CreateEntry(s)
  PROVE  LET i == waiter[s].next
         IN /\ i \in 1 .. Len(Plan) /\ waiter[s].pc \in AtList
            /\ \/ waiter[s].pc = "look" /\ Goto(s, "create") /\ UNCHANGED present
               \/ Continue(s, i + 1) /\ Plan[i].object \in present'
               \/ /\ Continue(s, AfterError(i)) /\ UNCHANGED present
                  /\ trouble'.calls = 0 /\ Plan[i].home => Plan[i].object \in present
<1> DEFINE i == waiter[s].next
<1>1. waiter[s].pc \in AtList /\ i \in 1 .. Len(Plan)
  <2>1. waiter[s] \in Waiter /\ WaiterOK(waiter[s]) /\ waiter[s].pc \in AtList
    BY TypedWaiters DEF Look, CreateEntry, AtList
  <2> QED BY <2>1, PlanMade DEF WaiterOK, Waiter, AtList
<1>2. Fails => trouble'.calls # 0
  BY DEF Fails, TypeOK, Troubles
<1>3. CASE Look(s)
  BY <1>1, <1>3 DEF Look
<1>4. CASE CreateEntry(s)
  <2>1. \/ Continue(s, i + 1) /\ Plan[i].object \in present'
        \/ /\ Continue(s, AfterError(i)) /\ UNCHANGED present
           /\ Fails \/ ~(Plan[i].home /\ Plan[i].object \notin present)
    BY <1>4 DEF CreateEntry
  <2> QED BY <1>1, <1>2, <2>1
<1> QED BY <1>3, <1>4

\* Where a waiter is after it goes on.
LEMMA Continued ==
  ASSUME TypeOK, NEW s \in Slots, NEW i, Continue(s, i)
  PROVE  waiter'[s].next = i /\ waiter'[s].pc = IF i > Len(Plan) THEN "account" ELSE "look"
BY TypedWaiters DEF Continue, Waiter

\* What is created stays.
LEMMA PresentGrows ==
  ASSUME [Next]_vars
  PROVE  present \subseteq present'
BY Writers DEF CreateEntry

\* No other step comes to an entry.
LEMMA ElsewhereMoves ==
  ASSUME TypeOK, NEW s \in Slots, Handle(s), ~ListBundles(s), ~Look(s), ~CreateEntry(s)
  PROVE  AllIdle \/ waiter'[s].pc \notin AtList
<1>1. waiter \in [Slots -> Waiter] /\ DOMAIN waiter[s] = Fields
  BY TypedWaiters DEF Shapes
<1> USE DEF AtList, Fields
<1>2. CASE Start(s) \/ ReadFresh(s)
  BY <1>1, <1>2 DEF Start, Goto, ReadFresh, Again, Idle
<1>3. CASE CreateAccount(s) \/ BindAccount(s)
  BY <1>1, <1>3 DEF CreateAccount, BindAccount, Goto
<1>4. CASE NameToken(s)
  BY <1>1, <1>4 DEF NameToken, Starts, AllIdle
<1>5. CASE ReadToken(s) \/ KeepToken(s) \/ TellCompleted(s)
  BY <1>1, <1>5 DEF ReadToken, KeepToken, TellCompleted, Goto
<1>6. CASE SaveReady(s)
  BY <1>1, <1>6 DEF SaveReady, Again, Idle
<1> QED BY <1>2, <1>3, <1>4, <1>5, <1>6 DEF Handle

\* A waiter among the bundled entries has seen or created all before.
Walked(x) ==
  x.pc \in AtList /\ x.next <= Len(AllBundles) =>
    \A j \in 1 .. x.next - 1 : Plan[j].object \in present

AllWalked == \A s \in Slots : Walked(waiter[s])

LEMMA WalkedKept ==
  ASSUME TypeOK, AllWalked, [Next]_vars
  PROVE  AllWalked'
<1> SUFFICES ASSUME NEW s \in Slots PROVE Walked(waiter[s])'
  BY DEF AllWalked
<1> DEFINE i == waiter[s].next
<1>1. Walked(waiter[s]) /\ i \in Nat /\ Len(AllBundles) \in Nat
  <2>1. waiter[s] \in Waiter
    BY TypedWaiters
  <2> QED BY <2>1, PlanMade DEF AllWalked, Waiter
<1>2. CASE waiter'[s] = waiter[s]
  BY <1>1, <1>2, PresentGrows DEF Walked
<1>3. CASE AllIdle
  BY <1>3 DEF AllIdle, Idle, Walked, AtList
<1>4. CASE ListBundles(s)
  <2>1. waiter'[s].next \in {1, FirstExtra}
    BY <1>4, Continued DEF ListBundles
  <2> QED BY <2>1, PlanMade DEF Walked
<1>5. CASE Look(s) \/ CreateEntry(s)
  <2>1. i \in 1 .. Len(Plan) /\ waiter[s].pc \in AtList
    BY <1>5, EntryMoves
  <2>2. CASE Goto(s, "create") /\ UNCHANGED present
    <3>1. waiter'[s].next = i
      BY <2>2, TypedWaiters DEF Goto, Waiter
    <3> QED BY <1>1, <2>1, <2>2, <3>1 DEF Walked
  <2>3. CASE Continue(s, i + 1) /\ Plan[i].object \in present'
    <3> SUFFICES ASSUME i + 1 <= Len(AllBundles), NEW j \in 1 .. i PROVE Plan[j].object \in present'
      <4>1. waiter'[s].next = i + 1 /\ (i + 1) - 1 = i
        BY <1>1, <2>3, Continued
      <4> QED BY <4>1 DEF Walked
    <3>1. j = i \/ j \in 1 .. i - 1
      BY <2>1
    <3>2. j \in 1 .. i - 1 => Plan[j].object \in present
      BY <1>1, <2>1 DEF Walked
    <3> QED BY <2>3, <3>1, <3>2, PresentGrows
  <2>4. CASE Continue(s, AfterError(i))
    <3>1. AfterError(i) > Len(AllBundles)
      <4>1. i <= Len(AllBundles) => Plan[i].bundled
        BY <2>1, PlanMade
      <4> QED BY <1>1, <2>1, <4>1, PlanMade DEF AfterError
    <3>2. waiter'[s].next = AfterError(i)
      BY <2>4, Continued
    <3>3. ~(waiter'[s].next <= Len(AllBundles))
      <4>1. AfterError(i) \in Nat
        BY <2>1, PlanMade DEF AfterError
      <4> QED BY <1>1, <3>1, <3>2, <4>1
    <3> QED BY <3>3 DEF Walked
  <2> QED BY <1>5, <2>2, <2>3, <2>4, EntryMoves
<1>6. ASSUME NEW t \in Slots, Handle(t), Turn(t), t # s PROVE waiter'[s] = waiter[s]
  BY <1>6 DEF Turn
<1>7. CASE Handle(s) /\ ~ListBundles(s) /\ ~Look(s) /\ ~CreateEntry(s)
  BY <1>3, <1>7, ElsewhereMoves DEF Walked
<1> QED BY <1>2, <1>3, <1>4, <1>5, <1>6, <1>7, Movers

\* No bundle has an application of the name of the logging one.
ApplicationsOwn ==
  \A b \in 1 .. Len(Bundles) : \A a \in 1 .. Len(Bundles[b].apps) :
    Bundles[b].apps[a] # "logging-client-pm-logger"

Managed(app) ==
  \E k \in 1 .. Len(Bundles) : /\ Manager(Bundles[k].pm) \in present
                              /\ \E l \in 1 .. Len(Bundles[k].apps) : Bundles[k].apps[l] = app

LEMMA ManagedKept ==
  ASSUME ApplicationsOwn, TypeOK, AllWalked, ApplicationsHaveManagers, [Next]_vars
  PROVE  ApplicationsHaveManagers'
<1> SUFFICES ASSUME NEW b \in 1 .. Len(Bundles), NEW a \in 1 .. Len(Bundles[b].apps),
                    Application(Bundles[b].apps[a]) \in present'
             PROVE  Managed(Bundles[b].apps[a])'
  BY DEF ApplicationsHaveManagers, Managed
<1>1. Managed(Bundles[b].apps[a]) => Managed(Bundles[b].apps[a])'
  BY PresentGrows DEF Managed
<1>2. CASE Application(Bundles[b].apps[a]) \in present
  BY <1>1, <1>2 DEF ApplicationsHaveManagers, Managed
<1>3. CASE Application(Bundles[b].apps[a]) \notin present
  <2>1. PICK s \in Slots : CreateEntry(s)
    BY <1>3, Writers
  <2> DEFINE i == waiter[s].next
  <2>2. i \in 1 .. Len(Plan) /\ waiter[s].pc \in AtList
    BY <2>1, EntryMoves
  <2>3. Plan[i].object = Application(Bundles[b].apps[a])
    BY <1>3, <2>1 DEF CreateEntry
  <2> HIDE DEF i
  <2>4. CASE i <= Len(AllBundles)
    <3>1. i \in 1 .. Len(AllBundles)
      BY <2>2, <2>4, PlanMade
    <3>2. PICK m \in 1 .. i, c \in 1 .. Len(Bundles) :
            /\ AllBundles[m].object = Manager(Bundles[c].pm)
            /\ i = m \/ \E l \in 1 .. Len(Bundles[c].apps) :
                           AllBundles[i].object = Application(Bundles[c].apps[l])
      BY <3>1, BundlesListed DEF Lists, InOrder
    <3>3. Plan[m] = AllBundles[m] /\ Plan[i] = AllBundles[i]
      BY <3>1, PlanMade
    <3>4. i # m
      BY <2>3, <3>2, <3>3 DEF Manager, Application
    <3>5. Manager(Bundles[c].pm) \in present
      <4>1. m \in 1 .. i - 1
        BY <3>1, <3>4, PlanMade
      <4> QED BY <2>2, <2>4, <3>2, <3>3, <4>1 DEF AllWalked, Walked, i
    <3>6. \E l \in 1 .. Len(Bundles[c].apps) : Bundles[c].apps[l] = Bundles[b].apps[a]
      <4>1. PICK l \in 1 .. Len(Bundles[c].apps) :
              AllBundles[i].object = Application(Bundles[c].apps[l])
        BY <3>2, <3>4
      <4>2. Application(Bundles[c].apps[l]) = Application(Bundles[b].apps[a])
        BY <2>3, <3>3, <4>1
      <4>3. Bundles[c].apps[l] = Bundles[b].apps[a]
        BY <4>2 DEF Application
      <4> QED BY <4>3
    <3> QED BY <3>5, <3>6, PresentGrows DEF Managed
  <2>5. CASE i > Len(AllBundles)
    <3>1. PICK k \in 1 .. 4 : Plan[i] = Extras[k]
      BY <2>2, <2>5, ExtraAt
    <3>2. Extras[k].object \in {Manager("pm-logger"), Application("logging-client-pm-logger"),
                                <<"Service", "k8s-api-service-for">>,
                                <<"Ingress", "k8s-api-ingress-for">>}
      BY DEF Extras, Own
    <3>3. Bundles[b].apps[a] = "logging-client-pm-logger"
      BY <2>3, <3>1, <3>2 DEF Manager, Application
    <3> QED BY <3>3 DEF ApplicationsOwn
  <2> QED BY <2>2, <2>4, <2>5, PlanMade
<1> QED BY <1>2, <1>3

\* Provided that no application of a bundle goes by the name of the logging one, an
\* application is there only where a package manager of a bundle with it is: a Get or
\* a Create that fails ends the bundles, it never skips an entry.
THEOREM ManagersFirst == ApplicationsOwn => (Spec => []ApplicationsHaveManagers)
<1> SUFFICES ASSUME ApplicationsOwn PROVE Spec => []ApplicationsHaveManagers
  OBVIOUS
<1>1. Init => AllWalked /\ ApplicationsHaveManagers
  BY DEF Init, AllWalked, Walked, AtList, Idle, ApplicationsHaveManagers
<1>2. TypeOK /\ AllWalked /\ ApplicationsHaveManagers /\ [Next]_vars =>
        (AllWalked /\ ApplicationsHaveManagers)'
  BY WalkedKept, ManagedKept
<1> QED BY <1>1, <1>2, TypeCorrect, PTL DEF Spec

-----------------------------------------------------------------------------
(* Logging, the service and the ingress *)

AfterList == {"account", "bind", "name", "secret", "keep", "tell"}

ExtrasThere == \A k \in 1 .. 4 : Extras[k].object \in present

\* How far a waiter has come with the extras when no call has failed.
Furnished(x) ==
  /\ x.pc \in AtList => \A j \in Len(AllBundles) + 1 .. x.next - 1 : Plan[j].object \in present
  /\ x.pc \in AfterList \/ (x.pc = "saveReady" /\ url) => ExtrasThere

AllFurnished ==
  trouble.calls = 0 =>
    /\ \A s \in Slots : Furnished(waiter[s])
    /\ told # {} \/ (url /\ phase = "Ready") => ExtrasThere

\* Who is past the list was past it before, or has come to its end.
LEMMA LaterMoves ==
  ASSUME TypeOK, NEW s \in Slots, Handle(s), ~ListBundles(s), ~Look(s), ~CreateEntry(s)
  PROVE  \/ AllIdle \/ waiter'[s].pc \in {"idle", "read", "list"}
         \/ waiter'[s].pc = "saveReady" /\ ~url
         \/ waiter[s].pc \in AfterList
<1>1. waiter \in [Slots -> Waiter] /\ DOMAIN waiter[s] = Fields
  BY TypedWaiters DEF Shapes
<1> USE DEF AfterList, Fields
<1>2. CASE Start(s) \/ ReadFresh(s)
  BY <1>1, <1>2 DEF Start, Goto, ReadFresh, Again, Idle
<1>3. CASE SaveReady(s)
  BY <1>1, <1>3 DEF SaveReady, Again, Idle
<1>4. CASE CreateAccount(s) \/ BindAccount(s) \/ NameToken(s) \/ ReadToken(s)
             \/ KeepToken(s) \/ TellCompleted(s)
  BY <1>4 DEF CreateAccount, BindAccount, NameToken, ReadToken, KeepToken, TellCompleted
<1> QED BY <1>2, <1>3, <1>4 DEF Handle

LEMMA ExtrasStay ==
  ASSUME ExtrasThere, [Next]_vars
  PROVE  ExtrasThere'
BY PresentGrows DEF ExtrasThere

\* A waiter that has been past entry i goes on with the next one.
LEMMA NextEntryFurnished ==
  ASSUME TypeOK, [Next]_vars, NEW s \in Slots, Furnished(waiter[s]), waiter[s].pc \in AtList,
         NEW i \in 1 .. Len(Plan), i = waiter[s].next, Continue(s, i + 1),
         i > Len(AllBundles) => Plan[i].object \in present'
  PROVE  Furnished(waiter[s])'
<1>1. waiter'[s].next = i + 1 /\ waiter'[s].pc = IF i + 1 > Len(Plan) THEN "account" ELSE "look"
  BY Continued
<1>2. \A j \in Len(AllBundles) + 1 .. i : Plan[j].object \in present'
  <2> SUFFICES ASSUME NEW j \in Len(AllBundles) + 1 .. i PROVE Plan[j].object \in present'
    OBVIOUS
  <2>1. (j = i /\ i > Len(AllBundles)) \/ j \in Len(AllBundles) + 1 .. i - 1
    BY PlanMade
  <2> QED BY <2>1, PresentGrows DEF Furnished
<1>3. i + 1 > Len(Plan) => ExtrasThere'
  <2> SUFFICES ASSUME i + 1 > Len(Plan), NEW k \in 1 .. 4 PROVE Extras[k].object \in present'
    BY DEF ExtrasThere
  <2>1. Len(AllBundles) + k \in Len(AllBundles) + 1 .. i
    BY PlanMade
  <2>2. Plan[Len(AllBundles) + k] = Extras[k]
    BY PlanMade
  <2> QED BY <1>2, <2>1, <2>2
<1> QED BY <1>1, <1>2, <1>3 DEF Furnished, AtList, AfterList

LEMMA FurnishedTurn ==
  ASSUME TypeOK, [Next]_vars, NEW s \in Slots, Handle(s), Furnished(waiter[s]),
         trouble'.calls = 0
  PROVE  Furnished(waiter[s])'
<1> DEFINE i == waiter[s].next
<1>1. CASE ListBundles(s)
  <2>1. waiter'[s].next \in {1, Len(AllBundles) + 1} /\ waiter'[s].pc = "look"
    BY <1>1, Continued, PlanMade DEF ListBundles
  <2> QED BY <2>1, PlanMade DEF Furnished, AfterList
<1>2. CASE Look(s) \/ CreateEntry(s)
  <2>1. i \in 1 .. Len(Plan) /\ waiter[s].pc \in AtList
    BY <1>2, EntryMoves
  <2>2. CASE Goto(s, "create") /\ UNCHANGED present
    <3>1. waiter'[s].next = i /\ waiter'[s].pc = "create"
      BY <2>2, TypedWaiters DEF Goto, Waiter
    <3> QED BY <2>1, <2>2, <3>1 DEF Furnished, AfterList
  <2>3. CASE Continue(s, i + 1) /\ Plan[i].object \in present'
    BY <2>1, <2>3, NextEntryFurnished
  <2>4. CASE /\ Continue(s, AfterError(i)) /\ UNCHANGED present
             /\ Plan[i].home => Plan[i].object \in present
    <3>1. CASE i <= Len(AllBundles)
      <4>1. AfterError(i) = Len(AllBundles) + 1
        BY <2>1, <3>1, PlanMade DEF AfterError
      <4>2. waiter'[s].next = Len(AllBundles) + 1 /\ waiter'[s].pc = "look"
        BY <2>4, <4>1, Continued, PlanMade
      <4> QED BY <4>2, PlanMade DEF Furnished, AfterList
    <3>2. CASE i > Len(AllBundles)
      <4>1. ~Plan[i].bundled /\ Plan[i].home
        BY <2>1, <3>2, ExtraAt
      <4>2. Continue(s, i + 1)
        BY <2>4, <4>1 DEF AfterError
      <4> QED BY <2>1, <2>4, <4>1, <4>2, NextEntryFurnished
    <3> QED BY <2>1, <3>1, <3>2, PlanMade
  <2> QED BY <1>2, <2>2, <2>3, <2>4, EntryMoves
<1>3. CASE AllIdle
  BY <1>3 DEF AllIdle, Idle, Furnished, AtList, AfterList
<1>4. CASE ~ListBundles(s) /\ ~Look(s) /\ ~CreateEntry(s) /\ ~AllIdle
  <2>1. waiter'[s].pc \notin AtList
    BY <1>4, ElsewhereMoves
  <2>2. CASE waiter[s].pc \in AfterList
    BY <2>1, <2>2, ExtrasStay DEF Furnished
  <2>3. CASE waiter'[s].pc \in {"idle", "read", "list"} \/ (waiter'[s].pc = "saveReady" /\ ~url)
    BY <2>1, <2>3, Writers DEF Furnished, AfterList
  <2> QED BY <1>4, <2>2, <2>3, LaterMoves
<1> QED BY <1>1, <1>2, <1>3, <1>4

LEMMA FurnishedKept ==
  ASSUME TypeOK, AllFurnished, [Next]_vars
  PROVE  AllFurnished'
<1> SUFFICES ASSUME trouble'.calls = 0
             PROVE  /\ \A s \in Slots : Furnished(waiter[s])'
                    /\ told' # {} \/ (url' /\ phase' = "Ready") => ExtrasThere'
  BY DEF AllFurnished
<1>1. /\ \A s \in Slots : Furnished(waiter[s])
      /\ told # {} \/ (url /\ phase = "Ready") => ExtrasThere
  BY TypedWaiters, Counted DEF AllFurnished
<1>2. ASSUME NEW s \in Slots PROVE Furnished(waiter[s])'
  <2>1. CASE waiter'[s] = waiter[s]
    <3>1. Furnished(waiter[s]) /\ url' = url
      BY <1>1, Writers
    <3> QED BY <2>1, <3>1, PresentGrows, ExtrasStay DEF Furnished
  <2>2. CASE AllIdle
    BY <2>2 DEF AllIdle, Idle, Furnished, AtList, AfterList
  <2>3. CASE Handle(s)
    BY <1>1, <2>3, FurnishedTurn
  <2> QED BY <2>1, <2>2, <2>3, Movers DEF Turn
<1>3. ASSUME told' # {} \/ (url' /\ phase' = "Ready") PROVE ExtrasThere'
  <2>1. ASSUME NEW s \in Slots, TellCompleted(s) PROVE ExtrasThere
    BY <1>1, <2>1 DEF TellCompleted, Furnished, AfterList
  <2>2. ASSUME NEW s \in Slots, SaveReady(s), url PROVE ExtrasThere
    BY <1>1, <2>2 DEF SaveReady, Furnished
  <2>3. Touch => phase' = "Waiting"
    BY DEF Touch
  <2> QED BY <1>1, <1>3, <2>1, <2>2, <2>3, Writers, ExtrasStay
<1> QED BY <1>2, <1>3

LEMMA Furnishes == Spec => []AllFurnished
<1>1. Init => AllFurnished
  BY DEF Init, AllFurnished, Furnished, AtList, AfterList, Idle
<1>2. TypeOK /\ AllFurnished /\ [Next]_vars => AllFurnished'
  BY FurnishedKept
<1> QED BY <1>1, <1>2, TypeCorrect, PTL DEF Spec

\* Unless a call fails, logging, the service and the ingress are there before any
\* Completed notice goes out, and a token that comes with it has its role: whatever
\* bundles give up, kubeconfigs miss, and panics and stops cut short.
THEOREM CompletedMeansUsable == Spec => []CompletedIsUsable
<1>1. AllFurnished /\ Shapes /\ BoundInv => CompletedIsUsable
  <2> SUFFICES ASSUME AllFurnished, BoundInv, trouble.calls = 0
               PROVE  /\ told # {} =>
                           {Extras[i].object : i \in 1 .. Len(Extras)} \subseteq present
                      /\ told \cap Places \subseteq bound
    BY DEF CompletedIsUsable
  <2>1. Len(Extras) = 4
    BY DEF Extras
  <2> QED BY <2>1 DEF AllFurnished, ExtrasThere, BoundInv, Places
<1> QED BY <1>1, Furnishes, Bounds, PTL

-----------------------------------------------------------------------------
(* The bundles, as long as nothing goes wrong *)

\* No bundle asks for the package manager of logging, or its application.
LoggingOwn ==
  ApplicationsOwn /\ \A b \in 1 .. Len(Bundles) : Bundles[b].pm # "pm-logger"

\* What goes wrong is counted for good, and a step at which nothing does is
\* answered.
LEMMA CalmBefore ==
  ASSUME TypeOK, [Next]_vars, trouble' = None
  PROVE  trouble = None /\ ~Fails /\ ~Restart
<1>1. ~Fails /\ ~Restart /\ trouble' # [trouble EXCEPT !.config = TRUE]
  BY DEF Fails, Restart, None, TypeOK, Troubles
<1>2. trouble' = trouble
  BY <1>1 DEF Next, Handle, vars, Touch, Deliver, GiveToken, Start, ReadFresh, ListBundles,
     Look, CreateEntry, CreateAccount, BindAccount, NameToken, ReadToken, KeepToken,
     TellCompleted, SaveReady, Answered
<1> QED BY <1>1, <1>2

\* Bundled entries are not those of logging.
LEMMA BundledApart ==
  ASSUME LoggingOwn, NEW i \in 1 .. Len(AllBundles), NEW k \in 1 .. 4
  PROVE  Plan[i].object # Extras[k].object
<1>1. PICK m \in 1 .. i, b \in 1 .. Len(Bundles) :
        /\ AllBundles[m].object = Manager(Bundles[b].pm)
        /\ i = m \/ \E a \in 1 .. Len(Bundles[b].apps) :
                       AllBundles[i].object = Application(Bundles[b].apps[a])
  BY BundlesListed DEF Lists, InOrder
<1>2. /\ Plan[i] = AllBundles[i] /\ Bundles[b].pm # "pm-logger"
      /\ \A a \in 1 .. Len(Bundles[b].apps) : Bundles[b].apps[a] # "logging-client-pm-logger"
  BY PlanMade DEF LoggingOwn, ApplicationsOwn
<1>3. Extras[k].object \in {Manager("pm-logger"), Application("logging-client-pm-logger"),
                            <<"Service", "k8s-api-service-for">>,
                            <<"Ingress", "k8s-api-ingress-for">>}
  BY DEF Extras, Own
<1>4. \/ Plan[i].object = Manager(Bundles[b].pm)
      \/ \E a \in 1 .. Len(Bundles[b].apps) : Plan[i].object = Application(Bundles[b].apps[a])
  BY <1>1, <1>2
<1> QED BY <1>2, <1>3, <1>4 DEF Manager, Application

(* The account of the token.                                               *)

\* A waiter that has got past the name of the token found an account with one.
Given(x) ==
  x.pc \in {"secret", "keep", "tell"} \/ (x.pc = "saveReady" /\ url) =>
    x.at \in ConfigAnswers \cap Places /\ account[x.at] = "token"

TokenGiven ==
  trouble = None =>
    /\ \A s \in Slots : Given(waiter[s])
    /\ url /\ phase = "Ready" => \E p \in ConfigAnswers \cap Places : account[p] = "token"

LEMMA TokensStay ==
  ASSUME TypeOK, [Next]_vars, NEW p \in Places, account[p] = "token"
  PROVE  account'[p] = "token"
<1>1. ASSUME NEW q \in Places, GiveToken(q) PROVE account'[p] = "token"
  BY <1>1 DEF GiveToken, TypeOK
<1>2. ASSUME NEW s \in Slots, CreateAccount(s) PROVE account'[p] = "token"
  BY <1>2 DEF CreateAccount, TypeOK
<1>3. UNCHANGED account \/ (\E q \in Places : GiveToken(q)) \/ (\E s \in Slots : CreateAccount(s))
  BY DEF Next, Handle, vars, Touch, Deliver, Restart, Start, ReadFresh, ListBundles, Look,
     CreateEntry, BindAccount, NameToken, ReadToken, KeepToken, TellCompleted, SaveReady
<1> QED BY <1>1, <1>2, <1>3

LEMMA GivenTurn ==
  ASSUME TypeOK, [Next]_vars, BoundInv, NEW s \in Slots, Handle(s), trouble' = None,
         Given(waiter[s])
  PROVE  Given(waiter[s])'
<1> DEFINE x == waiter[s]
<1>1. /\ waiter \in [Slots -> Waiter] /\ DOMAIN x = Fields /\ x \in Waiter
      /\ trouble = None /\ ~Fails /\ url' = url
  BY TypedWaiters, CalmBefore, Writers DEF Shapes
<1>2. TokenOK(x)
  BY <1>1 DEF BoundInv, None
<1>3. CASE Start(s)
  BY <1>1, <1>3 DEF Start, Goto, Given, Fields
<1>4. CASE ReadFresh(s)
  BY <1>1, <1>4 DEF ReadFresh, Given, Fields
<1>5. CASE ListBundles(s)
  BY <1>5, Continued DEF ListBundles, Given
<1>6. CASE Look(s)
  <2>1. waiter'[s].pc \in {"look", "create", "account"}
    <3>1. Goto(s, "create") \/ Continue(s, x.next + 1)
      BY <1>6 DEF Look
    <3> QED BY <1>1, <3>1, Continued DEF Goto, Fields
  <2> QED BY <2>1 DEF Given
<1>7. CASE CreateEntry(s)
  <2>1. waiter'[s].pc \in {"look", "account"}
    <3>1. Continue(s, x.next + 1) \/ Continue(s, AfterError(x.next))
      BY <1>7 DEF CreateEntry
    <3> QED BY <3>1, Continued
  <2> QED BY <2>1 DEF Given
<1>8. CASE CreateAccount(s)
  <2>1. trouble' # [trouble EXCEPT !.config = TRUE]
    BY <1>1 DEF None
  <2>2. \E p \in ConfigAnswers : waiter' = [waiter EXCEPT ![s].pc = "bind", ![s].at = p]
    BY <1>8, <2>1 DEF CreateAccount
  <2> QED BY <1>1, <2>2 DEF Given, Fields
<1>9. CASE BindAccount(s)
  BY <1>1, <1>9 DEF BindAccount, Goto, Given, Fields
<1>10. CASE NameToken(s)
  <2>1. account[x.at] # "none" /\ x.at \in ConfigAnswers \cap Places
    BY <1>2, <1>10 DEF TokenOK, NameToken, InCreateSDSToken
  <2>2. CASE account[x.at] = "token" /\ waiter' = [waiter EXCEPT ![s].named = TRUE, ![s].pc = "secret"]
    <3>1. waiter'[s].at = x.at
      BY <1>1, <2>2 DEF Fields
    <3> QED BY <2>1, <2>2, <3>1, TokensStay DEF Given
  <2>3. CASE Starts
    BY <2>3 DEF Starts, Idle, Given
  <2> QED BY <1>1, <1>10, <2>1, <2>2, <2>3 DEF NameToken
<1>11. CASE ReadToken(s) \/ KeepToken(s) \/ TellCompleted(s)
  <2>1. waiter'[s].at = x.at /\ x.pc \in {"secret", "keep", "tell"}
    BY <1>1, <1>11 DEF ReadToken, KeepToken, TellCompleted, Goto, Fields
  <2> QED BY <2>1, TokensStay DEF Given
<1>12. CASE SaveReady(s)
  BY <1>1, <1>12 DEF SaveReady, Again, Idle, Given
<1> QED BY <1>3, <1>4, <1>5, <1>6, <1>7, <1>8, <1>9, <1>10, <1>11, <1>12 DEF Handle

LEMMA GivenKept ==
  ASSUME TypeOK, BoundInv, TokenGiven, [Next]_vars
  PROVE  TokenGiven'
<1> SUFFICES ASSUME trouble' = None
             PROVE  /\ \A s \in Slots : Given(waiter[s])'
                    /\ url' /\ phase' = "Ready" =>
                         \E p \in ConfigAnswers \cap Places : account'[p] = "token"
  BY DEF TokenGiven
<1>1. /\ \A s \in Slots : Given(waiter[s])
      /\ url /\ phase = "Ready" => \E p \in ConfigAnswers \cap Places : account[p] = "token"
      /\ url' = url
  BY CalmBefore, Writers DEF TokenGiven
<1>2. ASSUME NEW s \in Slots PROVE Given(waiter[s])'
  <2>1. CASE waiter'[s] = waiter[s]
    BY <1>1, <2>1, TokensStay DEF Given
  <2>2. CASE AllIdle
    BY <2>2 DEF AllIdle, Idle, Given
  <2>3. CASE Handle(s)
    BY <1>1, <2>3, GivenTurn
  <2> QED BY <2>1, <2>2, <2>3, Movers DEF Turn
<1>3. ASSUME url', phase' = "Ready"
      PROVE  \E p \in ConfigAnswers \cap Places : account'[p] = "token"
  <2>1. ASSUME NEW s \in Slots, SaveReady(s)
        PROVE  \E p \in ConfigAnswers \cap Places : account[p] = "token"
    BY <1>1, <1>3, <2>1 DEF SaveReady, Given
  <2>2. Touch => phase' = "Waiting"
    BY DEF Touch
  <2>3. \E p \in ConfigAnswers \cap Places : account[p] = "token"
    BY <1>1, <1>3, <2>1, <2>2, Writers
  <2> QED BY <2>3, TokensStay
<1> QED BY <1>2, <1>3

\* No waiter panics any more once the resource has been stored Ready.
LEMMA NoLatePanic ==
  ASSUME OnePlace, TypeOK, BoundInv, TokenGiven, [Next]_vars, trouble' = None,
         NEW s \in Slots, NameToken(s), url, phase = "Ready"
  PROVE  ~Starts
<1>1. trouble = None /\ ~Fails
  BY CalmBefore
<1>2. PICK p \in ConfigAnswers \cap Places : account[p] = "token"
  BY <1>1 DEF TokenGiven
<1>3. waiter[s].at \in ConfigAnswers \cap Places
  BY <1>1 DEF BoundInv, None, TokenOK, InCreateSDSToken, NameToken
<1>4. waiter[s].at = p
  BY <1>2, <1>3 DEF OnePlace, Places
<1>5. waiter'[s].pc = "secret"
  <2>1. waiter' = [waiter EXCEPT ![s].named = TRUE, ![s].pc = "secret"]
    BY <1>1, <1>2, <1>4 DEF NameToken
  <2> QED BY <2>1, TypedWaiters DEF Shapes, Fields
<1> QED BY <1>5 DEF Starts, Idle

\* What the bundles ask for before the first entry that the server must refuse.
BundlesThere ==
  \A i \in 1 .. Len(AllBundles) :
    (\A k \in 1 .. i : Plan[k].home) => Plan[i].object \in present

\* A waiter that goes on with the bundles: nobody has beaten it to its Create.
Busy(x) ==
  /\ x.pc \in AtList /\ x.next <= Len(AllBundles)
  /\ x.pc = "create" => Plan[x.next].home /\ Plan[x.next].object \notin present

\* A waiter that does not, or will not.
Gone(x) ==
  \/ x.pc \in AtList /\ x.next > Len(AllBundles)
  \/ x.pc = "create" /\ x.next <= Len(AllBundles) /\ Plan[x.next].object \in present
  \/ x.pc \in AfterList \/ (x.pc = "saveReady" /\ url)

Over    == (url /\ phase = "Ready") \/ \E s \in Slots : Gone(waiter[s])
Covered == BundlesThere \/ \E s \in Slots : Busy(waiter[s])

\* Where one waiter gives up the bundles, another one goes on with them.
NeverAllGiveUp == trouble = None => (Over => Covered)

LEMMA BundlesStay ==
  ASSUME BundlesThere, [Next]_vars
  PROVE  BundlesThere'
BY PresentGrows DEF BundlesThere

\* A waiter that comes to an entry for elsewhere, or to the end, has it all.
LEMMA WalkedThere ==
  ASSUME NEW x \in Waiter, Walked(x), x.pc \in AtList, x.next <= Len(AllBundles),
         ~Plan[x.next].home \/ (x.next = Len(AllBundles) /\ Plan[x.next].object \in present)
  PROVE  BundlesThere
<1> SUFFICES ASSUME NEW i \in 1 .. Len(AllBundles), \A k \in 1 .. i : Plan[k].home
             PROVE  Plan[i].object \in present
  BY DEF BundlesThere
<1>1. x.next \in Nat \ {0} /\ Len(AllBundles) \in Nat
  BY PlanMade DEF Waiter
<1>2. CASE i < x.next
  <2>1. i \in 1 .. x.next - 1
    BY <1>1, <1>2
  <2> QED BY <2>1 DEF Walked
<1>3. CASE i = x.next
  <2>1. i \in 1 .. i
    OBVIOUS
  <2> QED BY <1>3, <2>1
<1>4. CASE i > x.next
  <2>1. x.next \in 1 .. i /\ x.next # Len(AllBundles)
    BY <1>1, <1>4
  <2> QED BY <2>1
<1> QED BY <1>1, <1>2, <1>3, <1>4

\* A waiter that is busy stays so while others create what is not among the
\* bundled entries.
LEMMA StaysBusy ==
  ASSUME LoggingOwn, TypeOK, NEW t \in Slots, Busy(waiter[t]), waiter'[t] = waiter[t],
         \/ UNCHANGED present
         \/ \E k \in 1 .. 4 : present' = present \cup {Extras[k].object}
  PROVE  Busy(waiter[t])'
<1> DEFINE i == waiter[t].next
<1>1. i \in 1 .. Len(AllBundles)
  <2>1. waiter[t] \in Waiter
    BY TypedWaiters
  <2> QED BY <2>1, PlanMade DEF Busy, Waiter
<1>2. Plan[i].object \notin present => Plan[i].object \notin present'
  BY <1>1, BundledApart
<1> QED BY <1>2 DEF Busy

\* A step at an entry.
LEMMA EntryCovered ==
  ASSUME LoggingOwn, TypeOK, AllWalked, NeverAllGiveUp, [Next]_vars, trouble' = None,
         NEW s \in Slots, Look(s) \/ CreateEntry(s)
  PROVE  Covered'
<1> DEFINE x == waiter[s]
<1> DEFINE i == waiter[s].next
<1>1. /\ trouble = None /\ ~Fails /\ x \in Waiter /\ Walked(x) /\ x.pc \in AtList
      /\ i \in 1 .. Len(Plan) /\ Len(AllBundles) \in Nat /\ Len(Plan) = Len(AllBundles) + 4
  BY CalmBefore, TypedWaiters, EntryMoves, PlanMade DEF AllWalked
<1>2. \A t \in Slots : t # s => waiter'[t] = waiter[t]
  BY TypedWaiters DEF Look, CreateEntry, Goto, Continue
<1>3. ASSUME NEW t \in Slots, t # s, Busy(waiter[t]),
             \/ UNCHANGED present
             \/ \E k \in 1 .. 4 : present' = present \cup {Extras[k].object}
      PROVE  Covered'
  BY <1>2, <1>3, StaysBusy DEF Covered
\* The waiter is among the extras, or has been beaten to its Create.
<1>4. ASSUME Gone(x), ~Busy(x),
             \/ UNCHANGED present
             \/ \E k \in 1 .. 4 : present' = present \cup {Extras[k].object}
      PROVE  Covered'
  BY <1>1, <1>3, <1>4, BundlesStay DEF NeverAllGiveUp, Over, Covered
<1>5. CASE i > Len(AllBundles)
  <2>1. PICK k \in 1 .. 4 : Plan[i] = Extras[k]
    BY <1>1, <1>5, ExtraAt
  <2>2. UNCHANGED present \/ present' = present \cup {Extras[k].object}
    BY <2>1 DEF Look, CreateEntry
  <2> QED BY <1>1, <1>4, <1>5, <2>2 DEF Gone, Busy
<1>6. CASE i <= Len(AllBundles) /\ Look(s)
  <2>1. i \in 1 .. Len(AllBundles) /\ UNCHANGED present
    BY <1>1, <1>6 DEF Look
  <2>2. CASE Continue(s, i + 1) /\ Plan[i].object \in present
    <3>1. CASE i = Len(AllBundles)
      BY <1>1, <1>6, <2>2, <3>1, WalkedThere, BundlesStay DEF Covered
    <3>2. CASE i # Len(AllBundles)
      <4>1. waiter'[s].next = i + 1 /\ waiter'[s].pc = "look" /\ i + 1 <= Len(AllBundles)
        BY <1>1, <2>1, <2>2, <3>2, Continued
      <4> QED BY <4>1 DEF Covered, Busy, AtList
    <3> QED BY <3>1, <3>2
  <2>3. CASE Goto(s, "create") /\ Plan[i].object \notin present
    <3>1. CASE Plan[i].home
      <4>1. waiter'[s].next = i /\ waiter'[s].pc = "create"
        BY <2>3, TypedWaiters DEF Goto, Waiter
      <4> QED BY <2>1, <2>3, <3>1, <4>1 DEF Covered, Busy, AtList
    <3>2. CASE ~Plan[i].home
      BY <1>1, <1>6, <3>2, WalkedThere, BundlesStay DEF Covered
    <3> QED BY <3>1, <3>2
  <2> QED BY <1>1, <1>6, <2>2, <2>3 DEF Look
<1>7. CASE i <= Len(AllBundles) /\ CreateEntry(s)
  <2>1. i \in 1 .. Len(AllBundles)
    BY <1>1, <1>7
  <2>2. x.pc = "create"
    <3>1. Plan[i].looks
      BY <2>1, PlanMade
    <3> QED BY <1>7, <3>1 DEF CreateEntry
  <2>3. CASE Plan[i].home /\ Plan[i].object \notin present
    <3>1. present' = present \cup {Plan[i].object} /\ Continue(s, i + 1)
      BY <1>1, <1>7, <2>3 DEF CreateEntry
    <3>2. CASE i = Len(AllBundles)
      <4>1. ASSUME NEW j \in 1 .. Len(AllBundles) PROVE Plan[j].object \in present'
        <5>1. j = i \/ j \in 1 .. i - 1
          BY <2>1, <3>2
        <5> QED BY <1>1, <1>7, <3>1, <5>1 DEF Walked
      <4> QED BY <4>1 DEF Covered, BundlesThere
    <3>3. CASE i # Len(AllBundles)
      <4>1. waiter'[s].next = i + 1 /\ waiter'[s].pc = "look" /\ i + 1 <= Len(AllBundles)
        BY <1>1, <2>1, <3>1, <3>3, Continued
      <4> QED BY <4>1 DEF Covered, Busy, AtList
    <3> QED BY <3>2, <3>3
  <2>4. CASE ~Plan[i].home
    BY <1>1, <1>7, <2>4, WalkedThere, BundlesStay DEF Covered
  <2>5. CASE Plan[i].object \in present
    <3>1. UNCHANGED present
      BY <1>1, <1>7, <2>5 DEF CreateEntry
    <3> QED BY <1>4, <1>7, <2>2, <2>5, <3>1 DEF Gone, Busy
  <2> QED BY <2>3, <2>4, <2>5
<1> QED BY <1>1, <1>5, <1>6, <1>7

\* A step elsewhere.
LEMMA ElsewhereCovered ==
  ASSUME LoggingOwn, TypeOK, NeverAllGiveUp, [Next]_vars, trouble' = None, Over',
         NEW s \in Slots, Handle(s), ~ListBundles(s), ~Look(s), ~CreateEntry(s),
         ~NameToken(s) \/ ~Starts
  PROVE  Covered'
<1> DEFINE x == waiter[s]
<1>1. /\ trouble = None /\ url' = url /\ DOMAIN waiter = Slots /\ DOMAIN x = Fields
      /\ ~Fails
  BY CalmBefore, TypedWaiters, Writers DEF Shapes
<1>2. UNCHANGED present /\ x.pc \notin AtList
  BY DEF Handle, Start, ReadFresh, CreateAccount, BindAccount, NameToken, ReadToken,
     KeepToken, TellCompleted, SaveReady, AtList
<1>3. \A t \in Slots : t # s => waiter'[t] = waiter[t]
  BY <1>1 DEF Handle, Start, ReadFresh, CreateAccount, BindAccount, NameToken, ReadToken,
     KeepToken, TellCompleted, SaveReady, Goto, Again
<1>4. Gone(waiter[s])' => Gone(x)
  <2> SUFFICES ASSUME Gone(waiter[s])' PROVE Gone(x)
    OBVIOUS
  <2>1. waiter'[s].pc # "idle"
    BY DEF Gone, AtList, AfterList
  <2>2. ~AllIdle
    BY <2>1 DEF AllIdle, Idle
  <2>3. waiter'[s].pc \notin AtList
    BY <2>2, ElsewhereMoves
  <2>4. x.pc \in AfterList
    BY <1>1, <2>1, <2>2, <2>3, LaterMoves DEF Gone, AfterList, AtList
  <2> QED BY <2>4 DEF Gone
<1>5. phase' # phase => SaveReady(s)
  BY DEF Handle, resource, Start, ReadFresh, CreateAccount, BindAccount, NameToken, ReadToken,
     KeepToken, TellCompleted
<1>6. SaveReady(s) /\ url => Gone(x)
  BY DEF SaveReady, Gone
<1>7. Over
  <2>1. CASE url' /\ phase' = "Ready"
    BY <1>1, <1>5, <1>6, <2>1 DEF Over
  <2>2. ASSUME NEW t \in Slots, Gone(waiter[t])' PROVE Over
    <3>1. CASE t = s
      BY <1>4, <2>2, <3>1 DEF Over
    <3>2. CASE t # s
      BY <1>1, <1>2, <1>3, <2>2, <3>2 DEF Over, Gone
    <3> QED BY <3>1, <3>2
  <2> QED BY <2>1, <2>2 DEF Over
<1>8. Covered
  BY <1>1, <1>7 DEF NeverAllGiveUp
<1>9. ASSUME NEW t \in Slots, Busy(waiter[t]) PROVE Busy(waiter[t])'
  <2>1. t # s
    BY <1>2, <1>9 DEF Busy
  <2> QED BY <1>2, <1>3, <1>9, <2>1 DEF Busy
<1> QED BY <1>8, <1>9, BundlesStay DEF Covered

LEMMA CoveredKept ==
  ASSUME OnePlace, LoggingOwn, TypeOK, BoundInv, AllWalked, TokenGiven, NeverAllGiveUp,
         [Next]_vars
  PROVE  NeverAllGiveUp'
<1> SUFFICES ASSUME trouble' = None, Over' PROVE Covered'
  BY DEF NeverAllGiveUp
<1>1. trouble = None /\ ~Fails /\ ~Restart /\ url' = url
  BY CalmBefore, Writers
<1>2. ASSUME NEW s \in Slots, Handle(s) PROVE Covered'
  <2>1. CASE ListBundles(s)
    <3>1. Continue(s, 1)
      BY <1>1, <2>1 DEF ListBundles
    <3>2. waiter'[s].next = 1 /\ waiter'[s].pc = "look"
      BY <3>1, Continued, PlanMade
    <3>3. Len(AllBundles) >= 1 => Busy(waiter[s])'
      BY <3>2, PlanMade DEF Busy, AtList
    <3>4. Len(AllBundles) < 1 => BundlesThere'
      BY PlanMade DEF BundlesThere
    <3> QED BY <3>3, <3>4, PlanMade DEF Covered
  <2>2. CASE Look(s) \/ CreateEntry(s)
    BY <2>2, EntryCovered
  <2>3. CASE NameToken(s) /\ Starts
    <3>1. phase' = phase /\ \A t \in Slots : ~Gone(waiter[t])'
      BY <2>3 DEF NameToken, Starts, Idle, Gone, AtList, AfterList
    <3> QED BY <1>1, <2>3, <3>1, NoLatePanic DEF Over
  <2>4. CASE ~ListBundles(s) /\ ~Look(s) /\ ~CreateEntry(s) /\ (~NameToken(s) \/ ~Starts)
    BY <1>2, <2>4, ElsewhereCovered
  <2> QED BY <2>1, <2>2, <2>3, <2>4
<1>3. ASSUME UNCHANGED <<waiter, present>>, phase' \in {phase, "Waiting"} PROVE Covered'
  <2>1. Over
    BY <1>1, <1>3 DEF Over, Gone
  <2>2. Covered
    BY <1>1, <2>1 DEF NeverAllGiveUp
  <2> QED BY <1>3, <2>2 DEF Covered, Busy, BundlesThere
<1> QED BY <1>1, <1>2, <1>3 DEF Next, vars, resource, Touch, Deliver, GiveToken

\* Where kubeconfigs point to one cluster and the bundles leave the names of logging
\* alone, a resource with a callback URL that is Ready, and whose waiters are done,
\* has all that it was to get, as long as nothing goes wrong: for any bundles, and
\* any number of waiters that beat each other to a Create.  A waiter gives up only
\* because of one that is ahead of it, and no panic takes down the one that is left.
THEOREM InstalledWhenReady == OnePlace /\ LoggingOwn => (Spec => []InstalledWithoutTrouble)
<1> SUFFICES ASSUME OnePlace, LoggingOwn PROVE Spec => []InstalledWithoutTrouble
  OBVIOUS
<1>1. Init => AllWalked /\ TokenGiven /\ NeverAllGiveUp
  BY DEF Init, AllWalked, Walked, TokenGiven, Given, NeverAllGiveUp, Over, Gone, AtList,
         AfterList, Idle
<1>2. TypeOK /\ BoundInv /\ (AllWalked /\ TokenGiven /\ NeverAllGiveUp) /\ [Next]_vars =>
        (AllWalked /\ TokenGiven /\ NeverAllGiveUp)'
  BY WalkedKept, GivenKept, CoveredKept
<1>3. AllFurnished /\ NeverAllGiveUp => InstalledWithoutTrouble
  <2> SUFFICES ASSUME AllFurnished, NeverAllGiveUp, trouble = None, url, phase = "Ready",
                      \A s \in Slots : waiter[s].pc = "idle"
               PROVE  Wanted \subseteq present
    BY DEF InstalledWithoutTrouble, Installed
  <2>1. BundlesThere
    BY DEF NeverAllGiveUp, Over, Covered, Busy, AtList
  <2>2. ExtrasThere
    BY DEF AllFurnished, None
  <2>3. ASSUME NEW i \in 1 .. Len(Plan), Plan[i].bundled => \A k \in 1 .. i : Plan[k].home
        PROVE  Plan[i].object \in present
    <3>1. CASE i <= Len(AllBundles)
      <4>1. i \in 1 .. Len(AllBundles) /\ Plan[i].bundled
        BY <3>1, PlanMade
      <4> QED BY <2>1, <2>3, <4>1 DEF BundlesThere
    <3>2. CASE i > Len(AllBundles)
      <4>1. PICK k \in 1 .. 4 : Plan[i] = Extras[k]
        BY <3>2, ExtraAt
      <4> QED BY <2>2, <4>1 DEF ExtrasThere
    <3> QED BY <3>1, <3>2, PlanMade
  <2> QED BY <2>3 DEF Wanted
<1> QED BY <1>1, <1>2, <1>3, TypeCorrect, Bounds, Furnishes, PTL DEF Spec

\* The violation of the install_panic run is trouble's: where kubeconfigs point to one
\* cluster and are there, no call fails and the operator is not stopped, a Ready
\* cluster with a callback URL has what its bundles ask for, however many waiters
\* there are, and whatever panics CreateSDSToken may come to.
THEOREM OnlyTroubleKeepsBundlesAway ==
  OnePlace /\ LoggingOwn /\ "fail" \notin ConfigAnswers /\ MaxFails = 0 /\ MaxStops = 0
    => (Spec => []BundlesGetInstalled)
<1> SUFFICES ASSUME OnePlace, LoggingOwn, "fail" \notin ConfigAnswers, MaxFails = 0, MaxStops = 0
             PROVE  Spec => []BundlesGetInstalled
  OBVIOUS
<1>1. Init => trouble = None
  BY DEF Init
<1>2. trouble = None /\ [Next]_vars => (trouble = None)'
  <2> SUFFICES ASSUME trouble = None, [Next]_vars PROVE trouble' = trouble
    OBVIOUS
  <2>1. ~Fails /\ ~Restart
    BY DEF Fails, Restart, None
  <2> QED BY <2>1 DEF Next, Handle, vars, Touch, Deliver, GiveToken, Start, ReadFresh,
          ListBundles, Look, CreateEntry, CreateAccount, BindAccount, NameToken, ReadToken,
          KeepToken, TellCompleted, SaveReady, Answered
<1>3. Spec => []InstalledWithoutTrouble
  BY InstalledWhenReady
<1>4. trouble = None /\ InstalledWithoutTrouble => BundlesGetInstalled
  BY DEF InstalledWithoutTrouble, BundlesGetInstalled
<1> QED BY <1>1, <1>2, <1>3, <1>4, PTL DEF Spec

-----------------------------------------------------------------------------
(* The refinement of ClusterReadiness *)

\* The steps of handleClusterReady between its copy and its notice.
Walking == {"list", "look", "create", "account", "bind", "name", "secret", "keep", "tell"}

\* Only with a URL a waiter gets there.
ForUrl == \A s \in Slots : waiter[s].pc \in Walking => url

It          == [c \in {"it"} |-> [phase |-> phase, url |-> url, gen |-> 1, ver |-> version]]
Copies      == [c \in {"it"} |-> [s \in Slots |-> CopyOf(s)]]
Completions == [c \in {"it"} |-> IF told = {} THEN {} ELSE {1}]

\* What all steps but three do to their waiter: it stays where it has no copy, or
\* on its way from the copy to the notice.
LEMMA AsideMoves ==
  ASSUME TypeOK, NEW s \in Slots, Handle(s), ~ReadFresh(s), ~TellCompleted(s), ~SaveReady(s)
  PROVE  \/ AllIdle
         \/ /\ waiter'[s].fresh = waiter[s].fresh
            /\ \/ waiter[s].pc \in {"idle", "read"} /\ waiter'[s].pc \in {"idle", "read"}
               \/ waiter[s].pc \in Walking /\ waiter'[s].pc \in Walking
<1>1. waiter \in [Slots -> Waiter] /\ DOMAIN waiter[s] = Fields
  BY TypedWaiters DEF Shapes
<1> USE DEF Walking, Fields
<1>2. CASE Start(s)
  BY <1>1, <1>2 DEF Start, Goto
<1>3. CASE ListBundles(s)
  BY <1>1, <1>3 DEF ListBundles, Continue
<1>4. CASE Look(s)
  BY <1>1, <1>4 DEF Look, Continue, Goto
<1>5. CASE CreateEntry(s)
  BY <1>1, <1>5 DEF CreateEntry, Continue
<1>6. CASE CreateAccount(s) \/ BindAccount(s)
  BY <1>1, <1>6 DEF CreateAccount, BindAccount, Goto
<1>7. CASE NameToken(s)
  BY <1>1, <1>7 DEF NameToken, Starts, AllIdle
<1>8. CASE ReadToken(s) \/ KeepToken(s)
  BY <1>1, <1>8 DEF ReadToken, KeepToken, Goto
<1> QED BY <1>2, <1>3, <1>4, <1>5, <1>6, <1>7, <1>8 DEF Handle

\* What those three do.
LEMMA SeenMoves ==
  ASSUME TypeOK, NEW s \in Slots, ReadFresh(s) \/ TellCompleted(s) \/ SaveReady(s)
  PROVE  \/ waiter[s].pc \in {"read", "saveReady"} /\ waiter'[s].pc \in {"idle", "read"}
         \/ /\ waiter[s].pc = "read" /\ waiter'[s].pc = (IF url THEN "list" ELSE "saveReady")
            /\ waiter'[s].fresh = version
         \/ /\ waiter[s].pc = "tell" /\ waiter'[s].pc = "saveReady"
            /\ waiter'[s].fresh = waiter[s].fresh
<1>1. waiter \in [Slots -> Waiter] /\ DOMAIN waiter[s] = Fields
  BY TypedWaiters DEF Shapes
<1> USE DEF Fields
<1>2. CASE ReadFresh(s)
  BY <1>1, <1>2 DEF ReadFresh, Again, Idle
<1>3. CASE TellCompleted(s)
  BY <1>1, <1>3 DEF TellCompleted, Goto
<1>4. CASE SaveReady(s)
  BY <1>1, <1>4 DEF SaveReady, Again, Idle
<1> QED BY <1>2, <1>3, <1>4

\* They are turns, even when every waiter is idle after them.
LEMMA SeenTurns ==
  ASSUME TypeOK, NEW s \in Slots, ReadFresh(s) \/ TellCompleted(s) \/ SaveReady(s)
  PROVE  Turn(s)
<1>1. DOMAIN waiter = Slots /\ DOMAIN waiter[s] = Fields
  BY TypedWaiters DEF Shapes
<1> QED BY <1>1 DEF Turn, Fields, ReadFresh, TellCompleted, SaveReady, Goto, Again, Idle

\* So a waiter on its way has a URL to tell.
LEMMA ForUrlKept ==
  ASSUME TypeOK, ForUrl, [Next]_vars
  PROVE  ForUrl'
<1>1. url' = url
  BY Writers
<1>2. CASE UNCHANGED waiter
  BY <1>1, <1>2 DEF ForUrl
<1>3. CASE AllIdle
  BY <1>3 DEF ForUrl, AllIdle, Idle, Walking
<1>4. ASSUME NEW s \in Slots, Handle(s), Turn(s), ~AllIdle PROVE ForUrl'
  <2>1. waiter'[s].pc \in Walking => url
    BY <1>4, AsideMoves, SeenMoves DEF ForUrl, Walking
  <2> QED BY <1>1, <1>4, <2>1 DEF ForUrl, Turn
<1> QED BY <1>2, <1>3, <1>4, Movers

\* The copy of a waiter that has turned, and those of the others.
LEMMA CopiesTurn ==
  ASSUME NEW s \in Slots, Turn(s), url' = url
  PROVE  Copies' = [Copies EXCEPT !["it"][s] = CopyOf(s)'] /\ Copies["it"][s] = CopyOf(s)
<1>1. ASSUME NEW t \in Slots, t # s PROVE CopyOf(t)' = CopyOf(t)
  BY <1>1 DEF Turn, CopyOf
<1>2. [t \in Slots |-> CopyOf(t)'] = [[t \in Slots |-> CopyOf(t)] EXCEPT ![s] = CopyOf(s)']
  BY <1>1
<1> QED BY <1>2 DEF Copies

\* The operator goes down.
LEMMA AllIdleStops ==
  ASSUME AllIdle, UNCHANGED <<url, phase, version, told>>
  PROVE  Readiness!Next
<1>1. ASSUME NEW s \in Slots PROVE CopyOf(s)' = Readiness!NoCopy
  BY DEF AllIdle, Idle, CopyOf, Readiness!NoCopy
<1>2. Copies' = Readiness!NoCopies
  BY <1>1 DEF Copies, Readiness!NoCopies
<1>3. It' = It /\ Completions' = Completions
  BY DEF It, Completions
<1>4. Readiness!Stop
  BY <1>2, <1>3 DEF Readiness!Stop, It, Copies, Completions
<1> QED BY <1>4 DEF Readiness!Next

\* The steps on the way, from the first look to the token that is kept, are not seen.
LEMMA AsideUnseen ==
  ASSUME TypeOK, [Next]_vars, NEW s \in Slots, Handle(s), Turn(s),
         ~ReadFresh(s), ~TellCompleted(s), ~SaveReady(s)
  PROVE  Readiness!Next \/ UNCHANGED <<It, Copies, Completions>>
<1>1. UNCHANGED <<url, phase, version, told>>
  BY DEF Handle, resource, Start, ListBundles, Look, CreateEntry, CreateAccount, BindAccount,
         NameToken, ReadToken, KeepToken
<1>2. CASE AllIdle
  BY <1>1, <1>2, AllIdleStops
<1>3. CASE ~AllIdle
  <2>1. CopyOf(s)' = CopyOf(s)
    BY <1>1, <1>3, AsideMoves DEF CopyOf, Walking
  <2>2. ASSUME NEW t \in Slots PROVE CopyOf(t)' = CopyOf(t)
    BY <1>1, <2>1 DEF Turn, CopyOf
  <2> QED BY <1>1, <2>2 DEF It, Copies, Completions
<1> QED BY <1>2, <1>3

\* ReadFresh takes the copy; without a URL there is nothing left to do or to say.
LEMMA ReadFreshTakes ==
  ASSUME TypeOK, NEW s \in Slots, ReadFresh(s), Turn(s)
  PROVE  Readiness!Next \/ UNCHANGED <<It, Copies, Completions>>
<1>1. UNCHANGED <<url, phase, version, told>> /\ waiter[s].pc = "read"
  BY DEF ReadFresh, resource
<1>2. It' = It /\ Completions' = Completions
  BY <1>1 DEF It, Completions
<1>3. Copies' = [Copies EXCEPT !["it"][s] = CopyOf(s)'] /\ Copies["it"][s] = CopyOf(s)
  BY <1>1, CopiesTurn
<1>4. CopyOf(s) = Readiness!NoCopy
  BY <1>1 DEF CopyOf, Readiness!NoCopy
<1>5. CASE waiter'[s].pc \in {"idle", "read"}
  <2>1. CopyOf(s)' = CopyOf(s)
    BY <1>1, <1>5 DEF CopyOf
  <2>2. ASSUME NEW t \in Slots PROVE CopyOf(t)' = CopyOf(t)
    BY <1>1, <2>1 DEF Turn, CopyOf
  <2> QED BY <1>2, <2>2 DEF Copies
<1>6. CASE /\ waiter'[s].pc = (IF url THEN "list" ELSE "saveReady")
           /\ waiter'[s].fresh = version
  <2> DEFINE stage == IF url THEN "taken" ELSE "told"
  <2>1. CopyOf(s)' = [stage |-> stage, ver |-> version, url |-> url, gen |-> 1]
    BY <1>1, <1>6 DEF CopyOf
  <2>2. It["it"].ver = version /\ It["it"].url = url /\ It["it"].gen = 1 /\ It["it"].phase = phase
    BY DEF It
  <2>3. CopyOf(s)' = Readiness!Copy(It["it"], stage)
    BY <2>1, <2>2 DEF Readiness!Copy
  <2>4. stage \in {"taken"} \cup (IF It["it"].url THEN {} ELSE {"told"})
    BY <2>2
  <2> HIDE DEF stage
  <2>5. Readiness!Live("it")
    BY DEF TypeOK, Readiness!Live
  <2>6. Readiness!Take("it", s)
    BY <1>2, <1>3, <1>4, <2>3, <2>4, <2>5 DEF Readiness!Take, It, Copies, Completions
  <2> QED BY <2>6 DEF Readiness!Next
<1> QED BY <1>1, <1>5, <1>6, SeenMoves

\* TellCompleted hands out the notice, of whatever token there is.
LEMMA TellCompletedTells ==
  ASSUME TypeOK, ForUrl, NEW s \in Slots, TellCompleted(s), Turn(s)
  PROVE  Readiness!Next
<1>1. UNCHANGED <<url, phase, version>> /\ waiter[s].pc = "tell" /\ told' # {}
  BY DEF TellCompleted, resource
<1>2. url
  BY <1>1 DEF ForUrl, Walking
<1>3. It' = It /\ Completions' = [c \in {"it"} |-> {1}]
  BY <1>1 DEF It, Completions
<1>4. Copies' = [Copies EXCEPT !["it"][s] = CopyOf(s)'] /\ Copies["it"][s] = CopyOf(s)
  BY <1>1, CopiesTurn
<1>5. CopyOf(s) = [stage |-> "taken", ver |-> waiter[s].fresh, url |-> url, gen |-> 1]
  BY <1>1 DEF CopyOf
<1>6. CopyOf(s)' = [stage |-> "told", ver |-> waiter[s].fresh, url |-> url, gen |-> 1]
  <2>1. waiter'[s].pc = "saveReady" /\ waiter'[s].fresh = waiter[s].fresh
    BY <1>1, SeenMoves
  <2> QED BY <1>1, <2>1 DEF CopyOf
<1>7. CopyOf(s)' = Readiness!Copy(Copies["it"][s], "told")
  BY <1>4, <1>5, <1>6 DEF Readiness!Copy
<1>8. /\ Copies["it"][s].stage = "taken" /\ Copies["it"][s].url = TRUE
      /\ Copies["it"][s].gen = 1
  BY <1>2, <1>4, <1>5
<1>9. Completions' = [Completions EXCEPT !["it"] =
                        @ \cup IF Copies["it"][s].url THEN {Copies["it"][s].gen} ELSE {}]
  BY <1>3, <1>8 DEF Completions
<1>10. Readiness!Tell("it", s)
  BY <1>3, <1>4, <1>7, <1>8, <1>9 DEF Readiness!Tell, It, Copies, Completions
<1> QED BY <1>10 DEF Readiness!Next

\* SaveReady stores Ready over the copy, or leaves.
LEMMA SaveReadyMarks ==
  ASSUME TypeOK, NEW s \in Slots, SaveReady(s), Turn(s)
  PROVE  Readiness!Next
<1>1. UNCHANGED <<url, told>> /\ waiter[s].pc = "saveReady"
  BY DEF SaveReady
<1>2. Completions' = Completions
  BY <1>1 DEF Completions
<1>3. Copies' = [Copies EXCEPT !["it"][s] = CopyOf(s)'] /\ Copies["it"][s] = CopyOf(s)
  BY <1>1, CopiesTurn
<1>4. CopyOf(s)' = Readiness!NoCopy
  BY <1>1, SeenMoves DEF CopyOf, Readiness!NoCopy
<1>5. Copies["it"][s].stage = "told" /\ Copies["it"][s].ver = waiter[s].fresh
  BY <1>1, <1>3 DEF CopyOf
<1>6. CASE UNCHANGED <<phase, version>>
  <2>1. It' = It
    BY <1>1, <1>6 DEF It
  <2>2. Readiness!Leave("it", s)
    BY <1>2, <1>3, <1>4, <1>5, <2>1 DEF Readiness!Leave, It, Copies, Completions
  <2> QED BY <2>2 DEF Readiness!Next
<1>7. CASE waiter[s].fresh = version /\ phase' = "Ready" /\ version' = version + 1
  <2>1. Readiness!Store("it", "Ready", It["it"].url, It["it"].gen)
    BY <1>1, <1>7 DEF Readiness!Store, It
  <2>2. Copies["it"][s].ver = It["it"].ver
    BY <1>5, <1>7 DEF It
  <2>3. Readiness!Live("it")
    BY DEF TypeOK, Readiness!Live
  <2>4. Readiness!MarkReady("it", s)
    BY <1>2, <1>3, <1>4, <1>5, <2>1, <2>2, <2>3 DEF Readiness!MarkReady, It, Copies, Completions
  <2> QED BY <2>4 DEF Readiness!Next
<1> QED BY <1>6, <1>7 DEF SaveReady

\* Whatever the bundles are, whichever calls fail, and however many waiters are on the
\* same way, a waiter that has read the resource gives the Completed notice before it
\* stores Ready, stores it over the version that it read, and is kept from the notice
\* only by the end of the process: handleClusterReady, call by call, implements what
\* the step Install of ClusterController does at once.
THEOREM InstallReadiness == Spec => ImplementsReadiness
<1>1. Init => ForUrl
  BY DEF Init, ForUrl, Idle, Walking
<1>2. TypeOK /\ ForUrl /\ [Next]_vars => ForUrl'
  BY ForUrlKept
<1>3. Init => Readiness!Init
  <2> SUFFICES ASSUME Init PROVE Readiness!Init
    OBVIOUS
  <2>1. It \in [{"it"} -> [phase : Readiness!Phases \ {"Ready"}, url : BOOLEAN,
                           gen : {0, 1}, ver : {1}]]
    BY DEF Init, It, Readiness!Phases
  <2>2. ASSUME NEW s \in Slots PROVE CopyOf(s) = Readiness!NoCopy
    BY DEF Init, Idle, CopyOf, Readiness!NoCopy
  <2>3. Copies = Readiness!NoCopies /\ Completions = [c \in {"it"} |-> {}]
    BY <2>2 DEF Init, Copies, Completions, Readiness!NoCopies
  <2> QED BY <2>1, <2>3 DEF Readiness!Init, It, Copies, Completions
<1>4. TypeOK /\ ForUrl /\ [Next]_vars => [Readiness!Next]_<<It, Copies, Completions>>
  <2> SUFFICES ASSUME TypeOK, ForUrl, [Next]_vars
               PROVE  Readiness!Next \/ UNCHANGED <<It, Copies, Completions>>
    OBVIOUS
  <2>1. ASSUME NEW s \in Slots, Handle(s), Turn(s)
        PROVE  Readiness!Next \/ UNCHANGED <<It, Copies, Completions>>
    BY <2>1, AsideUnseen, ReadFreshTakes, TellCompletedTells, SaveReadyMarks
  <2>2. ASSUME NEW s \in Slots, Handle(s), ~Turn(s) PROVE Readiness!Next
    <3>1. AllIdle
      BY <2>2, TypedWaiters, Turns
    <3>2. ~ReadFresh(s) /\ ~TellCompleted(s) /\ ~SaveReady(s)
      BY <2>2, SeenTurns
    <3>3. UNCHANGED <<url, phase, version, told>>
      BY <2>2, <3>2 DEF Handle, resource, Start, ListBundles, Look, CreateEntry, CreateAccount,
             BindAccount, NameToken, ReadToken, KeepToken
    <3> QED BY <3>1, <3>3, AllIdleStops
  <2>3. CASE Touch
    <3>1. UNCHANGED <<url, told, waiter>> /\ phase' = "Waiting" /\ version' = version + 1
      BY <2>3 DEF Touch
    <3>2. Copies' = Copies /\ Completions' = Completions
      BY <3>1 DEF Copies, CopyOf, Completions
    <3>3. Readiness!Store("it", "Waiting", It["it"].url, It["it"].gen)
      BY <3>1 DEF Readiness!Store, It
    <3>4. Readiness!Live("it") /\ "Waiting" \in Readiness!Phases \ {"Ready"}
      BY DEF TypeOK, Readiness!Live, Readiness!Phases
    <3>5. It'["it"].phase = "Waiting"
      BY <3>1 DEF It
    <3>6. Readiness!Write("it")
      BY <3>2, <3>3, <3>4, <3>5 DEF Readiness!Write, It, Copies, Completions
    <3> QED BY <3>6 DEF Readiness!Next
  <2>4. CASE Restart
    BY <2>4, AllIdleStops DEF Restart, Starts, AllIdle
  <2>5. ASSUME UNCHANGED <<url, phase, version, told, waiter>>
        PROVE  UNCHANGED <<It, Copies, Completions>>
    BY <2>5 DEF It, Copies, CopyOf, Completions
  <2>6. CASE Deliver \/ (\E p \in Places : GiveToken(p)) \/ UNCHANGED vars
    BY <2>5, <2>6 DEF Deliver, GiveToken, resource, vars
  <2> QED BY <2>1, <2>2, <2>3, <2>4, <2>6 DEF Next
<1> QED BY <1>1, <1>2, <1>3, <1>4, TypeCorrect, PTL
        DEF Spec, ImplementsReadiness, Readiness!Spec, It, Copies, Completions
=============================================================================
