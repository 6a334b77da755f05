------------------------- MODULE ClusterInstallProofs -------------------------
(***************************************************************************)
(* Theorems about the token of ClusterInstall, for any bundles, any number *)
(* of waiters at once, of touches, of missing kubeconfigs and of stops.    *)
(*                                                                         *)
(* What a waiter creates before the token does not matter to it, so        *)
(* nothing is said of the entry it is at but that it is a field of it.     *)
(***************************************************************************)
EXTENDS ClusterInstall, TLAPS

\* The fields a waiter has; only those about the token are looked at.
Fields == {"pc", "fresh", "next", "at", "named", "token"}

Shapes ==
  /\ trouble \in Troubles
  /\ account \in [Places -> {"none", "bare", "token"}]
  /\ DOMAIN waiter = Slots /\ \A s \in Slots : DOMAIN waiter[s] = Fields

Before == {"idle", "read", "list", "look", "create", "account"}
InCreateSDSToken == {"bind", "name", "secret", "keep"}

\* How far a waiter has come with its token when no call has failed: there is an
\* account where it looks for one, it has its role before it is named, and a token
\* is told only when it is of such an account.
TokenOK(x) ==
  /\ x.pc \in Before \cup {"bind", "name", "secret"} => x.token = "empty"
  /\ x.pc \in InCreateSDSToken => x.at \in ConfigAnswers \cap Places
  /\ x.pc \in {"bind", "name"} => account[x.at] # "none"
  /\ x.pc \in {"name", "secret", "keep"} => x.at \in bound
  /\ x.pc = "secret" => x.named
  /\ x.pc = "keep" => x.token = x.at
  /\ x.pc = "tell" /\ x.token # "empty" => x.token \in bound \cap Places

\* The role comes before the notice.
BoundInv ==
  trouble.calls = 0 =>
    /\ \A s \in Slots : TokenOK(waiter[s])
    /\ told \ {"empty"} \subseteq bound \cap Places

\* A token that is about to be told, or was, is the one kept.
KeptInv ==
  trouble.calls = 0 =>
    /\ saved \in {"none"} \cup (ConfigAnswers \cap Places)
    /\ \A s \in Slots :
         waiter[s].pc = "tell" /\ waiter[s].token # "empty" => waiter[s].token = saved
    /\ \A t \in told \ {"empty"} : saved = t

\* There is one cluster to keep a token of: an empty kubeconfig, which stands for
\* the management cluster, does not come between good ones.
OnePlace == \E p \in Places : ConfigAnswers \subseteq {p, "fail"}

-----------------------------------------------------------------------------

\* A call that fails is counted for good.
LEMMA Counted ==
  ASSUME Shapes, [Next]_vars, trouble'.calls = 0
  PROVE  trouble.calls = 0
<1>1. Fails => FALSE
  BY DEF Fails, Shapes, Troubles
<1> QED BY <1>1 DEF Next, Handle, vars, Touch, Deliver, Restart, GiveToken, Start, ReadFresh,
     ListBundles, Look, CreateEntry, CreateAccount, BindAccount, NameToken, ReadToken,
     KeepToken, TellCompleted, SaveReady, Answered, Shapes, Troubles

\* A turn of waiter s: it stays a waiter, and the others stay as they are.
Turn(s) ==
  /\ DOMAIN waiter' = Slots /\ DOMAIN waiter'[s] = Fields
  /\ \A t \in Slots : t # s => waiter'[t] = waiter[t]

AllIdle == waiter' = [s \in Slots |-> Idle]

\* What a handler does is a turn of its waiter, or a panic.
LEMMA Turns ==
  ASSUME Shapes, NEW s \in Slots, Handle(s)
  PROVE  Turn(s) \/ AllIdle
<1> USE DEF Shapes, Turn, Fields
<1>1. CASE Start(s)
  BY <1>1 DEF Start, Goto
<1>2. CASE ReadFresh(s)
  BY <1>2 DEF ReadFresh, Again, Idle
<1>3. CASE ListBundles(s)
  BY <1>3 DEF ListBundles, Continue
<1>4. CASE Look(s)
  BY <1>4 DEF Look, Continue, Goto
<1>5. CASE CreateEntry(s)
  BY <1>5 DEF CreateEntry, Continue
<1>6. CASE CreateAccount(s)
  BY <1>6 DEF CreateAccount, Goto
<1>7. CASE BindAccount(s)
  BY <1>7 DEF BindAccount, Goto
<1>8. CASE ReadToken(s)
  BY <1>8 DEF ReadToken
<1>9. CASE KeepToken(s)
  BY <1>9 DEF KeepToken, Goto
<1>10. CASE TellCompleted(s)
  BY <1>10 DEF TellCompleted, Goto
<1>11. CASE SaveReady(s)
  BY <1>11 DEF SaveReady, Again, Idle
<1>12. CASE NameToken(s)
  BY <1>12 DEF NameToken, Starts, AllIdle
<1> QED BY <1>1, <1>2, <1>3, <1>4, <1>5, <1>6, <1>7, <1>8, <1>9, <1>10, <1>11, <1>12 DEF Handle

\* Every step keeps the shapes.
LEMMA ShapesKept == Shapes /\ [Next]_vars => Shapes'
<1> SUFFICES ASSUME Shapes, [Next]_vars PROVE Shapes' OBVIOUS
<1>1. trouble' \in Troubles
  <2> USE InstallAssumption DEF Shapes, Troubles
  <2>1. Fails => trouble' \in Troubles
    <3> SUFFICES ASSUME Fails PROVE trouble' \in Troubles OBVIOUS
    <3>1. trouble.calls + 1 \in 0 .. MaxFails
      BY DEF Fails
    <3> QED BY <3>1 DEF Fails
  <2>2. Restart => trouble' \in Troubles
    <3> SUFFICES ASSUME Restart PROVE trouble' \in Troubles OBVIOUS
    <3>1. trouble.stops + 1 \in 0 .. MaxStops
      BY DEF Restart
    <3> QED BY <3>1 DEF Restart
  <2>3. [trouble EXCEPT !.config = TRUE] \in Troubles /\ trouble \in Troubles
    BY DEF Shapes, Troubles
  <2> QED BY <2>1, <2>2, <2>3 DEF Next, Handle, vars, Touch, Deliver, GiveToken, Start, ReadFresh,
          ListBundles, Look, CreateEntry, CreateAccount, BindAccount, NameToken, ReadToken,
          KeepToken, TellCompleted, SaveReady, Answered
<1>2. account' \in [Places -> {"none", "bare", "token"}]
  <2>1. ASSUME NEW p \in Places, GiveToken(p)
        PROVE  account' \in [Places -> {"none", "bare", "token"}]
    BY <2>1 DEF GiveToken, Shapes
  <2>2. ASSUME NEW s \in Slots, CreateAccount(s)
        PROVE  account' \in [Places -> {"none", "bare", "token"}]
    BY <2>2 DEF CreateAccount, Shapes
  <2> QED BY <2>1, <2>2 DEF Next, Handle, vars, Touch, Deliver, Restart, Start, ReadFresh,
          ListBundles, Look, CreateEntry, BindAccount, NameToken, ReadToken,
          KeepToken, TellCompleted, SaveReady, Shapes
<1>3. DOMAIN waiter' = Slots /\ \A s \in Slots : DOMAIN waiter'[s] = Fields
  <2>1. CASE UNCHANGED waiter
    BY <2>1 DEF Shapes
  <2>2. CASE AllIdle
    BY <2>2 DEF AllIdle, Idle, Fields
  <2>3. ASSUME NEW s \in Slots, Turn(s)
        PROVE  DOMAIN waiter' = Slots /\ \A t \in Slots : DOMAIN waiter'[t] = Fields
    BY <2>3 DEF Turn, Shapes
  <2> QED BY <2>1, <2>2, <2>3, Turns
        DEF Next, vars, Touch, Deliver, Restart, GiveToken, Starts, AllIdle
<1> QED BY <1>1, <1>2, <1>3 DEF Shapes

\* Accounts and their roles stay, so a waiter that does nothing is still right.
LEMMA Stays ==
  ASSUME Shapes, [Next]_vars, NEW s \in Slots, TokenOK(waiter[s]), waiter'[s] = waiter[s]
  PROVE  TokenOK(waiter[s])'
<1>1. bound \subseteq bound'
  BY DEF Next, Handle, vars, Touch, Deliver, Restart, GiveToken, Start, ReadFresh,
     ListBundles, Look, CreateEntry, CreateAccount, BindAccount, NameToken, ReadToken,
     KeepToken, TellCompleted, SaveReady
<1>2. \A p \in Places : account[p] # "none" => account'[p] # "none"
  <2>1. ASSUME NEW q \in Places, GiveToken(q)
        PROVE  \A p \in Places : account[p] # "none" => account'[p] # "none"
    BY <2>1 DEF GiveToken, Shapes
  <2>2. ASSUME NEW t \in Slots, CreateAccount(t)
        PROVE  \A p \in Places : account[p] # "none" => account'[p] # "none"
    BY <2>2 DEF CreateAccount, Shapes
  <2> QED BY <2>1, <2>2 DEF Next, Handle, vars, Touch, Deliver, Restart, Start, ReadFresh,
          ListBundles, Look, CreateEntry, BindAccount, NameToken, ReadToken,
          KeepToken, TellCompleted, SaveReady
<1> QED BY <1>1, <1>2 DEF TokenOK, InCreateSDSToken

\* A waiter whose calls are answered is right after its turn.
LEMMA TurnOK ==
  ASSUME Shapes, NEW s \in Slots, Handle(s), trouble.calls = 0, trouble'.calls = 0,
         TokenOK(waiter[s])
  PROVE  TokenOK(waiter[s])'
<1> USE InstallAssumption
<1> USE DEF Shapes, Fields, TokenOK, Before, InCreateSDSToken, Troubles
<1>1. CASE Start(s)
  BY <1>1 DEF Start, Goto
<1>2. CASE ReadFresh(s)
  BY <1>2 DEF ReadFresh, Answered, Fails, Again, Idle
<1>3. CASE ListBundles(s)
  BY <1>3 DEF ListBundles, Answered, Fails, Continue
<1>4. CASE Look(s)
  BY <1>4 DEF Look, Answered, Fails, Continue, Goto
<1>5. CASE CreateEntry(s)
  BY <1>5 DEF CreateEntry, Answered, Fails, Continue
<1>6. CASE CreateAccount(s)
  BY <1>6 DEF CreateAccount, Answered, Fails, Goto
<1>7. CASE BindAccount(s)
  BY <1>7 DEF BindAccount, Answered, Fails, Goto
<1>8. CASE ReadToken(s)
  <2>1. waiter[s].pc = "secret" /\ waiter[s].named
    BY <1>8 DEF ReadToken
  <2>2. ~Fails
    BY DEF Fails
  <2>3. /\ waiter' = [waiter EXCEPT ![s].pc = "keep", ![s].token = waiter[s].at]
        /\ UNCHANGED <<account, bound>>
    BY <1>8, <2>1, <2>2 DEF ReadToken
  <2>4. /\ waiter'[s].pc = "keep" /\ waiter'[s].token = waiter[s].at
        /\ waiter'[s].at = waiter[s].at
    BY <2>3
  <2> QED BY <2>1, <2>3, <2>4
<1>9. CASE KeepToken(s)
  BY <1>9 DEF KeepToken, Answered, Fails, Goto
<1>10. CASE TellCompleted(s)
  BY <1>10 DEF TellCompleted, Goto
<1>11. CASE SaveReady(s)
  BY <1>11 DEF SaveReady, Answered, Fails, Again, Idle
<1>12. CASE NameToken(s)
  BY <1>12 DEF NameToken, Answered, Fails, Starts, Idle, AllIdle
<1> QED BY <1>1, <1>2, <1>3, <1>4, <1>5, <1>6, <1>7, <1>8, <1>9, <1>10, <1>11, <1>12 DEF Handle

\* What a waiter does to the token that is kept and to those that were told.
LEMMA TokenMoves ==
  ASSUME Shapes, [Next]_vars, trouble'.calls = 0
  PROVE  \/ UNCHANGED <<saved, told>>
         \/ \E s \in Slots : (KeepToken(s) \/ TellCompleted(s)) /\ Turn(s)
<1>1. \A s \in Slots : KeepToken(s) \/ TellCompleted(s) => Turn(s)
  BY DEF KeepToken, TellCompleted, Goto, Turn, Shapes, Fields
<1> QED BY <1>1 DEF Next, Handle, vars, Touch, Deliver, Restart, GiveToken, Start, ReadFresh,
      ListBundles, Look, CreateEntry, CreateAccount, BindAccount, NameToken, ReadToken,
      SaveReady

\* The inductive step of BoundInv.
LEMMA BoundKept ==
  ASSUME Shapes, BoundInv, [Next]_vars
  PROVE  BoundInv'
<1> SUFFICES ASSUME trouble'.calls = 0
             PROVE  /\ \A s \in Slots : TokenOK(waiter[s])'
                    /\ told' \ {"empty"} \subseteq bound' \cap Places
  BY DEF BoundInv
<1>1. trouble.calls = 0
  BY Counted
<1>2. /\ \A s \in Slots : TokenOK(waiter[s])
      /\ told \ {"empty"} \subseteq bound \cap Places
  BY <1>1 DEF BoundInv
<1>3. ASSUME NEW s \in Slots PROVE TokenOK(waiter[s])'
  <2>1. CASE waiter'[s] = waiter[s]
    BY <1>2, <2>1, Stays
  <2>2. CASE AllIdle
    <3>1. waiter'[s] = Idle
      BY <2>2 DEF AllIdle
    <3> QED BY <3>1 DEF TokenOK, Idle, Before, InCreateSDSToken
  <2>3. CASE Handle(s)
    BY <1>1, <1>2, <2>3, TurnOK
  <2>4. ASSUME NEW t \in Slots, t # s, Handle(t)
        PROVE  waiter'[s] = waiter[s] \/ AllIdle
    BY <2>4, Turns DEF Turn
  <2> QED BY <2>1, <2>2, <2>3, <2>4
        DEF Next, vars, Touch, Deliver, Restart, GiveToken, Starts, AllIdle
<1>4. bound \subseteq bound'
  BY DEF Next, Handle, vars, Touch, Deliver, Restart, GiveToken, Start, ReadFresh,
     ListBundles, Look, CreateEntry, CreateAccount, BindAccount, NameToken, ReadToken,
     KeepToken, TellCompleted, SaveReady
<1>5. told' \ {"empty"} \subseteq bound' \cap Places
  <2>1. ASSUME NEW s \in Slots, TellCompleted(s)
        PROVE  told' \ {"empty"} \subseteq bound' \cap Places
    <3>1. TokenOK(waiter[s]) /\ waiter[s].pc = "tell" /\ told' = told \cup {waiter[s].token}
      BY <1>2, <2>1 DEF TellCompleted
    <3> QED BY <1>2, <1>4, <3>1 DEF TokenOK, Places
  <2>2. ASSUME NEW s \in Slots, KeepToken(s) PROVE told' = told
    BY <2>2 DEF KeepToken
  <2> QED BY <1>2, <1>4, <2>1, <2>2, TokenMoves
<1> QED BY <1>3, <1>5

\* Only a waiter that has tried to keep its token comes to tell one.
LEMMA NothingToTell ==
  ASSUME Shapes, NEW s \in Slots, Handle(s), ~KeepToken(s), TokenOK(waiter[s])
  PROVE  AllIdle \/ (waiter'[s].pc = "tell" => waiter'[s].token = "empty")
<1> USE DEF Shapes, Fields
<1>1. waiter[s].pc = "account" => waiter[s].token = "empty"
  BY DEF TokenOK, Before
<1>2. CASE Start(s)
  BY <1>2 DEF Start, Goto
<1>3. CASE ReadFresh(s)
  BY <1>3 DEF ReadFresh, Again, Idle
<1>4. CASE ListBundles(s)
  BY <1>4 DEF ListBundles, Continue
<1>5. CASE Look(s)
  BY <1>5 DEF Look, Continue, Goto
<1>6. CASE CreateEntry(s)
  BY <1>6 DEF CreateEntry, Continue
<1>7. CASE CreateAccount(s)
  BY <1>1, <1>7 DEF CreateAccount, Goto
<1>8. CASE BindAccount(s)
  BY <1>8 DEF BindAccount, Goto
<1>9. CASE ReadToken(s)
  BY <1>9 DEF ReadToken
<1>10. CASE TellCompleted(s)
  BY <1>10 DEF TellCompleted, Goto
<1>11. CASE SaveReady(s)
  BY <1>11 DEF SaveReady, Again, Idle
<1>12. CASE NameToken(s)
  BY <1>12 DEF NameToken, Starts, AllIdle
<1> QED BY <1>2, <1>3, <1>4, <1>5, <1>6, <1>7, <1>8, <1>9, <1>10, <1>11, <1>12 DEF Handle

\* The inductive step of KeptInv.
LEMMA KeptKept ==
  ASSUME OnePlace, Shapes, BoundInv, KeptInv, [Next]_vars
  PROVE  KeptInv'
<1> SUFFICES ASSUME trouble'.calls = 0
             PROVE  /\ saved' \in {"none"} \cup (ConfigAnswers \cap Places)
                    /\ \A s \in Slots : waiter'[s].pc = "tell" /\ waiter'[s].token # "empty" =>
                                         waiter'[s].token = saved'
                    /\ \A t \in told' \ {"empty"} : saved' = t
  BY DEF KeptInv
<1>1. trouble.calls = 0
  BY Counted
<1>2. /\ saved \in {"none"} \cup (ConfigAnswers \cap Places)
      /\ \A s \in Slots :
         waiter[s].pc = "tell" /\ waiter[s].token # "empty" => waiter[s].token = saved
      /\ \A t \in told \ {"empty"} : saved = t
      /\ told \ {"empty"} \subseteq Places
      /\ \A s \in Slots : TokenOK(waiter[s])
  BY <1>1 DEF KeptInv, BoundInv
\* The kept token when a waiter is about to keep, or has kept, one of its own.
<1>3. ASSUME NEW s \in Slots, KeepToken(s), Turn(s)
      PROVE  /\ saved' = waiter[s].token /\ saved' \in ConfigAnswers \cap Places
             /\ waiter'[s].token = waiter[s].token
             /\ saved # "none" => saved' = saved
             /\ told' = told
  <2>1. waiter[s].token \in ConfigAnswers \cap Places
    BY <1>2, <1>3 DEF KeepToken, TokenOK, InCreateSDSToken
  <2>2. \A x, y \in ConfigAnswers \cap Places : x = y
    BY DEF OnePlace, Places
  <2>3. ~Fails
    BY DEF Fails, Shapes, Troubles
  <2>4. saved' = IF saved = "none" THEN waiter[s].token ELSE saved
    BY <1>3, <2>3 DEF KeepToken
  <2>5. waiter'[s].token = waiter[s].token
    BY <1>3 DEF KeepToken, Goto, Shapes, Fields
  <2> QED BY <1>2, <1>3, <2>1, <2>2, <2>4, <2>5 DEF KeepToken
<1>4. ASSUME NEW s \in Slots, KeepToken(s), Turn(s)
      PROVE  KeptInv'
  <2>1. \A t \in Slots : waiter'[t].pc = "tell" /\ waiter'[t].token # "empty" =>
                       waiter'[t].token = saved'
    <3> SUFFICES ASSUME NEW t \in Slots, waiter'[t].pc = "tell", waiter'[t].token # "empty"
                 PROVE  waiter'[t].token = saved'
      OBVIOUS
    <3>1. CASE t = s
      BY <1>3, <1>4, <3>1
    <3>2. CASE t # s
      <4>1. waiter'[t] = waiter[t]
        BY <1>4, <3>2 DEF Turn
      <4>2. waiter[t].token = saved /\ waiter[t].token \in Places
        BY <1>2, <4>1 DEF TokenOK
      <4> QED BY <1>3, <1>4, <4>1, <4>2 DEF Places
    <3> QED BY <3>1, <3>2
  <2>2. \A t \in told' \ {"empty"} : saved' = t
    BY <1>2, <1>3, <1>4 DEF Places
  <2> QED BY <1>3, <1>4, <2>1, <2>2 DEF KeptInv
<1>5. CASE \A s \in Slots : ~KeepToken(s)
  <2>1. saved' = saved
    BY <1>5, TokenMoves DEF TellCompleted
  <2>2. ASSUME NEW t \in Slots, waiter'[t].pc = "tell", waiter'[t].token # "empty"
        PROVE  waiter'[t].token = saved'
    <3>1. AllIdle => waiter'[t].pc # "tell"
      BY DEF AllIdle, Idle
    <3>2. CASE waiter'[t] = waiter[t]
      BY <1>2, <2>1, <2>2, <3>2
    <3>3. CASE Handle(t)
      BY <1>2, <1>5, <2>2, <3>1, <3>3, NothingToTell
    <3>4. ASSUME NEW s \in Slots, s # t, Handle(s)
          PROVE  waiter'[t] = waiter[t] \/ AllIdle
      BY <3>4, Turns DEF Turn
    <3> QED BY <2>2, <3>1, <3>2, <3>3, <3>4
          DEF Next, vars, Touch, Deliver, Restart, GiveToken, Starts, AllIdle
  <2>3. \A t \in told' \ {"empty"} : saved' = t
    <3>1. CASE told' = told
      BY <1>2, <2>1, <3>1
    <3>2. ASSUME NEW s \in Slots, TellCompleted(s)
          PROVE  \A t \in told' \ {"empty"} : saved' = t
      BY <1>2, <2>1, <3>2 DEF TellCompleted
    <3> QED BY <1>5, <3>1, <3>2, TokenMoves
  <2> QED BY <1>2, <2>1, <2>2, <2>3 DEF KeptInv
<1>6. \A s \in Slots : KeepToken(s) => Turn(s)
  BY DEF KeepToken, Goto, Turn, Shapes, Fields
<1> QED BY <1>4, <1>5, <1>6 DEF KeptInv

-----------------------------------------------------------------------------

\* The parts of the invariant that hold wherever kubeconfigs point.
LEMMA Bounds == Spec => [](Shapes /\ BoundInv)
<1>1. Init => Shapes /\ BoundInv
  BY InstallAssumption
     DEF Init, Shapes, BoundInv, TokenOK, Troubles, None, Idle, Fields, Before, InCreateSDSToken
<1>2. Shapes /\ BoundInv /\ [Next]_vars => (Shapes /\ BoundInv)'
  BY ShapesKept, BoundKept
<1> QED BY <1>1, <1>2, PTL DEF Spec

\* Half of CompletedIsUsable: as long as no call has failed, a token that comes
\* with a Completed notice has its role, however many waiters run into each other,
\* and whatever kubeconfigs, panics of CreateSDSToken and stops do.
THEOREM ToldIsBound == Spec => [](trouble.calls = 0 => told \cap Places \subseteq bound)
<1>1. Shapes /\ BoundInv => (trouble.calls = 0 => told \cap Places \subseteq bound)
  BY DEF BoundInv, Places
<1> QED BY <1>1, Bounds, PTL

\* As long as no call has failed, and the kubeconfig does not point now here, now
\* there, the token of every Completed notice is the one kept in the secret of the
\* cluster (CreateSecret never replaces what another waiter or an earlier start kept).
THEOREM ToldIsKept == OnePlace => (Spec => []ToldTokenIsKept)
<1> SUFFICES ASSUME OnePlace PROVE Spec => []ToldTokenIsKept
  OBVIOUS
<1>1. Init => KeptInv
  BY DEF Init, KeptInv, None, Idle
<1>2. Shapes /\ BoundInv /\ KeptInv /\ [Next]_vars => KeptInv'
  BY KeptKept
<1>3. KeptInv => ToldTokenIsKept
  BY DEF KeptInv, ToldTokenIsKept
<1> QED BY <1>1, <1>2, <1>3, Bounds, PTL DEF Spec
=============================================================================
