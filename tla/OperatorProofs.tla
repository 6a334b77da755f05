---------------------------- MODULE OperatorProofs ----------------------------
(***************************************************************************)
(* Type correctness of Operator, and what it promises about the notices,    *)
(* for every set of messages and every retry limit.  The invariant follows  *)
(* one notice: each try that came in is counted in retries before the next  *)
(* one is made, so a try is only made below the limit.                      *)
(***************************************************************************)
EXTENDS Operator, TLAPS

\* What holds of one notice.
PostInv(p) ==
  /\ p.got <= p.retries + 1 /\ p.got <= RetryLimit
  /\ p.pc \in {"new", "send", "sleep"} => p.got <= p.retries
  /\ p.pc = "new" => p.retries = 0
  /\ p.pc = "send" => p.retries < RetryLimit
  /\ p.heard => p.pc = "done"
  /\ p.pc = "done" => p.heard \/ p.retries = RetryLimit

IndInv == PostsOK /\ \A m \in Messages : PostInv(posts[m])

\* Every step of a notice, as one relation between its two records.
Step(p, q) ==
  \/ q = p
  \/ p.pc = "new" /\ \E url \in Urls : q = [p EXCEPT !.pc = "send", !.url = url]
  \/ /\ p.pc = "send"
     /\ \E r \in {Heard(p), Failed(p), [p EXCEPT !.pc = "hung"]} : q = [r EXCEPT !.got = @ + 1]
  \/ p.pc = "send" /\ q = Failed(p)
  \/ p.pc = "sleep" /\ q = [p EXCEPT !.pc = IF MoreTries(p) THEN "send" ELSE "done"]
  \/ p.pc \in {"send", "sleep", "hung"} /\ q = [p EXCEPT !.pc = "cut"]

\* A step of a notice keeps its record well formed and its invariant, and
\* does not deliver a notice that was heard.
LEMMA StepKeeps ==
  ASSUME NEW p \in Post, NEW q, PostInv(p), Step(p, q)
  PROVE  q \in Post /\ PostInv(q) /\ (p.heard => q.got = p.got)
<1> USE CallbackAssumption
<1>0. /\ p.pc \in {"new", "send", "sleep", "hung", "done", "cut"} /\ p.url \in Urls
      /\ p.retries \in 0 .. RetryLimit /\ p.got \in Nat /\ p.heard \in BOOLEAN
  BY DEF Post
<1> DEFINE Is(r, c, u, n, g, h) == r = [pc |-> c, url |-> u, retries |-> n, got |-> g, heard |-> h]
<1>a. ASSUME NEW c \in {"new", "send", "sleep", "hung", "done", "cut"}, NEW u \in Urls,
             NEW n \in 0 .. RetryLimit, NEW g \in Nat, NEW h \in BOOLEAN, Is(q, c, u, n, g, h)
      PROVE  /\ q \in Post
             /\ q.pc = c /\ q.retries = n /\ q.got = g /\ q.heard = h
  BY <1>a DEF Post
<1>b. Is(p, p.pc, p.url, p.retries, p.got, p.heard)
  BY DEF Post
<1>1. CASE q = p
  BY <1>1
<1>2. CASE p.pc = "new" /\ \E url \in Urls : q = [p EXCEPT !.pc = "send", !.url = url]
  <2>1. PICK url \in Urls : q = [p EXCEPT !.pc = "send", !.url = url]
    BY <1>2
  <2>2. Is(q, "send", url, p.retries, p.got, p.heard)
    BY <1>b, <2>1
  <2>3. p.retries = 0
    BY <1>2 DEF PostInv
  <2>4. q \in Post /\ q.pc = "send" /\ q.retries = p.retries /\ q.got = p.got /\ q.heard = p.heard
    BY <1>0, <1>a, <2>2
  <2>5. QED  BY <1>0, <1>2, <2>3, <2>4 DEF PostInv
<1>3. CASE /\ p.pc = "send"
           /\ \E r \in {Heard(p), Failed(p), [p EXCEPT !.pc = "hung"]} :
                q = [r EXCEPT !.got = @ + 1]
  <2>0. p.retries + 1 \in 0 .. RetryLimit /\ p.got + 1 \in Nat
    BY <1>0, <1>3 DEF PostInv
  <2>1. CASE q = [Heard(p) EXCEPT !.got = @ + 1]
    <3>1. Is(q, "done", p.url, p.retries, p.got + 1, TRUE)
      BY <1>b, <2>1 DEF Heard
    <3>2. q \in Post /\ q.pc = "done" /\ q.retries = p.retries /\ q.got = p.got + 1 /\ q.heard = TRUE
      BY <1>0, <1>a, <2>0, <3>1
    <3>3. QED  BY <1>0, <1>3, <2>0, <3>2 DEF PostInv
  <2>2. CASE q = [Failed(p) EXCEPT !.got = @ + 1]
    <3>1. Is(q, "sleep", p.url, p.retries + 1, p.got + 1, p.heard)
      BY <1>b, <2>2 DEF Failed
    <3>2. q \in Post /\ q.pc = "sleep" /\ q.retries = p.retries + 1 /\ q.got = p.got + 1 /\ q.heard = p.heard
      BY <1>0, <1>a, <2>0, <3>1
    <3>3. QED  BY <1>0, <1>3, <2>0, <3>2 DEF PostInv
  <2>3. CASE q = [[p EXCEPT !.pc = "hung"] EXCEPT !.got = @ + 1]
    <3>1. Is(q, "hung", p.url, p.retries, p.got + 1, p.heard)
      BY <1>b, <2>3
    <3>2. q \in Post /\ q.pc = "hung" /\ q.retries = p.retries /\ q.got = p.got + 1 /\ q.heard = p.heard
      BY <1>0, <1>a, <2>0, <3>1
    <3>3. QED  BY <1>0, <1>3, <2>0, <3>2 DEF PostInv
  <2>4. QED  BY <1>3, <2>1, <2>2, <2>3
<1>4. CASE p.pc = "send" /\ q = Failed(p)
  <2>1. Is(q, "sleep", p.url, p.retries + 1, p.got, p.heard)
    BY <1>b, <1>4 DEF Failed
  <2>2. p.retries + 1 \in 0 .. RetryLimit
    BY <1>0, <1>4 DEF PostInv
  <2>3. q \in Post /\ q.pc = "sleep" /\ q.retries = p.retries + 1 /\ q.got = p.got /\ q.heard = p.heard
    BY <1>0, <1>a, <2>1, <2>2
  <2>4. QED  BY <1>0, <1>4, <2>2, <2>3 DEF PostInv
<1>5. CASE p.pc = "sleep" /\ q = [p EXCEPT !.pc = IF MoreTries(p) THEN "send" ELSE "done"]
  <2>1. Is(q, IF MoreTries(p) THEN "send" ELSE "done", p.url, p.retries, p.got, p.heard)
    BY <1>b, <1>5
  <2>2. /\ q \in Post /\ q.retries = p.retries /\ q.got = p.got /\ q.heard = p.heard
        /\ q.pc = IF MoreTries(p) THEN "send" ELSE "done"
    BY <1>0, <1>a, <2>1
  <2>3. QED  BY <1>0, <1>5, <2>2 DEF PostInv, MoreTries
<1>6. CASE p.pc \in {"send", "sleep", "hung"} /\ q = [p EXCEPT !.pc = "cut"]
  <2>1. Is(q, "cut", p.url, p.retries, p.got, p.heard)
    BY <1>b, <1>6
  <2>2. QED  BY <1>0, <1>6, <1>a, <2>1 DEF PostInv
<1>7. QED  BY <1>1, <1>2, <1>3, <1>4, <1>5, <1>6 DEF Step

\* Whatever the process does, each notice makes one such step.
LEMMA NextSteps ==
  ASSUME PostsOK, [Next]_vars
  PROVE  /\ posts' = [m \in Messages |-> posts'[m]]
         /\ \A m \in Messages : Step(posts[m], posts'[m])
<1> USE DEF PostsOK
<1>1. CASE UNCHANGED posts
  BY <1>1 DEF Step
<1>2. ASSUME CutOff
      PROVE  /\ posts' = [m \in Messages |-> posts'[m]]
             /\ \A m \in Messages : Step(posts[m], posts'[m])
  BY <1>2 DEF CutOff, Alive, Step
<1>3. ASSUME NEW k \in Controllers, NEW n \in Messages, HandOut(k, n)
      PROVE  /\ posts' = [m \in Messages |-> posts'[m]]
             /\ \A m \in Messages : Step(posts[m], posts'[m])
  <2>1. PICK url \in Urls : DoCallback(n, url)
    BY <1>3 DEF HandOut
  <2>2. posts' = [posts EXCEPT ![n] = [@ EXCEPT !.pc = "send", !.url = url]]
    BY <2>1 DEF DoCallback, Post
  <2>3. Step(posts[n], posts'[n])
    BY <2>1, <2>2 DEF DoCallback, Step
  <2>4. QED  BY <2>2, <2>3 DEF Step
<1>4. ASSUME NEW n \in Messages, PostStep(n)
      PROVE  /\ posts' = [m \in Messages |-> posts'[m]]
             /\ \A m \in Messages : Step(posts[m], posts'[m])
  <2>1. CASE Received(n)
    <3>1. PICK r \in {Heard(posts[n]), Failed(posts[n]), [posts[n] EXCEPT !.pc = "hung"]} :
            posts' = [posts EXCEPT ![n] = [r EXCEPT !.got = @ + 1]]
      BY <2>1 DEF Received
    <3>2. posts'[n] = [r EXCEPT !.got = @ + 1]
      BY <3>1
    <3>3. Step(posts[n], posts'[n])
      BY <2>1, <3>2 DEF Received, Step
    <3>4. QED  BY <3>1, <3>3 DEF Step
  <2>2. CASE Unreachable(n)
    BY <2>2 DEF Unreachable, Step
  <2>3. CASE WakeUp(n)
    <3>1. posts' = [posts EXCEPT ![n] = [@ EXCEPT !.pc = IF MoreTries(posts[n]) THEN "send" ELSE "done"]]
      BY <2>3 DEF WakeUp, Post
    <3>2. posts'[n] = [posts[n] EXCEPT !.pc = IF MoreTries(posts[n]) THEN "send" ELSE "done"]
      BY <3>1
    <3>3. Step(posts[n], posts'[n])
      BY <2>3, <3>2 DEF WakeUp, Step
    <3>4. QED  BY <3>1, <3>3 DEF Step
  <2>4. QED  BY <1>4, <2>1, <2>2, <2>3 DEF PostStep
<1>5. CASE Boot \/ BootWithoutConfig \/ CreateCRD \/ Start \/ StartWithoutClient \/ UNCHANGED vars
  BY <1>1, <1>5 DEF Boot, BootWithoutConfig, CreateCRD, Start, StartWithoutClient, vars
<1>6. CASE Kill \/ \E m \in Messages : Panic(m)
  BY <1>2, <1>6 DEF Kill, Panic
<1>7. CASE \E k \in Controllers : Sync(k)
  BY <1>1, <1>7 DEF Sync
<1>8. QED  BY <1>3, <1>4, <1>5, <1>6, <1>7 DEF Next

\* The invariant holds from the start and through every step.
LEMMA Inductive ==
  /\ Init => IndInv
  /\ IndInv /\ [Next]_vars => IndInv'
<1>1. ASSUME Init
      PROVE  IndInv
  BY <1>1, CallbackAssumption
     DEF Init, PostsInit, Unsent, IndInv, PostsOK, PostInv, Post, Urls
<1>2. ASSUME IndInv, [Next]_vars
      PROVE  IndInv'
  <2>1. \A m \in Messages : posts'[m] \in Post /\ PostInv(posts'[m])
    BY <1>2, NextSteps, StepKeeps DEF IndInv, PostsOK
  <2>2. posts' = [m \in Messages |-> posts'[m]]
    BY <1>2, NextSteps DEF IndInv
  <2>3. QED  BY <2>1, <2>2 DEF IndInv, PostsOK
<1>3. QED  BY <1>1, <1>2

THEOREM Invariance == Spec => []IndInv
BY Inductive, PTL DEF Spec

\* TypeOK, which the process keeps besides: a definition past the last one is
\* never created (root.go:69-140).
THEOREM OperatorTypeCorrect == Spec => []TypeOK
<1> DEFINE ProcessOK == /\ at \in {"down", "setup", "up"} /\ next \in 1 .. Len(CRDs) + 1
                        /\ crds \subseteq Kinds
                        /\ controller \in [Controllers -> {"none", "syncing", "working"}]
                        /\ stops \in Nat
<1>0. Len(CRDs) = 4 /\ Kinds = {CRDs[1], CRDs[2], CRDs[3], CRDs[4]}
  BY DEF CRDs, Kinds
<1>1. Init => ProcessOK
  BY <1>0 DEF Init, NoControllers, Controllers
<1>2. ProcessOK /\ [Next]_vars => ProcessOK'
  <2> SUFFICES ASSUME ProcessOK, [Next]_vars PROVE ProcessOK'
    OBVIOUS
  <2>1. CASE Boot
    BY <1>0, <2>1 DEF Boot
  <2>2. ASSUME Ends
        PROVE  ProcessOK'
    BY <1>0, <2>2 DEF Ends, NoControllers
  <2>3. CASE CreateCRD
    <3>1. next \in 1 .. 4 /\ CRDs[next] \in Kinds
      BY <1>0, <2>3 DEF CreateCRD
    <3>2. QED  BY <1>0, <2>3, <3>1 DEF CreateCRD
  <2>4. CASE Start
    BY <1>0, <2>4 DEF Start
  <2>5. ASSUME NEW k \in Controllers, Sync(k)
        PROVE  ProcessOK'
    BY <1>0, <2>5 DEF Sync
  <2>6. CASE UNCHANGED processVars
    BY <1>0, <2>6 DEF processVars
  <2>7. QED
    BY <2>1, <2>2, <2>3, <2>4, <2>5, <2>6
       DEF Next, vars, BootWithoutConfig, StartWithoutClient, Kill, Panic, PostStep, HandOut
<1>3. IndInv /\ ProcessOK => TypeOK
  BY DEF IndInv, TypeOK
<1>4. QED  BY Invariance, <1>1, <1>2, <1>3, PTL DEF Spec

\* NoEarlyGiveUp (callback.go:36-62): whatever kills the process and however
\* the tries end, no goroutine gives its notice up before the last try.
THEOREM NotGivenUpEarly == Spec => []NoEarlyGiveUp
<1>1. IndInv => NoEarlyGiveUp
  BY DEF IndInv, PostInv, NoEarlyGiveUp
<1>2. QED  BY Invariance, <1>1, PTL

\* BoundedCopies (callback.go:36-62): a receiver whose answers are all lost
\* gets a notice RetryLimit times and not once more.
THEOREM CopiesAreBounded == Spec => []BoundedCopies
<1>1. IndInv => BoundedCopies
  BY DEF IndInv, PostInv, BoundedCopies
<1>2. QED  BY Invariance, <1>1, PTL

\* HeardIsLast (callback.go:52-55): after a 200 the notice is not sent again.
THEOREM HeardIsTheLast == Spec => HeardIsLast
<1>1. IndInv /\ [Next]_vars =>
        [\A m \in Messages : posts[m].heard => posts'[m].got = posts[m].got]_posts
  BY NextSteps, StepKeeps DEF IndInv, PostsOK
<1>2. QED  BY Invariance, <1>1, PTL DEF Spec, HeardIsLast
=============================================================================
