------------------------------ MODULE Callbacks ------------------------------
(***************************************************************************)
(* The notices of pkg/util/sds/callback.  DoCallback starts a goroutine     *)
(* that PUTs the message to the URL of an annotation, up to                 *)
(* CallbackRetryLimit times with ten minutes between, until one try is      *)
(* answered with 200.  Nothing of it is stored: a process that stops takes  *)
(* its posts with it.                                                       *)
(***************************************************************************)
EXTENDS Integers

CONSTANTS
  Messages,      \* the notices handed out, each with a goroutine of its own
  RetryLimit     \* CallbackRetryLimit (3 in the code)

ASSUME CallbackAssumption == RetryLimit \in Nat \ {0}

\* An empty URL makes a request that reaches nobody; of a malformed one
\* http.NewRequest makes no request.
Urls == {"receiver", "empty", "malformed"}

VARIABLE posts   \* posts[m]: the goroutine of notice m, and what came of it

\* "done": the goroutine ended; "cut": the process did.  retries counts as in
\* the code; got and heard are what the receiver and the goroutine know: how
\* often the notice came in, and whether a 200 came back.
Post == [pc : {"new", "send", "sleep", "hung", "done", "cut"}, url : Urls,
         retries : 0 .. RetryLimit, got : Nat, heard : BOOLEAN]

Unsent == [pc |-> "new", url |-> "empty", retries |-> 0, got |-> 0, heard |-> FALSE]

Alive(m) == posts[m].pc \in {"send", "sleep", "hung"}

PostsInit == posts = [m \in Messages |-> Unsent]

\* DoCallback.  Converting a ClusterMessage to JSON never fails.
DoCallback(m, url) ==
  /\ posts[m].pc = "new"
  /\ posts' = [posts EXCEPT ![m].pc = "send", ![m].url = url]

\* Mutant of Heard: the goroutine goes on after a 200.
HeardUnnoticed(p) == [p EXCEPT !.pc = "sleep", !.retries = @ + 1, !.heard = TRUE]

\* A 200 ends the goroutine.
Heard(p) == [p EXCEPT !.pc = "done", !.heard = TRUE]

\* Mutant of Failed: the try is not counted.
FailedUncounted(p) == [p EXCEPT !.pc = "sleep"]

\* Anything else is counted and slept over, after the last try too.
Failed(p) == [p EXCEPT !.pc = "sleep", !.retries = @ + 1]

\* client.Do when the notice comes in.  Another status, or an answer that is
\* lost, is a failure; the client has no timeout, so a receiver that never
\* answers keeps the goroutine for ever.
Received(m) ==
  /\ posts[m].pc = "send" /\ posts[m].url = "receiver"
  /\ \E p \in {Heard(posts[m]), Failed(posts[m]), [posts[m] EXCEPT !.pc = "hung"]} :
       posts' = [posts EXCEPT ![m] = [p EXCEPT !.got = @ + 1]]

\* client.Do when it reaches nobody.
Unreachable(m) ==
  /\ posts[m].pc = "send" /\ posts[m].url # "malformed"
  /\ posts' = [posts EXCEPT ![m] = Failed(@)]

\* Without a request, setting its header panics.
Panics(m) == posts[m].pc = "send" /\ posts[m].url = "malformed"

\* Mutants of MoreTries: one try too few, one too many.
FewerTries(p) == p.retries + 1 < RetryLimit
OneTryMore(p) == p.retries <= RetryLimit

MoreTries(p) == p.retries < RetryLimit

\* Ten minutes later: try again, or give up.
WakeUp(m) ==
  /\ posts[m].pc = "sleep"
  /\ posts' = [posts EXCEPT ![m].pc = IF MoreTries(posts[m]) THEN "send" ELSE "done"]

\* The process stops.
CutOff == posts' = [m \in Messages |->
                      IF Alive(m) THEN [posts[m] EXCEPT !.pc = "cut"] ELSE posts[m]]

-----------------------------------------------------------------------------

PostsOK == posts \in [Messages -> Post]

\* A notice is not given up before RetryLimit tries of it failed: one that
\* ended was heard, or tried as often as the code promises.
NoEarlyGiveUp ==
  \A m \in Messages : posts[m].pc = "done" => posts[m].heard \/ posts[m].retries = RetryLimit

\* However the tries, the answers that are lost and the restarts fall, a
\* receiver never gets one notice more than RetryLimit times.
BoundedCopies == \A m \in Messages : posts[m].got <= RetryLimit

\* Once a 200 was heard the receiver does not get that notice again.
HeardIsLast == [][\A m \in Messages : posts[m].heard => posts'[m].got = posts[m].got]_posts
=============================================================================
