---------------------------- MODULE MCController ----------------------------
(* Small instances of Controller.  Generations and log positions name the   *)
(* worker events.                                                           *)
EXTENDS Controller, TLC

MCWorkerEvents == Jobs \X (1..MaxLines)

(* Commits are interchangeable. *)
Symmetry == Permutations(Commits)

(* Attempt 1 has ended well and its Job has expired: a state of Spec from   *)
(* which a run of two attempts that both publish is small enough.           *)
FirstCommit == CHOOSE c \in Commits : TRUE
FirstLog == <<Signal("agent_started"), Identity("pull_request_published", FirstCommit, 1),
              Signal("validation_started"), Result("succeeded"), Signal("validation_succeeded"),
              Identity("pull_request_ready", FirstCommit, 1)>>
FirstEvents == {<<1, i>> : i \in DOMAIN FirstLog}

FollowUpInit ==
  /\ state = "pr_open" /\ current = 1 /\ cancelRequested = FALSE
  /\ attemptState = [a \in Attempts |-> IF a = 1 THEN "pr_open" ELSE "received"]
  /\ exhausted = [a \in Attempts |-> a = 1]
  /\ validation = [a \in Attempts |-> IF a = 1 THEN "succeeded" ELSE ""]
  /\ snapshot = [a \in Attempts |-> IF a = 1 THEN CHOOSE v \in Versions : TRUE ELSE NoVersion]
  /\ branch = [a \in Attempts |-> a]
  /\ inbox = [a \in Attempts |-> IF a = 1 THEN FirstEvents ELSE {}]
  /\ processed = inbox
  /\ runs = [a \in Attempts |->
               IF a = 1 THEN {[start |-> <<1, 3>>, result |-> <<1, 4>>, state |-> "succeeded"]}
                        ELSE {}]
  /\ git = [a \in Attempts |-> IF a = 1 THEN [state |-> "pushed", sha |-> FirstCommit] ELSE NoGit]
  /\ pr = [a \in Attempts |-> IF a = 1 THEN [state |-> "open", number |-> 1] ELSE NoPullRequest]
  /\ intents = [k \in Keys |-> 0]
  /\ forge = [f \in Feedback |-> [status |-> "pending", attempt |-> 0]]
  /\ jobs = [g \in Jobs |-> IF g = 1 THEN [attempt |-> 1, status |-> "gone", deleting |-> TRUE]
                             ELSE NoJob]
  /\ pods = [g \in Jobs |-> IF g = 1 THEN [phase |-> "gone", log |-> FirstLog] ELSE NoPod]
  /\ secrets = {1} /\ registered = {1}
  /\ op = Idle /\ startups = {} /\ acks = {}
  /\ reader = [g \in Jobs |-> Reading]

FollowUpSpec == FollowUpInit /\ [][Next]_vars

FairFollowUpSpec == FollowUpSpec /\ CancellationFairness

(* Two Jobs of one attempt together print at most two lines.  *)
ShortLogs ==
  \A g, h \in Jobs : g < h /\ jobs[h] # NoJob => Len(pods[g].log) + Len(pods[h].log) <= 2

(* The worker of a follow-up prints at most one line. *)
QuietWorker == \A g \in Jobs : g > 1 => Len(pods[g].log) <= 1

=============================================================================
