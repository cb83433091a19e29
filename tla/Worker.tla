------------------------------- MODULE Worker -------------------------------
(***************************************************************************)
(* What one worker Pod may print (internal/worker/runner.go): the order of *)
(* the `@@simpleswe:` events of Runner.Run.  Operators only.  A log is the *)
(* sequence of the events printed so far; agent output between them is not *)
(* modelled, and the worker may die after any prefix.                      *)
(***************************************************************************)
EXTENDS Domain, Sequences, FiniteSets

CONSTANTS
  Commands,  \* validation commands of a round
  MaxFixes   \* manifest.MaxFixAttempts

ASSUME WorkerAssumption == Commands \in Nat \ {0} /\ MaxFixes \in Nat

Identities == {"pull_request_published", "pull_request_ready"}
Signals == {"agent_started", "worker_failed", "validation_started",
            "validation_succeeded", "validation_failed"}

Signal(type) == [type |-> type, sha |-> NoCommit, number |-> 0, verdict |-> ""]
Result(verdict) == [Signal("validation_result") EXCEPT !.verdict = verdict]
Identity(type, c, n) == [type |-> type, sha |-> c, number |-> n, verdict |-> ""]

Events ==
  {Signal(type) : type \in Signals} \cup {Result(v) : v \in {"succeeded", "failed"}}
    \cup {Identity(type, c, n) : type \in Identities, c \in Commits, n \in Numbers}

(* The longest log: every round but the last one failed. *)
MaxLog == (MaxFixes + 1) * (2 + 2 * Commands) + 2

Printed(log, type) == {i \in DOMAIN log : log[i].type = type}

Published(log) == Printed(log, "pull_request_published")

(* Results of the current validation round: those after the last publish. *)
RoundResults(log) == {i \in Printed(log, "validation_result") : \A k \in Published(log) : k < i}
RoundOver(log) == Cardinality(RoundResults(log)) = Commands
RoundFailed(log) == \E i \in RoundResults(log) : log[i].verdict = "failed"
FixesLeft(log) == Cardinality(Published(log)) <= MaxFixes

(* The identity published last. *)
Candidate(log) == log[CHOOSE i \in Published(log) : \A k \in Published(log) : k <= i]

(* `origin` is the pull request the manifest continues: its number (0 for   *)
(* none) and its head, where the task branch starts.                        *)
(* workerInvocationError: OpenCode must report that pull request, and after *)
(* a fix the one it reported before; verifyPublishedCandidate: the branch   *)
(* must have left its start.                                                *)
MayPublish(log, e, origin) ==
  /\ e.type = "pull_request_published"
  /\ e.sha # origin.sha
  /\ origin.number # 0 => e.number = origin.number
  /\ Published(log) # {} => e.number = Candidate(log).number

(* Mutant: the worker reports success whatever the commands returned. *)
MayValidateRegardless(log, e) ==
  \/ ~RoundOver(log) /\ e.type = "validation_started"
  \/ RoundOver(log) /\ e.type = "validation_succeeded"

(* runValidationRound and the loop around it. *)
MayValidate(log, e) ==
  \/ ~RoundOver(log) /\ e.type = "validation_started"
  \/ RoundOver(log) /\ ~RoundFailed(log) /\ e.type = "validation_succeeded"
  \/ RoundOver(log) /\ RoundFailed(log) /\ FixesLeft(log) /\ e.type = "agent_started"
  \/ RoundOver(log) /\ RoundFailed(log) /\ ~FixesLeft(log) /\ e.type = "validation_failed"

(* Runner.Run: agent, publish, validate, fix and validate again, and report *)
(* the candidate whose round passed.                                        *)
MayPrint(log, e, origin) ==
  IF log = <<>> THEN e = Signal("agent_started")
  ELSE LET last == log[Len(log)].type IN
    \/ last = "agent_started" /\ (e.type = "worker_failed" \/ MayPublish(log, e, origin))
    \/ last = "pull_request_published" /\ e.type = "validation_started"
    \/ last = "validation_started" /\ e.type = "validation_result"
    \/ last = "validation_result" /\ MayValidate(log, e)
    \/ last = "validation_succeeded" /\ e = [Candidate(log) EXCEPT !.type = "pull_request_ready"]

(* Run returns nil only after the ready event, and at once; any other exit  *)
(* status is a failure.                                                     *)
Succeeded(log) == log # <<>> /\ log[Len(log)].type = "pull_request_ready"

=============================================================================
