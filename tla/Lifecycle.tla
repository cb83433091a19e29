----------------------------- MODULE Lifecycle -----------------------------
(***************************************************************************)
(* The durable task lifecycle of internal/task/state.go and the helpers    *)
(* internal/controller/reconcile.go builds on it.  Operators only: every   *)
(* module that keeps a task state extends this one.  State names are the   *)
(* strings the program stores.                                             *)
(***************************************************************************)
EXTENDS Naturals, Sequences

(* The forward path, in order; a task moves one step at a time. *)
lifecycle == <<"received", "queued", "creating_job", "job_pending", "running",
               "agent_running", "validating", "committing", "pushing",
               "creating_pr", "pr_open", "waiting_ci", "waiting_review", "ready">>

States == {"received", "queued", "creating_job", "job_pending", "running",
           "agent_running", "validating", "committing", "pushing",
           "creating_pr", "pr_open", "waiting_ci", "waiting_review", "ready",
           "failed", "cancelled"}

(* States no ordinary transition leaves (READY, FAILED, CANCELLED). *)
Settled == {"ready", "failed", "cancelled"}

(* States that follow a verified pull request. *)
PullRequestStates == {"pr_open", "waiting_ci", "waiting_review", "ready"}

(* Machine.Transition: one adjacent step, or a nonterminal task giving up. *)
LegalTransition(from, to) ==
  /\ from \in States \ Settled
  /\ \/ \E i \in 1..13 : lifecycle[i] = from /\ lifecycle[i + 1] = to
     \/ to \in {"failed", "cancelled"}

(* Machine.Retry: the aggregate reset onto a new attempt. *)
LegalRetry(from, to) == from = "failed" /\ to = "queued"

(* Machine.ForgeFollowUp: the reset that answers feedback on an open PR. *)
LegalFollowUp(from, to) == from \in PullRequestStates /\ to = "queued"

(* stateIndex: the position in the recovery path, 0 for FAILED and          *)
(* CANCELLED (-1 in the program: below every lifecycle state).              *)
StateIndex(s) == IF \E i \in 1..14 : lifecycle[i] = s
                 THEN CHOOSE i \in 1..14 : lifecycle[i] = s
                 ELSE 0

(* stateAtOrAfter: FAILED and CANCELLED are after nothing. *)
AtOrAfter(s, wanted) == StateIndex(s) >= StateIndex(wanted)

(* workerResourceState: states in which an attempt needs its worker Job. *)
WorkerResourceStates == {"creating_job", "job_pending", "running",
                         "agent_running", "validating"}

=============================================================================
