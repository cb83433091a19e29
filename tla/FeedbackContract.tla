-------------------------- MODULE FeedbackContract --------------------------
(***************************************************************************)
(* What becomes of the feedback on one task, whatever passes, webhooks,    *)
(* reports, cancellations and retries do: an abstract specification that   *)
(* knows no deadline, pull request or lock.  A task works in rounds        *)
(* (attempts).  Feedback waits until a round takes it; there is never      *)
(* feedback in the work of two rounds.  It is answered one by one, but     *)
(* fails with all that its round still works on, and a retried round hands *)
(* all of it on.  What is handled or failed stays so.                      *)
(***************************************************************************)
EXTENDS Naturals

CONSTANT Items

VARIABLES
  fate,   \* "pending", "running", "handled", "failed"
  round,  \* item -> the round that took it or took it over, 0 for none
  last    \* the round the task is in

feedbackVars == <<fate, round, last>>

Waiting == {i \in Items : fate[i] = "pending"}
Working == {i \in Items : fate[i] = "running"}

FeedbackInit ==
  /\ fate = [i \in Items |-> "pending"] /\ round = [i \in Items |-> 0] /\ last = 1

NextRound(items) ==
  /\ last' = last + 1
  /\ fate' = [i \in Items |-> IF i \in items THEN "running" ELSE fate[i]]
  /\ round' = [i \in Items |-> IF i \in items THEN last' ELSE round[i]]

(* A round starts on waiting feedback, when there is none in work. *)
Begin == Working = {} /\ \E items \in SUBSET Waiting : NextRound(items)

CarryOn == NextRound(Working)

Becomes(items, outcome) ==
  /\ fate' = [i \in Items |-> IF i \in items THEN outcome ELSE fate[i]]
  /\ UNCHANGED <<round, last>>

(* By an answer, or because nothing is to be done about it. *)
Answer == \E i \in Waiting \cup Working : Becomes({i}, "handled")

FailWaiting == \E items \in SUBSET Waiting : Becomes(items, "failed")

FailRound == Becomes(Working, "failed")

FeedbackNext == Begin \/ CarryOn \/ Answer \/ FailWaiting \/ FailRound

FeedbackSpec == FeedbackInit /\ [][FeedbackNext]_feedbackVars

=============================================================================
