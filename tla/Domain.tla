------------------------------- MODULE Domain -------------------------------
(* The identities the store, the worker and the cluster share.              *)
EXTENDS Naturals

CONSTANTS
  MaxAttempts,   \* bound on the attempts of the task
  Commits,       \* full Git object ids
  NoCommit,      \* no commit recorded
  Numbers        \* provider pull request numbers

ASSUME DomainAssumption ==
  /\ MaxAttempts \in Nat \ {0}
  /\ Numbers \subseteq Nat \ {0}
  /\ NoCommit \notin Commits

Attempts == 1..MaxAttempts

=============================================================================
