---------------------------- MODULE MCTaskStore ----------------------------
(* Small instances of TaskStore for TLC.                                    *)
EXTENDS TaskRefinement, TLC

(* Either the pull requests, retries and feedback of three attempts, without *)
(* worker events; or the worker events of two attempts, the second event in  *)
(* the first attempt only, without pull requests, keys and feedback.         *)
NoWorkerRows == \A a \in Attempts : inbox[a] = {} /\ runs[a] = {}
SilentLineage == /\ git = [a \in Attempts |-> NoGit] /\ pr = [a \in Attempts |-> NoPullRequest]
                 /\ \A k \in Keys : intents[k] = 0
                 /\ \A f \in Feedback : Unassociated(f)
UsedEvents == UNION {inbox[a] \cup StartedEvents(a) \cup ResultEvents(a) : a \in Attempts} \ {NoEvent}
LineageOrWorker ==
  NoWorkerRows \/ (SilentLineage /\ current + Cardinality(UsedEvents) <= 3)

(* The members of these sets are interchangeable. *)
Symmetry == Permutations(Commits) \cup Permutations(WorkerEvents)

=============================================================================
