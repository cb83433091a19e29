--------------------------- MODULE TaskRefinement ---------------------------
(* How the rows of TaskStore show a task to a client and its feedback to    *)
(* whoever waits for an answer, and that they keep both contracts.          *)
EXTENDS TaskStore

(* The state, without the steps of a worker's attempt (openapi.yaml TaskState). *)
Phase == IF state \in Settled THEN state
         ELSE IF state \in PullRequestStates THEN "published" ELSE "working"

(* The pull request an attempt works on is its open row, copied or verified. *)
Line == [a \in Attempts |-> IF pr[a].state = "open" THEN pr[a].number ELSE 0]

Receipt == [a \in Attempts |-> IF DurablePullRequest(a)
                               THEN [number |-> pr[a].number, commit |-> git[a].sha]
                               ELSE [number |-> 0, commit |-> NoCommit]]

Contract == INSTANCE TaskContract
            WITH phase <- Phase, round <- current, cancelling <- cancelRequested,
                 line <- Line, receipt <- Receipt

(* Every transaction of the store is a step of the contract or leaves what a *)
(* client sees as it is (store.go, forge_event.go).                         *)
KeepsContract == Contract!ContractSpec

(* The forge events that concern the task, as rows name them.               *)
FeedbackFate == [f \in Feedback |-> forge[f].status]
FeedbackRound == [f \in Feedback |-> forge[f].attempt]

FeedbackView == INSTANCE FeedbackContract
                WITH Items <- Feedback, fate <- FeedbackFate, round <- FeedbackRound,
                     last <- current

(* Every transaction of the store treats feedback as the contract says that *)
(* ForgeInbox keeps, the other model of the same rows (forge_event.go,      *)
(* retryTaskOnce).                                                          *)
KeepsFeedback == FeedbackView!FeedbackSpec

=============================================================================
