---------------------------- MODULE TaskContract ----------------------------
(***************************************************************************)
(* What a client of the API may rely on about one task, whatever the       *)
(* controller, its workers and the providers do: an abstract specification *)
(* that knows no worker, log, Job, event or retry key.  A task works in    *)
(* rounds (attempts).  A round gets at most one receipt, the pull request  *)
(* and the commit that were verified, and a round that continues a pull    *)
(* request never opens another.                                            *)
(***************************************************************************)
EXTENDS Domain

VARIABLES
  phase,       \* "working", "published", "ready", "failed", "cancelled"
  round,
  cancelling,  \* cancellation_requested
  line,        \* the pull request a round works on, 0 for none yet
  receipt

contractVars == <<phase, round, cancelling, line, receipt>>

NoReceipt == [number |-> 0, commit |-> NoCommit]
Live == phase \in {"working", "published"}

ContractInit ==
  /\ phase = "working" /\ round = 1 /\ cancelling = FALSE
  /\ line = [r \in Attempts |-> 0]
  /\ receipt = [r \in Attempts |-> NoReceipt]

(* A receipt is written once, for the pull request of its round. *)
Verify(r, n, c) ==
  /\ UNCHANGED <<phase, round, cancelling>>
  /\ receipt[r] = NoReceipt /\ line[r] \in {0, n}
  /\ receipt' = [receipt EXCEPT ![r] = [number |-> n, commit |-> c]]
  /\ line' = [line EXCEPT ![r] = n]

(* Nothing is shown as published or ready without the receipt of its round. *)
Advance ==
  /\ ~cancelling /\ receipt[round] # NoReceipt
  /\ \/ phase = "working" /\ phase' = "published"
     \/ phase = "published" /\ phase' = "ready"
  /\ UNCHANGED <<round, cancelling, line, receipt>>

GiveUp ==
  /\ Live /\ ~cancelling /\ phase' = "failed"
  /\ UNCHANGED <<round, cancelling, line, receipt>>

AskCancel ==
  /\ Live /\ cancelling' = TRUE
  /\ UNCHANGED <<phase, round, line, receipt>>

Cancel ==
  /\ Live /\ phase' = "cancelled" /\ cancelling' = FALSE
  /\ UNCHANGED <<round, line, receipt>>

(* Another round: after a failure, with or without the pull request it had; *)
(* or for feedback on what is published, always with it.                    *)
Again ==
  /\ round + 1 \in Attempts /\ round' = round + 1
  /\ \/ /\ phase = "failed"
        /\ \E n \in {0, line[round]} : line' = [line EXCEPT ![round + 1] = n]
     \/ /\ phase \in {"published", "ready"} /\ line[round] # 0
        /\ line' = [line EXCEPT ![round + 1] = line[round]]
  /\ ~cancelling
  /\ phase' = "working"
  /\ UNCHANGED <<cancelling, receipt>>

ContractNext ==
  \/ Advance \/ GiveUp \/ AskCancel \/ Cancel \/ Again
  \/ \E r \in Attempts, n \in Numbers, c \in Commits : Verify(r, n, c)

ContractSpec == ContractInit /\ [][ContractNext]_contractVars

=============================================================================
