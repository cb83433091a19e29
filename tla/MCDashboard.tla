---------------------------- MODULE MCDashboard ----------------------------
(* A small instance of Dashboard for TLC. *)
EXTENDS Dashboard

(* One task has a second attempt.  There are two keys, or one and a fault, or *)
(* more of both for the form, which is then looked at without log lines,     *)
(* second attempts and searches.                                             *)
FormAlone ==
  /\ attempts[1] = 1 \/ attempts[2] <= 1
  /\ presses + faults > 2 => /\ sent # {}
                             /\ action = NoAction /\ ui.query = Tasks
                             /\ ui.queue = <<>> /\ ui.pane = {}
                             /\ \A t \in Tasks : attempts[t] <= 1

=============================================================================
