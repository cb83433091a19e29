---------------------------- MODULE MCForgeInbox ----------------------------
(* A small instance of ForgeInbox for TLC.                                  *)
EXTENDS ForgeInbox

(* Only the last event may belong to nobody, and a history has a fault or a *)
(* retry.                                                                    *)
FewAccidents ==
  /\ \A e \in 1..posted : event[e].about = Nobody => e = posted
  /\ faults > 0 => \A t \in Tasks : task[t].retries = 0

=============================================================================
