----------------------------- MODULE MCPodLogs -----------------------------
(* Small instances of PodLogs for TLC.                                      *)
EXTENDS PodLogs

(* Of all outputs of the Pods, those where events are short lines and one   *)
(* line at most is longer than that.                                        *)
AllLines == {<<p, i>> \in Pods \X (1..MaxLines) : i \in DOMAIN printed[p]}
LongLines == {l \in AllLines : printed[l[1]][l[2]].size > 1}
FewLongLines ==
  /\ Cardinality(LongLines) <= 1
  /\ \A l \in LongLines : ~printed[l[1]][l[2]].event
  /\ Cardinality(AllLines) <= MaxLines

MCLogsInit == LogsInit /\ FewLongLines
MCLogsSpec == MCLogsInit /\ [][LogsNext]_logVars

=============================================================================
