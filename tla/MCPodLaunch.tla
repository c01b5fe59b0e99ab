----------------------------- MODULE MCPodLaunch ----------------------------
(* Instances of PodLaunch for TLC: one ordinary pod and the two pods of    *)
(* buildTenantDemoSpecs, which belong to two tenants.                      *)
EXTENDS PodLaunch

CONSTANTS o1, tn1, tn2

\* They hang off one bridge.
MCBridge == [p \in {tn1, tn2} |-> "tnbr"]

MCTenant == [p \in {o1, tn1, tn2} |-> IF p = tn1 THEN 1 ELSE IF p = tn2 THEN 2 ELSE 0]
=============================================================================
