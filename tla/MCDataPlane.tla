----------------------------- MODULE MCDataPlane -----------------------------
EXTENDS DataPlaneSim

MCTemplates ==
  <<[inits |-> <<>>, mains |-> {"m"}, gate |-> FALSE],
    [inits |-> <<[name |-> "i", sidecar |-> FALSE], [name |-> "s", sidecar |-> TRUE]>>,
     mains |-> {"m"}, gate |-> TRUE]>>

Set == [kind |-> "StatefulSet", simulated |-> TRUE, replicas |-> 2, rev |-> 1, gen |-> 1,
        deleting |-> FALSE, parallel |-> FALSE, onDelete |-> FALSE, partition |-> 0,
        whenScaled |-> "Delete", whenDeleted |-> "Retain"]
Deployment == [kind |-> "Deployment", simulated |-> TRUE, replicas |-> 2, rev |-> 1, gen |-> 1,
               deleting |-> FALSE, recreate |-> FALSE,
               maxUnavailable |-> [percent |-> TRUE, value |-> 25]]

MCWorkloads ==
  {Set, [Set EXCEPT !.parallel = TRUE, !.partition = 1], [Set EXCEPT !.onDelete = TRUE],
   [Set EXCEPT !.simulated = FALSE], Deployment, [Deployment EXCEPT !.recreate = TRUE],
   [Deployment EXCEPT !.simulated = FALSE]}

Fault(notReady, crashLoop, unscheduled) ==
  [notReady |-> notReady, crashLoop |-> crashLoop, unscheduled |-> unscheduled]
MCRules == {[on |-> {1, 2}, fault |-> Fault({"s"}, {}, FALSE)],
            [on |-> {2}, fault |-> Fault({"i"}, {}, FALSE)],
            [on |-> {1}, fault |-> Fault({}, {}, TRUE)]}
==============================================================================
