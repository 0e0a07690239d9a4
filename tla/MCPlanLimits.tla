---------------------------- MODULE MCPlanLimits ----------------------------
(***************************************************************************)
(* Instances of the subscriptions and their limits for TLC.                *)
(***************************************************************************)
EXTENDS PlanLimits, TLC

\* A plan that allows one of each resource, and one without limits.
MCLimit ==
  [plan \in {"STARTER", "ENTERPRISE"} |->
     [resource \in Resources |-> IF plan = "STARTER" THEN 1 ELSE Unlimited]]

\* Every plan is seeded with a row that allows a ticket.
MCSeededLimit == [plan \in {"STARTER", "ENTERPRISE"} |-> 1]

Symmetry == Permutations(Emails) \cup Permutations(Requests)
=============================================================================
