---------------------------- MODULE RoleAgreement ----------------------------
(***************************************************************************)
(* What role-conflict resolution promises: two agents that start in any    *)
(* roles keep them if they differ; if they conflict, one step of one of    *)
(* the agents settles them, and it makes the agent with the higher         *)
(* tie-breaker the controlling one.                                        *)
(***************************************************************************)
EXTENDS Naturals

CONSTANT Tie   \* agent -> agent->tie_breaker; the tie-breakers differ

Agents == {"a", "b"}
Roles == {"controlling", "controlled"}

VARIABLE role

Peer(x) == IF x = "a" THEN "b" ELSE "a"

\* The role of an agent once a conflict is resolved.
Final(x) == IF Tie[x] > Tie[Peer(x)] THEN "controlling" ELSE "controlled"

Init == role \in [Agents -> Roles]

Resolve ==
    /\ role["a"] = role["b"]
    /\ role' = [x \in Agents |-> Final(x)]

Spec == Init /\ [][Resolve]_role
=============================================================================
