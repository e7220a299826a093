----------------------------- MODULE RoleConflict -----------------------------
(***************************************************************************)
(* Role conflicts between two agents: the checks they send, how a check is *)
(* answered (stun_usage_ice_conncheck_create_reply in stun/usages/ice.c    *)
(* and conn_check_handle_inbound_stun in agent/conncheck.c), and how the   *)
(* answer is processed (priv_map_reply_to_conn_check_request).             *)
(*                                                                         *)
(* A message stays in the network once it is sent: it may be delivered     *)
(* late, in any order, again, or never.  A 487 that is ignored because its *)
(* pair is not retransmitted any more is one that is never delivered.      *)
(***************************************************************************)
EXTENDS Naturals

CONSTANT Tie   \* agent -> agent->tie_breaker

Agents == {"a", "b"}
Roles == {"controlling", "controlled"}

\* Tie-breakers are random 64-bit numbers.
ASSUME TieAssumption ==
    /\ Tie \in [Agents -> Nat]
    /\ Tie["a"] # Tie["b"]

VARIABLES
    role,      \* agent -> agent->controlling_mode
    net,       \* the messages sent so far
    open,      \* agent -> the roles that its unanswered checks carry
    answered   \* the agents that have seen a check of theirs succeed

vars == <<role, net, open, answered>>

Peer(x) == IF x = "a" THEN "b" ELSE "a"
OtherRole(r) == IF r = "controlling" THEN "controlled" ELSE "controlling"

\* A check or its answer: the agent that sends the check, and the role that
\* the check carries.
Message == [type : {"request", "success", "conflict"}, from : Agents, role : Roles]
Msg(type, x, r) == [type |-> type, from |-> x, role |-> r]

Init ==
    /\ role \in [Agents -> Roles]
    /\ net = {}
    /\ open = [x \in Agents |-> {}]
    /\ answered = {}

\* conn_check_send
Send(x) ==
    /\ net' = net \cup {Msg("request", x, role[x])}
    /\ open' = [open EXCEPT ![x] = @ \cup {role[x]}]
    /\ UNCHANGED <<role, answered>>

\* A check of x that carries role r is over; others may still carry that role.
Close(x, r) == open' \in {open, [open EXCEPT ![x] = @ \ {r}]}

\* The last transaction that carries role r times out: priv_conn_check_tick_stream
Timeout(x, r) ==
    /\ r \in open[x]
    /\ open' = [open EXCEPT ![x] = @ \ {r}]
    /\ UNCHANGED <<role, net, answered>>

\* Mutants of Switches: the tie-breakers are not compared, are compared the
\* wrong way round, or the agent never gives in.
SwitchesAlways(y, x) == TRUE
SwitchesIfHigher(y, x) ==
    \/ Tie[y] > Tie[x] /\ role[y] = "controlling"
    \/ Tie[y] <= Tie[x] /\ role[y] = "controlled"
SwitchesNever(y, x) == FALSE

\* Agent y is to switch when its check and that of x conflict.
Switches(y, x) ==
    \/ Tie[y] < Tie[x] /\ role[y] = "controlling"
    \/ Tie[y] >= Tie[x] /\ role[y] = "controlled"

\* stun_usage_ice_conncheck_create_reply and priv_check_for_role_conflict
Answer(x, r) ==
    LET y == Peer(x)
    IN  /\ Msg("request", x, r) \in net
        /\ \/ /\ role[y] # r
              /\ net' = net \cup {Msg("success", x, r)}
              /\ UNCHANGED role
           \/ /\ role[y] = r /\ Switches(y, x)
              /\ role' = [role EXCEPT ![y] = OtherRole(r)]
              /\ net' = net \cup {Msg("success", x, r)}
           \/ /\ role[y] = r /\ ~ Switches(y, x)
              /\ net' = net \cup {Msg("conflict", x, r)}
              /\ UNCHANGED role
        /\ UNCHANGED <<open, answered>>

\* Mutant of Conflict: a 487 toggles the current role.
ConflictToggles(x, r) ==
    /\ Msg("conflict", x, r) \in net
    /\ r \in open[x]
    /\ role' = [role EXCEPT ![x] = OtherRole(@)]
    /\ Close(x, r)
    /\ UNCHANGED <<net, answered>>

\* priv_map_reply_to_conn_check_request: the role that the check carried was
\* the wrong one.
Conflict(x, r) ==
    /\ Msg("conflict", x, r) \in net
    /\ r \in open[x]
    /\ role' = [role EXCEPT ![x] = OtherRole(r)]
    /\ Close(x, r)
    /\ UNCHANGED <<net, answered>>

Success(x, r) ==
    /\ Msg("success", x, r) \in net
    /\ r \in open[x]
    /\ answered' = answered \cup {x}
    /\ Close(x, r)
    /\ UNCHANGED <<role, net>>

Next ==
    \E x \in Agents :
        \/ Send(x)
        \/ \E r \in Roles : \/ Timeout(x, r)
                            \/ Answer(x, r)
                            \/ Conflict(x, r)
                            \/ Success(x, r)

Spec == Init /\ [][Next]_vars

-----------------------------------------------------------------------------

\* The roles, the messages and the checks that wait for an answer keep their
\* types.
TypeOK ==
    /\ role \in [Agents -> Roles]
    /\ net \subseteq Message
    /\ open \in [Agents -> SUBSET Roles]
    /\ answered \subseteq Agents

Final(x) == IF Tie[x] > Tie[Peer(x)] THEN "controlling" ELSE "controlled"

\* An agent that has sent checks in another role than its own has switched, so
\* both agents are in their final roles.
StaleChecksMeanFinal ==
    \A x \in Agents, r \in Roles :
        Msg("request", x, r) \in net /\ r # role[x] =>
            \A y \in Agents : role[y] = Final(y)

\* A 487 tells the agent whose check was refused to take its final role, and
\* the agent that refused it is in its own.
RefusedByFinal ==
    \A x \in Agents, r \in Roles :
        Msg("conflict", x, r) \in net =>
            r = OtherRole(Final(x)) /\ role[Peer(x)] = Final(Peer(x))

\* A success response answers a check that carried the role its sender still
\* has, which is not that of the agent that answered.
SuccessMeansAgreed ==
    \A x \in Agents, r \in Roles :
        Msg("success", x, r) \in net => role[x] = r /\ role[Peer(x)] # r

\* Once an agent has seen a check of its own succeed, the roles differ, however
\* late the messages of the conflict arrive (conn_check_handle_inbound_stun,
\* priv_map_reply_to_conn_check_request): nominations are made by one side.
AnsweredMeansAgreed == answered # {} => role["a"] # role["b"]

\* Messages delivered late or twice never bring a conflict back: roles that
\* differ stay as they are.
AgreementIsStable == [][role["a"] # role["b"] => UNCHANGED role]_vars

\* Role-conflict resolution as a single step: see module RoleAgreement.
Agreement == INSTANCE RoleAgreement
AgreementSpec == Agreement!Spec

\* One exchange is enough: an agent that takes in the answer of any of its
\* checks, a success or a 487, late or not, is then in the role opposite to its
\* peer's (priv_map_reply_to_conn_check_request, priv_check_for_role_conflict).
AnswerSettles ==
    [][(\E x \in Agents, r \in Roles : Conflict(x, r) \/ Success(x, r)) =>
           role'["a"] # role'["b"]]_vars
=============================================================================
