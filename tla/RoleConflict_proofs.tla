------------------------- MODULE RoleConflict_proofs -------------------------
(***************************************************************************)
(* For every pair of distinct tie-breakers: a role conflict is resolved by *)
(* one step, for good, and an agent that has seen a check succeed is in    *)
(* the role opposite to its peer's.                                        *)
(***************************************************************************)
EXTENDS RoleConflict, TLAPS

\* The inductive invariant.  What a late message can do depends on who has
\* switched already, which the messages in the network tell.
Inv ==
    /\ TypeOK
    /\ StaleChecksMeanFinal
    /\ RefusedByFinal
    /\ SuccessMeansAgreed
    /\ AnsweredMeansAgreed

\* The final roles of the two agents differ, and an agent switches in a
\* conflict exactly when it is not in its final role.
LEMMA FinalRoles ==
    /\ \A x \in Agents : Final(x) \in Roles
    /\ \A x \in Agents : Final(Peer(x)) = OtherRole(Final(x))
    /\ \A x \in Agents : Peer(x) \in Agents /\ Peer(x) # x
                         /\ Agents = {x, Peer(x)} /\ Peer(Peer(x)) = x
    /\ \A r \in Roles : OtherRole(r) \in Roles /\ OtherRole(r) # r
                        /\ OtherRole(OtherRole(r)) = r
                        /\ \A s \in Roles : s # r => s = OtherRole(r)
BY TieAssumption DEF Final, Peer, Agents, Roles, OtherRole

LEMMA SwitchesToFinal ==
    ASSUME TypeOK, NEW x \in Agents, NEW y \in Agents, y = Peer(x)
    PROVE  Switches(y, x) <=> role[y] # Final(y)
BY TieAssumption DEF Switches, TypeOK, Final, Peer, Agents, Roles

\* Messages are told apart by their type, agent and role.
LEMMA Messages ==
    ASSUME NEW t, NEW u, NEW x, NEW y, NEW r, NEW s
    PROVE  Msg(t, x, r) = Msg(u, y, s) <=> t = u /\ x = y /\ r = s
BY DEF Msg

LEMMA TypeInvariant == TypeOK /\ [Next]_vars => TypeOK'
<1> SUFFICES ASSUME TypeOK, [Next]_vars PROVE TypeOK'
    OBVIOUS
<1> USE DEF TypeOK
<1>1. ASSUME NEW x \in Agents, Send(x) PROVE TypeOK'
    BY <1>1 DEF Send, Message, Msg
<1>2. ASSUME NEW x \in Agents, NEW r \in Roles, Timeout(x, r) PROVE TypeOK'
    BY <1>2 DEF Timeout
<1>3. ASSUME NEW x \in Agents, NEW r \in Roles, Answer(x, r) PROVE TypeOK'
    BY <1>3, FinalRoles DEF Answer, Message, Msg
<1>4. ASSUME NEW x \in Agents, NEW r \in Roles, Conflict(x, r) PROVE TypeOK'
    BY <1>4, FinalRoles DEF Conflict, Close
<1>5. ASSUME NEW x \in Agents, NEW r \in Roles, Success(x, r) PROVE TypeOK'
    BY <1>5 DEF Success, Close
<1>6. CASE UNCHANGED vars
    BY <1>6 DEF vars
<1> QED
    BY <1>1, <1>2, <1>3, <1>4, <1>5, <1>6 DEF Next

\* Every step leaves the roles alone or resolves a conflict for good.
LEMMA RoleStep ==
    Inv /\ [Next]_vars =>
        \/ UNCHANGED role
        \/ /\ role["a"] = role["b"]
           /\ role' = [x \in Agents |-> Final(x)]
<1> SUFFICES ASSUME Inv, [Next]_vars, role' # role
             PROVE  /\ role["a"] = role["b"]
                    /\ role' = [x \in Agents |-> Final(x)]
    OBVIOUS
<1> USE DEF Inv
<1>1. ASSUME NEW x \in Agents, NEW r \in Roles, Answer(x, r)
      PROVE  /\ role["a"] = role["b"]
             /\ role' = [z \in Agents |-> Final(z)]
    <2> DEFINE y == Peer(x)
    <2>1. /\ Msg("request", x, r) \in net
          /\ role[y] = r /\ Switches(y, x)
          /\ role' = [role EXCEPT ![y] = OtherRole(r)]
        BY <1>1 DEF Answer
    <2>2. y \in Agents /\ role[y] # Final(y)
        BY <2>1, SwitchesToFinal, FinalRoles
    <2>3. role[x] = r
        BY <2>1, <2>2 DEF StaleChecksMeanFinal
    <2>4. role["a"] = role["b"]
        BY <2>1, <2>3, FinalRoles DEF Agents
    <2>5. OtherRole(r) = Final(y) /\ r = Final(x)
        BY <2>1, <2>2, FinalRoles
    <2>6. role' = [z \in Agents |-> Final(z)]
        <3>1. role' = [z \in Agents |-> IF z = y THEN OtherRole(r) ELSE role[z]]
            BY <2>1 DEF TypeOK
        <3>2. \A z \in Agents :
                 (IF z = y THEN OtherRole(r) ELSE role[z]) = Final(z)
            BY <2>3, <2>5, FinalRoles
        <3> QED
            BY <3>1, <3>2
    <2> QED
        BY <2>4, <2>6
<1>2. ASSUME NEW x \in Agents, NEW r \in Roles, Conflict(x, r)
      PROVE  /\ role["a"] = role["b"]
             /\ role' = [z \in Agents |-> Final(z)]
    <2> DEFINE y == Peer(x)
    <2>1. /\ Msg("conflict", x, r) \in net
          /\ role' = [role EXCEPT ![x] = OtherRole(r)]
        BY <1>2 DEF Conflict
    <2>2. OtherRole(r) = Final(x) /\ role[y] = Final(y)
        BY <2>1, FinalRoles DEF RefusedByFinal
    <2>3. role' = [z \in Agents |-> Final(z)]
        <3>1. role' = [z \in Agents |-> IF z = x THEN OtherRole(r) ELSE role[z]]
            BY <2>1 DEF TypeOK
        <3>2. \A z \in Agents :
                 (IF z = x THEN OtherRole(r) ELSE role[z]) = Final(z)
            BY <2>2, FinalRoles
        <3> QED
            BY <3>1, <3>2
    <2>4. role[x] # Final(x)
        BY <2>1, <2>2 DEF TypeOK
    <2>5. role[x] = role[y]
        BY <2>2, <2>4, FinalRoles DEF TypeOK
    <2> QED
        BY <2>3, <2>5, FinalRoles DEF Agents
<1> QED
    BY <1>1, <1>2 DEF Next, Send, Timeout, Success, vars

LEMMA InvInit == Init => Inv
<1> SUFFICES ASSUME Init PROVE Inv
    OBVIOUS
<1> USE DEF Init
<1>1. TypeOK
    BY DEF TypeOK
<1> QED
    BY <1>1 DEF Inv, StaleChecksMeanFinal, RefusedByFinal, SuccessMeansAgreed,
                AnsweredMeansAgreed

\* What a step adds to the network, in the state it leads to.
LEMMA NewMessages ==
    ASSUME Inv, [Next]_vars, NEW x \in Agents, NEW r \in Roles
    PROVE  /\ Msg("request", x, r) \in net' \ net => r = role[x] /\ UNCHANGED role
           /\ Msg("conflict", x, r) \in net' \ net =>
                 /\ r = OtherRole(Final(x))
                 /\ role[Peer(x)] = Final(Peer(x))
                 /\ UNCHANGED role
           /\ Msg("success", x, r) \in net' \ net =>
                 role'[x] = r /\ role'[Peer(x)] # r
<1> USE Messages DEF Inv
<1> DEFINE Goal ==
        /\ Msg("request", x, r) \in net' \ net => r = role[x] /\ UNCHANGED role
        /\ Msg("conflict", x, r) \in net' \ net =>
              /\ r = OtherRole(Final(x))
              /\ role[Peer(x)] = Final(Peer(x))
              /\ UNCHANGED role
        /\ Msg("success", x, r) \in net' \ net =>
              role'[x] = r /\ role'[Peer(x)] # r
<1>1. ASSUME NEW z \in Agents, Send(z) PROVE Goal
    BY <1>1 DEF Send
<1>2. ASSUME NEW z \in Agents, NEW s \in Roles, Answer(z, s) PROVE Goal
    <2> DEFINE y == Peer(z)
    <2>1. Msg("request", z, s) \in net /\ y \in Agents
        BY <1>2, FinalRoles DEF Answer
    <2>2. CASE role[y] # s /\ net' = net \cup {Msg("success", z, s)}
               /\ UNCHANGED role
        <3>1. role[z] = s
            <4>1. SUFFICES ASSUME role[z] # s PROVE FALSE
                OBVIOUS
            <4>2. role[z] = Final(z) /\ role[y] = Final(y)
                BY <2>1, <4>1 DEF StaleChecksMeanFinal
            <4> QED
                BY <2>2, <4>1, <4>2, FinalRoles DEF TypeOK
        <3> QED
            BY <2>2, <3>1
    <2>3. CASE role[y] = s /\ Switches(y, z)
               /\ role' = [role EXCEPT ![y] = OtherRole(s)]
               /\ net' = net \cup {Msg("success", z, s)}
        <3>1. role'[y] = OtherRole(s) /\ role'[z] = role[z]
            BY <2>1, <2>3, FinalRoles DEF TypeOK
        <3>2. role[y] # Final(y)
            BY <2>1, <2>3, SwitchesToFinal
        <3>3. role[z] = s
            BY <2>1, <3>2 DEF StaleChecksMeanFinal
        <3> QED
            BY <2>3, <3>1, <3>3, FinalRoles
    <2>4. CASE role[y] = s /\ ~ Switches(y, z)
               /\ net' = net \cup {Msg("conflict", z, s)}
               /\ UNCHANGED role
        <3>1. role[y] = Final(y)
            BY <2>1, <2>4, SwitchesToFinal
        <3>2. s = OtherRole(Final(z))
            BY <2>4, <3>1, FinalRoles
        <3>3. /\ Msg("request", x, r) \notin net' \ net
              /\ Msg("success", x, r) \notin net' \ net
              /\ Msg("conflict", x, r) \in net' \ net => x = z /\ r = s
            BY <2>4
        <3> QED
            BY <2>4, <3>1, <3>2, <3>3
    <2> QED
        BY <1>2, <2>2, <2>3, <2>4 DEF Answer
<1>3. net' = net => Goal
    OBVIOUS
<1> QED
    BY <1>1, <1>2, <1>3 DEF Next, Timeout, Conflict, Success, vars

LEMMA InvNext == Inv /\ [Next]_vars => Inv'
<1> SUFFICES ASSUME Inv, [Next]_vars PROVE Inv'
    OBVIOUS
<1> DEFINE Resolved == /\ role["a"] = role["b"]
                       /\ role' = [x \in Agents |-> Final(x)]
<1>1. UNCHANGED role \/ Resolved
    BY RoleStep
<1>2. TypeOK'
    BY TypeInvariant DEF Inv
<1>3. StaleChecksMeanFinal'
    <2> SUFFICES ASSUME NEW x \in Agents, NEW r \in Roles,
                        Msg("request", x, r) \in net', r # role'[x],
                        NEW y \in Agents
                 PROVE  role'[y] = Final(y)
        BY DEF StaleChecksMeanFinal, Final
    <2>1. CASE Resolved
        BY <2>1
    <2>2. CASE UNCHANGED role
        BY <2>2, NewMessages DEF Inv, StaleChecksMeanFinal
    <2> QED
        BY <1>1, <2>1, <2>2
<1>4. RefusedByFinal'
    <2> SUFFICES ASSUME NEW x \in Agents, NEW r \in Roles,
                        Msg("conflict", x, r) \in net'
                 PROVE  r = OtherRole(Final(x)) /\ role'[Peer(x)] = Final(Peer(x))
        BY DEF RefusedByFinal, Final
    <2>1. CASE Msg("conflict", x, r) \in net
        BY <1>1, <2>1, FinalRoles DEF Inv, RefusedByFinal
    <2> QED
        BY <2>1, NewMessages
<1>5. SuccessMeansAgreed'
    <2> SUFFICES ASSUME NEW x \in Agents, NEW r \in Roles,
                        Msg("success", x, r) \in net'
                 PROVE  role'[x] = r /\ role'[Peer(x)] # r
        BY DEF SuccessMeansAgreed
    <2>1. CASE Msg("success", x, r) \in net
        BY <1>1, <2>1, FinalRoles DEF Inv, SuccessMeansAgreed, Agents
    <2> QED
        BY <2>1, NewMessages
<1>6. AnsweredMeansAgreed'
    <2>1. CASE Resolved
        BY <2>1, FinalRoles DEF AnsweredMeansAgreed, Agents, Peer
    <2>2. CASE UNCHANGED role /\ answered' = answered
        BY <2>2 DEF Inv, AnsweredMeansAgreed
    <2>3. CASE UNCHANGED role /\ answered' # answered
        <3>1. PICK x \in Agents, r \in Roles : Success(x, r)
            BY <2>3 DEF Next, Send, Timeout, Answer, Conflict, vars
        <3>2. role[x] # role[Peer(x)]
            BY <3>1 DEF Success, Inv, SuccessMeansAgreed
        <3> QED
            BY <2>3, <3>2 DEF AnsweredMeansAgreed, Agents, Peer
    <2> QED
        BY <1>1, <2>1, <2>2, <2>3
<1> QED
    BY <1>2, <1>3, <1>4, <1>5, <1>6 DEF Inv

-----------------------------------------------------------------------------

LEMMA InvHolds == Spec => []Inv
<1> QED
    BY InvInit, InvNext, PTL DEF Spec

\* The state variables keep their types.
THEOREM TypeCorrect == Spec => []TypeOK
<1>1. Inv => TypeOK
    BY DEF Inv
<1> QED
    BY <1>1, InvHolds, PTL

\* An agent that has seen a check succeed is in the role opposite to its
\* peer's, and stays so.
THEOREM AnsweredCorrect == Spec => []AnsweredMeansAgreed
<1>1. Inv => AnsweredMeansAgreed
    BY DEF Inv
<1> QED
    BY <1>1, InvHolds, PTL

\* No success response in the network is outdated.
THEOREM SuccessCorrect == Spec => []SuccessMeansAgreed
<1>1. Inv => SuccessMeansAgreed
    BY DEF Inv
<1> QED
    BY <1>1, InvHolds, PTL

\* Roles that differ never change again.
THEOREM AgreementStays == Spec => AgreementIsStable
<1>1. Inv /\ [Next]_vars => [role["a"] # role["b"] => UNCHANGED role]_vars
    BY RoleStep
<1> QED
    BY <1>1, InvHolds, PTL DEF Spec, AgreementIsStable

\* A check whose answer is taken in, whatever the answer, leaves the agents in
\* opposite roles.
THEOREM OneAnswerSettles == Spec => AnswerSettles
<1>1. Inv /\ [Next]_vars =>
          [(\E x \in Agents, r \in Roles : Conflict(x, r) \/ Success(x, r)) =>
              role'["a"] # role'["b"]]_vars
    <2> SUFFICES ASSUME Inv, NEW x \in Agents, NEW r \in Roles,
                        Conflict(x, r) \/ Success(x, r)
                 PROVE  role'["a"] # role'["b"]
        OBVIOUS
    <2>1. CASE Conflict(x, r)
        <3>1. r = OtherRole(Final(x)) /\ role[Peer(x)] = Final(Peer(x))
            BY <2>1 DEF Conflict, Inv, RefusedByFinal
        <3>2. role'[x] = Final(x) /\ role'[Peer(x)] = Final(Peer(x))
            BY <2>1, <3>1, FinalRoles DEF Conflict, Inv, TypeOK
        <3> QED
            BY <3>2, FinalRoles DEF Agents, Peer
    <2>2. CASE Success(x, r)
        <3>1. role[x] = r /\ role[Peer(x)] # r /\ UNCHANGED role
            BY <2>2 DEF Success, Inv, SuccessMeansAgreed
        <3> QED
            BY <3>1 DEF Agents, Peer
    <2> QED
        BY <2>1, <2>2
<1> QED
    BY <1>1, InvHolds, PTL DEF Spec, AnswerSettles

\* The exchange of checks and answers implements the resolution of a conflict
\* in one step.
THEOREM Implements == Spec => AgreementSpec
<1>1. Init => Agreement!Init
    BY DEF Init, Agreement!Init, Agreement!Agents, Agreement!Roles, Agents, Roles
<1>2. Inv /\ [Next]_vars => [Agreement!Resolve]_role
    BY RoleStep DEF Agreement!Resolve, Agreement!Agents, Agreement!Final,
                    Agreement!Peer, Agents, Final, Peer
<1> QED
    BY <1>1, <1>2, InvHolds, PTL DEF Spec, AgreementSpec, Agreement!Spec
=============================================================================
