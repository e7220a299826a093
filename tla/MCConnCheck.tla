----------------------------- MODULE MCConnCheck -----------------------------
(***************************************************************************)
(* Pairs for up to two components: h1 is a host-host pair, s1 and s2 are   *)
(* pairs of lower priority whose checks run through a NAT, r1 is a relayed *)
(* pair, and d1 is the pair that checks of s1 may discover.  s2 belongs to *)
(* the second component; it matches s1, which h1 precedes by priority.     *)
(* The .cfg files choose which of them take part.                          *)
(* With force-relay, those that take part stand for pairs of relayed local *)
(* candidates, d1 for one of another candidate, known by its address.      *)
(***************************************************************************)
EXTENDS ConnCheck

\* The pairs by decreasing priority.  Priorities differ between the roles by
\* the last bit of agent_candidate_pair_priority.
Ranking == <<"h1", "s1", "s2", "r1", "d1">>
Rank(p) == CHOOSE n \in DOMAIN Ranking : Ranking[n] = p

MCParent == [p \in Reflexive |-> "s1"]
MCCompOf == [p \in Pairs |-> IF p = "s2" THEN 2 ELSE 1]
MCFoundation == [p \in Pairs |-> IF p \in {"s1", "s2"} THEN "nat" ELSE p]
MCPrioControlling == [p \in Pairs |-> 20 - 2 * Rank(p)]
MCPrioControlled == [p \in Pairs |-> 21 - 2 * Rank(p)]
MCHostHost == {"h1"} \cap Pairs
MCCompatible == {<<"s1", "s2">>, <<"s2", "s1">>}
MCSockOf ==
    [p \in Pairs |-> CASE p = "h1" -> "v4a" [] p = "s2" -> "v6b"
                       [] p \in {"s1", "d1"} -> "v6a"
                       [] OTHER -> "relay"]
=============================================================================
