-------------------------- MODULE ConnCheck_proofs --------------------------
(***************************************************************************)
(* For every set of pairs, number of components, nomination mode and       *)
(* environment: the type invariant, that the triggered-check queue is      *)
(* sound, and that only valid pairs are nominated.                         *)
(*                                                                         *)
(* The handlers are built from operators on the agent record, so the       *)
(* invariant is stated of a record, WellFormed(a), and there is one lemma  *)
(* per operator saying that its result is well formed.                     *)
(***************************************************************************)
EXTENDS ConnCheck, FiniteSetTheorems, TLAPS

\* The places of the queued pairs are distinct and bounded by their number.
PlacesOK(place) ==
    /\ place \in [Pairs -> Nat]
    /\ \A p, q \in Queued(place) : place[p] = place[q] => p = q
    /\ \A p \in Queued(place) : place[p] <= Cardinality(Queued(place))

TxnsFinite(a) == \A p \in Pairs : IsFiniteSet(a.txns[p])
QueueListed(a) == Queued(a.place) \subseteq a.list
FlagsOK(a) ==
    /\ ForceRelay \/ a.nominated \subseteq a.valid
    /\ a.nominated \subseteq a.list
    /\ a.valid \subseteq a.list

WellFormed(a) ==
    /\ a \in AgentType
    /\ TxnsFinite(a)
    /\ PlacesOK(a.place)
    /\ QueueListed(a)
    /\ FlagsOK(a)

Inv == WellFormed(ag) /\ run \in RunType

-----------------------------------------------------------------------------
(* Constants. *)

LEMMA PairsFinite ==
    /\ IsFiniteSet(Pairs)
    /\ \A S \in SUBSET Pairs : IsFiniteSet(S) /\ Cardinality(S) \in Nat
<1>1. IsFiniteSet(Pairs)
    BY Zenon, ConnCheckAssumption, FS_Union DEF Pairs
<1> QED
    BY <1>1, FS_Subset, FS_CardinalityType

LEMMA PrioType ==
    ASSUME NEW role, NEW p \in Pairs
    PROVE  Prio(role, p) \in Nat \ {0}
BY ConnCheckAssumption DEF Prio

-----------------------------------------------------------------------------
(* The triggered-check queue. *)

\* A pair is queued behind the others, once.
LEMMA EnqueueOK ==
    ASSUME NEW place, PlacesOK(place), NEW p \in Pairs
    PROVE  /\ PlacesOK(Enqueue(place, p))
           /\ Queued(Enqueue(place, p)) = Queued(place) \cup {p}
<1> DEFINE new == Enqueue(place, p)
           n == Cardinality(Queued(place))
<1>1. CASE place[p] > 0
    BY <1>1 DEF Enqueue, Queued
<1>2. CASE ~ (place[p] > 0)
    <2>1. n \in Nat /\ IsFiniteSet(Queued(place)) /\ p \notin Queued(place)
        BY <1>2, PairsFinite DEF Queued
    <2>2. new = [place EXCEPT ![p] = n + 1]
        BY <1>2 DEF Enqueue
    <2>3. new \in [Pairs -> Nat] /\ new[p] = n + 1
          /\ \A q \in Pairs : q # p => new[q] = place[q]
        BY <2>1, <2>2 DEF PlacesOK
    <2> HIDE DEF new
    <2>4. Queued(new) = Queued(place) \cup {p}
        BY <2>1, <2>3 DEF Queued
    <2>5. Cardinality(Queued(new)) = n + 1
        BY <2>1, <2>4, FS_AddElement
    <2>6. \A q, r \in Queued(new) : new[q] = new[r] => q = r
        BY <2>1, <2>3, <2>4 DEF PlacesOK, Queued
    <2>7. \A q \in Queued(new) : new[q] <= n + 1
        BY <2>1, <2>3, <2>4 DEF PlacesOK, Queued
    <2>8. PlacesOK(new)
        BY <2>3, <2>5, <2>6, <2>7 DEF PlacesOK
    <2> QED
        BY <2>4, <2>8 DEF new
<1> QED
    BY <1>1, <1>2

\* Pairs that leave the queue close the gaps.
LEMMA DequeueOK ==
    ASSUME NEW place, PlacesOK(place), NEW S
    PROVE  /\ PlacesOK(Dequeue(place, S))
           /\ Queued(Dequeue(place, S)) = Queued(place) \ S
<1> DEFINE new == Dequeue(place, S)
           left == Queued(place) \ S
           upto(p) == {q \in left : place[q] <= place[p]}
<1>1. \A p \in Pairs : place[p] \in Nat
    BY DEF PlacesOK
<1>2. /\ left \subseteq Pairs /\ IsFiniteSet(left) /\ Cardinality(left) \in Nat
      /\ \A p : IsFiniteSet(upto(p)) /\ Cardinality(upto(p)) \in Nat
    BY PairsFinite DEF Queued
<1>3. \A p \in Pairs : p \in left => new[p] = Cardinality(upto(p))
    BY DEF Dequeue, Queued
<1>4. \A p \in Pairs : p \notin left => new[p] = 0
    BY <1>1 DEF Dequeue, Queued
<1>5. new \in [Pairs -> Nat]
    <2>1. new = [p \in Pairs |-> IF p \in S \/ place[p] = 0 THEN 0
                                 ELSE Cardinality(upto(p))]
        BY DEF Dequeue
    <2> HIDE DEF new, upto
    <2> QED
        BY <1>2, <2>1
<1>6. \A p \in left : p \in upto(p) /\ upto(p) \subseteq left
    BY <1>1, <1>2
<1>7. \A p \in left : Cardinality(upto(p)) > 0
    <2> TAKE p \in left
    <2>1. upto(p) # {}
        BY <1>6
    <2> HIDE DEF upto
    <2> QED
        BY <1>2, <2>1, FS_EmptySet
<1>8. \A p, q \in left : place[p] < place[q] =>
          Cardinality(upto(p)) < Cardinality(upto(q))
    <2> TAKE p, q \in left
    <2> HAVE place[p] < place[q]
    <2>1. upto(p) \subseteq upto(q) /\ upto(p) # upto(q)
        <3>1. upto(p) \subseteq upto(q)
            BY <1>1, <1>2
        <3>2. q \in upto(q) /\ q \notin upto(p)
            BY <1>1, <1>2
        <3> QED
            BY <3>1, <3>2
    <2> HIDE DEF upto
    <2> QED
        BY <1>2, <2>1, FS_Subset
<1>9. \A p \in left : Cardinality(upto(p)) <= Cardinality(left)
    <2> TAKE p \in left
    <2>1. upto(p) \subseteq left
        OBVIOUS
    <2> HIDE DEF upto
    <2> QED
        BY <1>2, <2>1, FS_Subset
<1> HIDE DEF new, upto
<1>10. Queued(new) = left
    BY <1>2, <1>3, <1>4, <1>7 DEF Queued
<1>11. \A p, q \in left : new[p] = new[q] => p = q
    <2> TAKE p, q \in left
    <2> HAVE new[p] = new[q]
    <2>1. ~ (place[p] < place[q]) /\ ~ (place[q] < place[p])
        BY <1>2, <1>3, <1>8
    <2>2. place[p] = place[q]
        BY <1>1, <1>2, <2>1
    <2> QED
        BY <2>2 DEF PlacesOK
<1>12. \A p \in left : new[p] <= Cardinality(left)
    BY <1>2, <1>3, <1>9
<1>13. PlacesOK(new)
    <2> HIDE DEF left
    <2> QED
        BY <1>5, <1>10, <1>11, <1>12 DEF PlacesOK
<1> QED
    BY <1>10, <1>13 DEF new

-----------------------------------------------------------------------------
(* Freeing and failing pairs, signals and the selected pair. *)

\* What the invariant says of a record depends on five of its fields.
Same(a, b) ==
    /\ b.list = a.list /\ b.place = a.place /\ b.txns = a.txns
    /\ b.nominated = a.nominated /\ b.valid = a.valid

LEMMA Framed ==
    ASSUME NEW a, WellFormed(a), NEW b \in AgentType, Same(a, b)
    PROVE  WellFormed(b)
BY DEF Same, WellFormed, TxnsFinite, QueueListed, FlagsOK

LEMMA FreePairsOK ==
    ASSUME NEW a, WellFormed(a), NEW S
    PROVE  WellFormed(FreePairs(a, S))
<1> DEFINE b == FreePairs(a, S)
<1>1. /\ PlacesOK(Dequeue(a.place, S))
      /\ Queued(Dequeue(a.place, S)) = Queued(a.place) \ S
    BY DequeueOK DEF WellFormed
<1>2. b \in AgentType
    <2>1. Dequeue(a.place, S) \in [Pairs -> Nat]
        BY <1>1 DEF PlacesOK
    <2>2. [p \in Pairs |-> IF p \in S THEN "FROZEN" ELSE a.state[p]]
             \in [Pairs -> CheckStates]
        BY DEF WellFormed, AgentType, CheckStates
    <2>3. [p \in Pairs |-> IF p \in S THEN {} ELSE a.txns[p]]
             \in [Pairs -> SUBSET Txn]
        BY DEF WellFormed, AgentType
    <2>4. [p \in Checkable |-> IF p \in S THEN NoPair ELSE a.disc[p]]
             \in [Checkable -> Reflexive \cup {NoPair}]
        BY DEF WellFormed, AgentType
    <2> QED
        BY Zenon, <2>1, <2>2, <2>3, <2>4 DEF FreePairs, WellFormed, AgentType
<1>3. /\ b.list = a.list \ S /\ b.place = Dequeue(a.place, S)
      /\ b.nominated = a.nominated \ S /\ b.valid = a.valid \ S
      /\ b.txns = [p \in Pairs |-> IF p \in S THEN {} ELSE a.txns[p]]
    BY DEF FreePairs, WellFormed, AgentType
<1>4. TxnsFinite(b)
    BY <1>3, FS_EmptySet DEF WellFormed, TxnsFinite
<1> HIDE DEF b
<1>5. QueueListed(b) /\ FlagsOK(b)
    BY <1>1, <1>3 DEF WellFormed, QueueListed, FlagsOK
<1>6. WellFormed(b)
    BY <1>1, <1>2, <1>3, <1>4, <1>5 DEF WellFormed
<1> QED
    BY <1>6 DEF b

LEMMA RemoveTxnsOK ==
    ASSUME NEW a, WellFormed(a), NEW p \in Pairs, NEW T
    PROVE  WellFormed(RemoveTxns(a, p, T))
<1> DEFINE b == RemoveTxns(a, p, T)
<1>1. b \in AgentType
    BY ZenonT(30) DEF RemoveTxns, WellFormed, AgentType
<1>2. /\ b.list = a.list /\ b.place = a.place
      /\ b.nominated = a.nominated /\ b.valid = a.valid
      /\ b.txns = [a.txns EXCEPT ![p] = @ \ T]
    BY DEF RemoveTxns, WellFormed, AgentType
<1>3. IsFiniteSet(a.txns[p] \ T)
    BY FS_Subset DEF WellFormed, TxnsFinite
<1> HIDE DEF b
<1>4. TxnsFinite(b)
    BY <1>2, <1>3 DEF WellFormed, TxnsFinite, AgentType
<1>5. WellFormed(b)
    BY <1>1, <1>2, <1>4 DEF WellFormed, QueueListed, FlagsOK
<1> QED
    BY <1>5 DEF b

LEMMA FailPairOK ==
    ASSUME NEW a, WellFormed(a), NEW p \in Pairs
    PROVE  WellFormed(FailPair(a, p))
<1> DEFINE b == FailPair(a, p)
<1>1. b \in AgentType
    BY Zenon DEF FailPair, WellFormed, AgentType, CheckStates
<1>2. /\ b.list = a.list /\ b.place = a.place
      /\ b.nominated = a.nominated /\ b.valid = a.valid
      /\ b.txns = [a.txns EXCEPT ![p] = {}]
    BY DEF FailPair, WellFormed, AgentType
<1> HIDE DEF b
<1>3. TxnsFinite(b)
    BY ZenonT(30), <1>2, FS_EmptySet DEF WellFormed, TxnsFinite, AgentType
<1>4. WellFormed(b)
    BY ZenonT(30), <1>1, <1>2, <1>3 DEF WellFormed, QueueListed, FlagsOK
<1> QED
    BY <1>4 DEF b

LEMMA AssertOK ==
    ASSUME NEW a, WellFormed(a), NEW name \in AssertNames, NEW holds
    PROVE  WellFormed(Assert(a, name, holds)) /\ Same(a, Assert(a, name, holds))
<1> DEFINE b == Assert(a, name, holds)
<1>1. b \in AgentType /\ Same(a, b)
    BY ZenonT(30) DEF Assert, WellFormed, AgentType, Same
<1> QED
    BY Zenon, <1>1, Framed

LEMMA SignalOK ==
    ASSUME NEW a, WellFormed(a), NEW c \in Components,
           NEW new \in ComponentStates
    PROVE  WellFormed(Signal(a, c, new)) /\ Same(a, Signal(a, c, new))
<1> DEFINE b == Assert(a, "transition", <<a.cst[c], new>> \in Transitions)
           d == [b EXCEPT !.cst[c] = new]
<1>1. WellFormed(b) /\ Same(a, b)
    BY Zenon, AssertOK DEF AssertNames
<1> HIDE DEF b
<1>2. d \in AgentType /\ Same(b, d)
    BY ZenonT(30), <1>1 DEF WellFormed, AgentType, Same
<1>3. WellFormed(d) /\ Same(a, d)
    BY Zenon, <1>1, <1>2, Framed DEF Same
<1>4. Signal(a, c, new) = IF a.cst[c] = new THEN a ELSE d
    BY DEF Signal, b
<1> HIDE DEF d
<1> QED
    BY Zenon, <1>3, <1>4 DEF Same

LEMMA SignalIfOK ==
    ASSUME NEW a, WellFormed(a), NEW c \in Components, NEW from,
           NEW new \in ComponentStates
    PROVE  /\ WellFormed(SignalIf(a, c, from, new))
           /\ Same(a, SignalIf(a, c, from, new))
BY ZenonT(30), SignalOK DEF SignalIf, Same

LEMMA SignalReadyOK ==
    ASSUME NEW a, WellFormed(a), NEW c \in Components
    PROVE  WellFormed(SignalReady(a, c))
<1> DEFINE b == SignalIf(a, c, {"DISCONNECTED", "GATHERING", "FAILED"},
                         "CONNECTING")
           d == SignalIf(b, c, {"DISCONNECTED", "GATHERING", "CONNECTING"},
                         "CONNECTED")
<1>1. {"CONNECTING", "CONNECTED", "READY"} \subseteq ComponentStates
    BY DEF ComponentStates
<1>2. WellFormed(b)
    BY <1>1, SignalIfOK
<1> HIDE DEF b
<1>3. WellFormed(d)
    BY <1>1, <1>2, SignalIfOK
<1> HIDE DEF d
<1>4. WellFormed(Signal(d, c, "READY"))
    BY <1>1, <1>3, SignalOK
<1> QED
    BY Zenon, <1>4 DEF SignalReady, b, d

LEMMA UpdateSelectedOK ==
    ASSUME NEW a, WellFormed(a), NEW c \in Components, NEW p \in Pairs
    PROVE  WellFormed(UpdateSelected(a, c, p)) /\ Same(a, UpdateSelected(a, c, p))
<1> DEFINE b == Assert(a, "nominated", p \in a.nominated)
           d == [b EXCEPT !.sel[c] = [pair |-> p, prio |-> Prio(a.role, p)]]
<1>1. WellFormed(b) /\ Same(a, b)
    BY AssertOK DEF AssertNames
<1>2. Prio(a.role, p) \in Nat
    BY PrioType
<1> HIDE DEF b
<1>3. d \in AgentType /\ Same(b, d)
    BY Zenon, <1>1, <1>2 DEF WellFormed, AgentType, Same
<1>4. WellFormed(d) /\ Same(a, d)
    BY Zenon, <1>1, <1>3, Framed DEF Same
<1>5. UpdateSelected(a, c, p) = IF Prio(a.role, p) > a.sel[c].prio THEN d ELSE b
    BY DEF UpdateSelected, b
<1> HIDE DEF d
<1> QED
    BY <1>1, <1>4, <1>5

LEMMA PrunePendingOK ==
    ASSUME NEW a, WellFormed(a), NEW c \in Components
    PROVE  WellFormed(PrunePending(a, c))
<1> DEFINE yielding == Busy(a, c) \cap Lower(a, c)
           keeping == {p \in Busy(a, c) \ Lower(a, c) : a.txns[p] # {}}
           b == Assert(a, "selected", a.sel[c].prio > 0)
           d == [b EXCEPT !.place = Dequeue(@, yielding),
                          !.retransmit = (@ \ yielding) \cup keeping]
<1>1. WellFormed(b)
    BY AssertOK DEF AssertNames
<1>2. keeping \subseteq Pairs
    BY DEF Busy, OfComponent, WellFormed, AgentType
<1> HIDE DEF b, keeping, yielding
<1>3. /\ PlacesOK(Dequeue(b.place, yielding))
      /\ Queued(Dequeue(b.place, yielding)) \subseteq Queued(b.place)
    BY <1>1, DequeueOK DEF WellFormed
<1>4. Dequeue(b.place, yielding) \in [Pairs -> Nat]
    BY <1>3 DEF PlacesOK
<1>5. d \in AgentType
    BY Zenon, <1>1, <1>2, <1>4 DEF WellFormed, AgentType
<1>6. /\ d.list = b.list /\ d.txns = b.txns /\ d.nominated = b.nominated
      /\ d.valid = b.valid /\ d.place = Dequeue(b.place, yielding)
    BY <1>1 DEF WellFormed, AgentType
<1> HIDE DEF d
<1>7. WellFormed(d)
    BY <1>1, <1>3, <1>5, <1>6 DEF WellFormed, TxnsFinite, QueueListed, FlagsOK
<1> QED
    BY <1>7, FreePairsOK DEF PrunePending, b, d, yielding, keeping

LEMMA UpdateForReadyOK ==
    ASSUME NEW a, WellFormed(a), NEW c \in Components
    PROVE  WellFormed(UpdateForReady(a, c))
BY PrunePendingOK, SignalReadyOK DEF UpdateForReady

-----------------------------------------------------------------------------
(* Adding pairs, unfreezing, triggered checks and nomination by the peer. *)

LEMMA ScheduleNextOK ==
    ASSUME NEW a, WellFormed(a)
    PROVE  WellFormed(ScheduleNext(a))
<1>1. ScheduleNext(a) \in AgentType /\ Same(a, ScheduleNext(a))
    BY Zenon DEF ScheduleNext, WellFormed, AgentType, Same
<1> QED
    BY <1>1, Framed

LEMMA StopChecksOK ==
    ASSUME NEW a, WellFormed(a)
    PROVE  WellFormed(StopChecks(a))
<1>1. StopChecks(a) \in AgentType /\ Same(a, StopChecks(a))
    BY Zenon DEF StopChecks, WellFormed, AgentType, Same
<1> QED
    BY <1>1, Framed

\* A record with other pair states.
LEMMA StatesOK ==
    ASSUME NEW a, WellFormed(a), NEW st \in [Pairs -> CheckStates]
    PROVE  WellFormed([a EXCEPT !.state = st]) /\ Same(a, [a EXCEPT !.state = st])
<1>1. [a EXCEPT !.state = st] \in AgentType /\ Same(a, [a EXCEPT !.state = st])
    BY Zenon DEF WellFormed, AgentType, Same
<1> QED
    BY <1>1, Framed

LEMMA UnfreezeNextOK ==
    ASSUME NEW a, WellFormed(a)
    PROVE  WellFormed(UnfreezeNext(a))
<1> DEFINE frozen == {p \in a.list : a.state[p] = "FROZEN"}
           first == {p \in frozen :
                       IsFirst(a.role, p, {q \in frozen :
                                             Foundation[q] = Foundation[p]})}
           st == [p \in Pairs |-> IF p \in first THEN "WAITING" ELSE a.state[p]]
<1> HIDE DEF first
<1>1. st \in [Pairs -> CheckStates]
    BY DEF WellFormed, AgentType, CheckStates
<1> HIDE DEF st
<1>2. WellFormed([a EXCEPT !.state = st])
    BY <1>1, StatesOK
<1>3. UnfreezeNext(a) = IF \E p \in a.list : a.state[p] = "WAITING" THEN a
                        ELSE [a EXCEPT !.state = st]
    BY DEF UnfreezeNext, st, first
<1> QED
    BY <1>2, <1>3

LEMMA UnfreezeRelatedOK ==
    ASSUME NEW a, WellFormed(a), NEW p
    PROVE  WellFormed(UnfreezeRelated(a, p)) /\ Same(a, UnfreezeRelated(a, p))
<1> DEFINE st == [q \in Pairs |->
                    IF q \in a.list /\ a.state[q] = "FROZEN"
                       /\ Foundation[q] = Foundation[p]
                    THEN "WAITING" ELSE a.state[q]]
<1>1. st \in [Pairs -> CheckStates]
    BY DEF WellFormed, AgentType, CheckStates
<1>2. UnfreezeRelated(a, p) = [a EXCEPT !.state = st]
    BY DEF UnfreezeRelated
<1> HIDE DEF st
<1> QED
    BY <1>1, <1>2, StatesOK

LEMMA AddPairOK ==
    ASSUME NEW a, WellFormed(a), NEW p \in Pairs, NEW initial \in CheckStates
    PROVE  WellFormed(AddPair(a, p, initial))
<1> DEFINE c == CompOf[p]
           added == [a EXCEPT !.list = @ \cup {p},
                              !.state[p] = NewState(a, p, initial)]
           limited == FreePairs(added, OverLimit(added))
<1>1. c \in Components
    BY ConnCheckAssumption
<1>2. NewState(a, p, initial) \in CheckStates
    BY DEF NewState, CheckStates
<1>3. added \in AgentType
    BY Zenon, <1>2 DEF WellFormed, AgentType
<1>4. /\ added.list = a.list \cup {p} /\ added.place = a.place
      /\ added.txns = a.txns /\ added.nominated = a.nominated
      /\ added.valid = a.valid
    BY DEF WellFormed, AgentType
<1> HIDE DEF added
<1>5. WellFormed(added)
    BY <1>3, <1>4 DEF WellFormed, TxnsFinite, QueueListed, FlagsOK
<1>6. WellFormed(limited)
    BY <1>5, FreePairsOK
<1>7. AddPair(a, p, initial) =
        IF Prio(a.role, p) < a.sel[c].prio THEN a
        ELSE IF p \notin limited.list THEN limited
        ELSE IF a.cst[c] \in {"CONNECTED", "READY"}
        THEN Signal(limited, c, "CONNECTED")
        ELSE Signal(limited, c, "CONNECTING")
    BY DEF AddPair, added
<1> HIDE DEF limited, c
<1>8. /\ WellFormed(Signal(limited, c, "CONNECTED"))
      /\ WellFormed(Signal(limited, c, "CONNECTING"))
    BY <1>1, <1>6, SignalOK DEF ComponentStates
<1> QED
    BY <1>6, <1>7, <1>8

\* A listed pair may be queued.
LEMMA QueuedOK ==
    ASSUME NEW a, WellFormed(a), NEW p \in a.list
    PROVE  WellFormed([a EXCEPT !.place = Enqueue(@, p)])
<1> DEFINE b == [a EXCEPT !.place = Enqueue(@, p)]
<1>1. p \in Pairs
    BY DEF WellFormed, AgentType
<1>2. /\ PlacesOK(Enqueue(a.place, p))
      /\ Queued(Enqueue(a.place, p)) = Queued(a.place) \cup {p}
    BY <1>1, EnqueueOK DEF WellFormed
<1>3. Enqueue(a.place, p) \in [Pairs -> Nat]
    BY <1>2 DEF PlacesOK
<1>4. b \in AgentType
    BY Zenon, <1>3 DEF WellFormed, AgentType
<1>5. /\ b.list = a.list /\ b.txns = a.txns /\ b.nominated = a.nominated
      /\ b.valid = a.valid /\ b.place = Enqueue(a.place, p)
    BY DEF WellFormed, AgentType
<1> HIDE DEF b
<1>6. WellFormed(b)
    BY <1>2, <1>4, <1>5 DEF WellFormed, TxnsFinite, QueueListed, FlagsOK
<1> QED
    BY <1>6 DEF b

LEMMA TriggerListedOK ==
    ASSUME NEW a, WellFormed(a), NEW p \in a.list
    PROVE  WellFormed(TriggerListed(a, p))
<1> DEFINE c == CompOf[p]
           queued == [a EXCEPT !.place = Enqueue(@, p)]
<1>1. c \in Components
    BY ConnCheckAssumption DEF WellFormed, AgentType
<1>2. WellFormed(queued)
    BY QueuedOK
<1>3. TriggerListed(a, p) \in
        {queued, a, ScheduleNext(Signal(queued, c, "CONNECTING")),
         ScheduleNext(Signal(queued, c, "CONNECTED"))}
    BY Zenon DEF TriggerListed
<1> HIDE DEF queued, c
<1>4. /\ WellFormed(ScheduleNext(Signal(queued, c, "CONNECTING")))
      /\ WellFormed(ScheduleNext(Signal(queued, c, "CONNECTED")))
    BY <1>1, <1>2, SignalOK, ScheduleNextOK DEF ComponentStates
<1> QED
    BY <1>2, <1>3, <1>4

LEMMA TriggerCheckOK ==
    ASSUME NEW a, WellFormed(a), NEW p \in Pairs
    PROVE  WellFormed(TriggerCheck(a, p))
<1> DEFINE b == AddPair(a, p, "WAITING")
<1>1. WellFormed(b)
    BY AddPairOK DEF CheckStates
<1>2. p \in a.list => WellFormed(TriggerListed(a, p))
    BY TriggerListedOK
<1>3. WellFormed(Assert(a, "freed", FALSE))
    BY Zenon, AssertOK DEF AssertNames
<1> HIDE DEF b
<1>4. p \in b.list => WellFormed([b EXCEPT !.place = Enqueue(@, p)])
    BY <1>1, QueuedOK
<1> QED
    BY Zenon, <1>1, <1>2, <1>3, <1>4 DEF TriggerCheck, b

LEMMA MarkNominatedOK ==
    ASSUME NEW a, WellFormed(a), NEW p \in Checkable
    PROVE  WellFormed(MarkNominated(a, p))
<1> DEFINE c == CompOf[p]
           n == NominatedBy(a, p)
           marked == IF a.place[n] > 0 \/ a.state[n] = "IN_PROGRESS"
                     THEN [a EXCEPT !.markOnResp = @ \cup {n}] ELSE a
           nominated == [marked EXCEPT !.nominated = @ \cup {n}]
           raised == SignalIf(nominated, c, {"FAILED"}, "CONNECTING")
           chosen == UpdateSelected(raised, c, n)
           moved == SignalIf(chosen, c, {"CONNECTING"}, "CONNECTED")
<1>1. c \in Components /\ p \in Pairs
    BY ConnCheckAssumption DEF Pairs
<1>2. n \in Pairs
    BY DEF NominatedBy, WellFormed, AgentType, Pairs
<1>3. MarkNominated(a, p) =
        IF a.role = "controlling" \/ p \notin a.list THEN a
        ELSE IF n \in a.valid THEN UpdateForReady(moved, c)
        ELSE IF n \in a.nominated THEN UpdateForReady(marked, c)
        ELSE marked
    BY DEF MarkNominated
<1> HIDE DEF n, c
<1>4. marked \in AgentType /\ Same(a, marked)
    BY Zenon, <1>2 DEF WellFormed, AgentType, Same
<1> HIDE DEF marked
<1>5. WellFormed(marked)
    BY <1>4, Framed
<1>6. ASSUME n \in a.valid PROVE WellFormed(moved)
    <2>1. nominated \in AgentType
        BY ZenonT(30), <1>2, <1>5 DEF WellFormed, AgentType
    <2>2. /\ nominated.list = marked.list /\ nominated.place = marked.place
          /\ nominated.txns = marked.txns /\ nominated.valid = marked.valid
          /\ nominated.nominated = marked.nominated \cup {n}
        BY <1>5 DEF WellFormed, AgentType
    <2> HIDE DEF nominated
    <2>3. n \in marked.valid
        BY <1>4, <1>6 DEF Same
    <2>4. WellFormed(nominated)
        BY <1>5, <2>1, <2>2, <2>3 DEF WellFormed, TxnsFinite, QueueListed, FlagsOK
    <2>5. WellFormed(raised)
        BY <1>1, <2>4, SignalIfOK DEF ComponentStates
    <2> HIDE DEF raised
    <2>6. WellFormed(chosen)
        BY <1>1, <1>2, <2>5, UpdateSelectedOK
    <2> HIDE DEF chosen
    <2> QED
        BY <1>1, <2>6, SignalIfOK DEF ComponentStates
<1> HIDE DEF moved
<1> QED
    BY <1>1, <1>3, <1>5, <1>6, UpdateForReadyOK

LEMMA ReactOK ==
    ASSUME NEW a, WellFormed(a), NEW p \in Checkable, NEW use
    PROVE  WellFormed(React(a, p, use))
<1>1. WellFormed(TriggerCheck(a, p))
    BY TriggerCheckOK DEF Pairs
<1> QED
    BY <1>1, MarkNominatedOK DEF React

-----------------------------------------------------------------------------
(* Sending a check and processing its answer. *)

LEMMA AddTxnOK ==
    ASSUME NEW T \in SUBSET Txn, IsFiniteSet(T), NEW role \in Roles
    PROVE  AddTxn(T, role) \in SUBSET Txn /\ IsFiniteSet(AddTxn(T, role))
<1> DEFINE f(t) == [t EXCEPT !.id = Cardinality({u \in T : u.id <= t.id})]
           new == [id |-> Cardinality(T) + 1, role |-> role, open |-> TRUE]
<1>1. Cardinality(T) \in Nat
      /\ \A t : Cardinality({u \in T : u.id <= t.id}) \in Nat
    BY FS_Subset, FS_CardinalityType
<1>2. \A t \in T : f(t) \in Txn
    BY <1>1 DEF Txn
<1>3. Ranked(T) = {f(t) : t \in T}
    BY DEF Ranked
<1> HIDE DEF f
<1>4. IsFiniteSet({f(t) : t \in T})
    <2> DEFINE g == [t \in T |-> f(t)]
    <2>1. g \in Surjection(T, {f(t) : t \in T})
        BY DEF Surjection
    <2> HIDE DEF g
    <2> QED
        BY <2>1, FS_Surjection
<1>5. new \in Txn
    BY <1>1 DEF Txn
<1>6. AddTxn(T, role) = Ranked(T) \cup {new}
    BY DEF AddTxn
<1> HIDE DEF new
<1> QED
    BY <1>2, <1>3, <1>4, <1>5, <1>6, FS_AddElement

LEMMA InitiateOK ==
    ASSUME NEW a, WellFormed(a), NEW p \in Pairs, NEW sent
    PROVE  WellFormed(Initiate(a, p, sent))
<1> DEFINE b == [a EXCEPT !.state[p] = "IN_PROGRESS"]
           d == [b EXCEPT !.txns[p] = AddTxn(@, a.role),
                          !.retransmit = @ \cup {p}]
<1>1. b \in AgentType /\ Same(a, b)
    BY Zenon DEF WellFormed, AgentType, Same, CheckStates
<1>2. WellFormed(b)
    BY <1>1, Framed
<1> HIDE DEF b
<1>3. /\ AddTxn(b.txns[p], a.role) \in SUBSET Txn
      /\ IsFiniteSet(AddTxn(b.txns[p], a.role))
    BY Zenon, <1>2, AddTxnOK DEF WellFormed, AgentType, TxnsFinite
<1>4. d \in AgentType
    BY ZenonT(30), <1>2, <1>3 DEF WellFormed, AgentType
<1>5. /\ d.list = b.list /\ d.place = b.place /\ d.nominated = b.nominated
      /\ d.valid = b.valid
      /\ d.txns = [b.txns EXCEPT ![p] = AddTxn(@, a.role)]
    BY <1>2 DEF WellFormed, AgentType
<1> HIDE DEF d
<1>6. TxnsFinite(d)
    BY Zenon, <1>2, <1>3, <1>5 DEF WellFormed, TxnsFinite, AgentType
<1>7. WellFormed(d)
    BY <1>2, <1>4, <1>5, <1>6 DEF WellFormed, QueueListed, FlagsOK
<1>8. WellFormed(UpdateForReady(FailPair(b, p), CompOf[p]))
    BY <1>2, FailPairOK, UpdateForReadyOK, ConnCheckAssumption
<1> QED
    BY <1>7, <1>8 DEF Initiate, b, d

LEMMA ReflectOK ==
    ASSUME NEW a, WellFormed(a), NEW p \in Checkable, p \in a.list,
           NEW q \in Pairs, q = p \/ q \in Reflexive
    PROVE  WellFormed(Reflect(a, p, q)) /\ q \in Reflect(a, p, q).valid
<1> DEFINE b == Reflect(a, p, q)
           place == Dequeue(a.place, {p})
<1>1. PlacesOK(place) /\ Queued(place) \subseteq Queued(a.place)
    BY DequeueOK DEF WellFormed
<1>2. place \in [Pairs -> Nat]
    BY <1>1 DEF PlacesOK
<1>3. p \in Pairs
    BY DEF Pairs
<1> DEFINE st == [a.state EXCEPT ![p] = "SUCCEEDED",
                                 ![q] = IF q = p THEN "SUCCEEDED"
                                        ELSE "DISCOVERED"]
           nom == IF q \notin a.list /\ p \in a.nominated
                  THEN a.nominated \cup {q} ELSE a.nominated
           di == [a.disc EXCEPT ![p] = IF q \in a.list THEN @ ELSE q]
           tx == [a.txns EXCEPT ![p] = {}]
<1>4. b = [a EXCEPT !.state = st, !.list = @ \cup {q}, !.nominated = nom,
                    !.valid = @ \cup {q}, !.disc = di, !.place = place,
                    !.txns = tx, !.retransmit = @ \ {p}]
    BY DEF Reflect, WellFormed, AgentType
<1>5. st \in [Pairs -> CheckStates]
    BY <1>3 DEF WellFormed, AgentType, CheckStates
<1>6. /\ di \in [Checkable -> Reflexive \cup {NoPair}]
      /\ tx \in [Pairs -> SUBSET Txn]
      /\ nom \subseteq a.nominated \cup {q}
    BY DEF WellFormed, AgentType
<1> HIDE DEF b, place, st, nom, di, tx
<1>7. b \in AgentType
    BY ZenonT(30), <1>2, <1>4, <1>5, <1>6 DEF WellFormed, AgentType
<1>8. /\ b.list = a.list \cup {q} /\ b.place = place
      /\ b.valid = a.valid \cup {q}
      /\ b.nominated \subseteq a.nominated \cup {q}
      /\ b.txns = [a.txns EXCEPT ![p] = {}]
    BY <1>4, <1>6 DEF WellFormed, AgentType, tx
<1>9. TxnsFinite(b)
    BY <1>3, <1>8, FS_EmptySet DEF WellFormed, TxnsFinite, AgentType
<1>10. WellFormed(b) /\ q \in b.valid
    BY <1>1, <1>7, <1>8, <1>9 DEF WellFormed, QueueListed, FlagsOK
<1> QED
    BY <1>10 DEF b

LEMMA ReflectNothingOK ==
    ASSUME NEW a, WellFormed(a), NEW p \in a.list
    PROVE  WellFormed(ReflectNothing(a, p)) /\ p \in ReflectNothing(a, p).list
<1> DEFINE b == ReflectNothing(a, p)
           place == Dequeue(a.place, {p})
<1>1. p \in Pairs
    BY DEF WellFormed, AgentType
<1>2. PlacesOK(place) /\ Queued(place) \subseteq Queued(a.place)
    BY DequeueOK DEF WellFormed
<1>3. place \in [Pairs -> Nat]
    BY <1>2 DEF PlacesOK
<1>4. b = [a EXCEPT !.state = [a.state EXCEPT ![p] = "SUCCEEDED"],
                    !.place = place, !.txns = [a.txns EXCEPT ![p] = {}],
                    !.retransmit = @ \ {p}]
    BY DEF ReflectNothing, WellFormed, AgentType
<1> HIDE DEF b, place
<1>5. b \in AgentType
    BY Zenon, <1>1, <1>3, <1>4 DEF WellFormed, AgentType, CheckStates
<1>6. /\ b.list = a.list /\ b.place = place /\ b.valid = a.valid
      /\ b.nominated = a.nominated /\ b.txns = [a.txns EXCEPT ![p] = {}]
    BY <1>4 DEF WellFormed, AgentType
<1>7. TxnsFinite(b)
    BY <1>1, <1>6, FS_EmptySet DEF WellFormed, TxnsFinite, AgentType
<1>8. WellFormed(b) /\ p \in b.list
    BY <1>2, <1>5, <1>6, <1>7 DEF WellFormed, QueueListed, FlagsOK
<1> QED
    BY <1>8 DEF b

LEMMA NoReflectOK ==
    ASSUME NEW a, WellFormed(a), NEW p \in a.list
    PROVE  WellFormed(NoReflect(a, p)) /\ p \in NoReflect(a, p).valid
<1> DEFINE b == NoReflect(a, p)
<1>1. p \in Pairs
    BY DEF WellFormed, AgentType
<1>2. b \in AgentType
    BY Zenon, <1>1 DEF NoReflect, WellFormed, AgentType, CheckStates
<1>3. /\ b.list = a.list /\ b.place = a.place /\ b.txns = a.txns
      /\ b.nominated = a.nominated /\ b.valid = a.valid \cup {p}
    BY DEF NoReflect, WellFormed, AgentType
<1> HIDE DEF b
<1>4. WellFormed(b) /\ p \in b.valid
    BY <1>2, <1>3 DEF WellFormed, TxnsFinite, QueueListed, FlagsOK
<1> QED
    BY <1>4 DEF b

LEMMA ConcludeOK ==
    ASSUME NEW a, WellFormed(a), NEW p \in Pairs, NEW ok \in a.list,
           ForceRelay \/ ok \in a.valid
    PROVE  WellFormed(Conclude(a, p, ok))
<1> DEFINE c == CompOf[p]
           thawed == UnfreezeRelated(a, p)
           flagged == IF NominatesOnReply(thawed, p)
                      THEN [thawed EXCEPT !.nominated = @ \cup {ok}] ELSE thawed
           selected == UpdateSelected(flagged, c, ok)
           moved == IF selected.cst[c] = "READY" THEN selected
                    ELSE Signal(selected, c, "CONNECTED")
<1>1. c \in Components /\ ok \in Pairs
    BY ConnCheckAssumption DEF WellFormed, AgentType
<1>2. Conclude(a, p, ok) =
        IF ok \in flagged.nominated THEN UpdateForReady(moved, c)
        ELSE UpdateForReady(flagged, c)
    BY DEF Conclude
<1> HIDE DEF c
<1>3. /\ WellFormed(thawed) /\ ok \in thawed.list
      /\ ForceRelay \/ ok \in thawed.valid
    BY UnfreezeRelatedOK DEF Same
<1> HIDE DEF thawed
<1>4. WellFormed([thawed EXCEPT !.nominated = @ \cup {ok}])
    <2> DEFINE b == [thawed EXCEPT !.nominated = @ \cup {ok}]
    <2>1. b \in AgentType
        BY ZenonT(30), <1>1, <1>3 DEF WellFormed, AgentType
    <2>2. /\ b.list = thawed.list /\ b.place = thawed.place
          /\ b.txns = thawed.txns /\ b.valid = thawed.valid
          /\ b.nominated = thawed.nominated \cup {ok}
        BY <1>3 DEF WellFormed, AgentType
    <2> HIDE DEF b
    <2>3. WellFormed(b)
        BY <1>3, <2>1, <2>2 DEF WellFormed, TxnsFinite, QueueListed, FlagsOK
    <2> QED
        BY <2>3 DEF b
<1>5. WellFormed(flagged)
    BY <1>3, <1>4
<1> HIDE DEF flagged
<1>6. WellFormed(selected)
    BY <1>1, <1>5, UpdateSelectedOK
<1> HIDE DEF selected
<1>7. WellFormed(moved)
    BY <1>1, <1>6, SignalOK DEF ComponentStates
<1> HIDE DEF moved
<1> QED
    BY <1>1, <1>2, <1>5, <1>7, UpdateForReadyOK

-----------------------------------------------------------------------------
(* The actions: answers and requests. *)

\* A conclusion may set fields that the invariant does not read.
LEMMA SettledOK ==
    ASSUME NEW a, WellFormed(a)
    PROVE  WellFormed([a EXCEPT !.settled = TRUE])
<1>1. [a EXCEPT !.settled = TRUE] \in AgentType
      /\ Same(a, [a EXCEPT !.settled = TRUE])
    BY Zenon DEF WellFormed, AgentType, Same
<1> QED
    BY <1>1, Framed

LEMMA NoRunType == NoRun \in RunType
BY DEF NoRun, RunType

LEMMA ResponseSuccessOK ==
    ASSUME Inv, NEW p \in Checkable, NEW t, NEW q \in Pairs,
           ResponseSuccess(p, t, q)
    PROVE  Inv'
<1>1. p \in ag.list /\ (q = p \/ q \in Reflexive)
    BY DEF ResponseSuccess, Answered, HasTxn
<1>2. WellFormed(Reflect(ag, p, q)) /\ q \in Reflect(ag, p, q).valid
    BY <1>1, ReflectOK DEF Inv
<1>3. q \in Reflect(ag, p, q).list
    BY <1>2 DEF WellFormed, FlagsOK
<1>4. WellFormed(Conclude(Reflect(ag, p, q), p, q))
    BY <1>2, <1>3, ConcludeOK DEF Pairs
<1> QED
    BY <1>4, SettledOK DEF ResponseSuccess, Inv

LEMMA ResponseUnmatchedOK ==
    ASSUME Inv, NEW p \in Checkable, NEW t, ResponseUnmatched(p, t)
    PROVE  Inv'
<1>1. p \in ag.list /\ p \in Pairs /\ ForceRelay
    BY DEF ResponseUnmatched, Answered, HasTxn, Pairs
<1>2. WellFormed(ReflectNothing(ag, p)) /\ p \in ReflectNothing(ag, p).list
    BY <1>1, ReflectNothingOK DEF Inv
<1>3. WellFormed(Conclude(ReflectNothing(ag, p), p, p))
    BY <1>1, <1>2, ConcludeOK
<1> QED
    BY <1>3, SettledOK DEF ResponseUnmatched, Inv

LEMMA ResponseNoMappedOK ==
    ASSUME Inv, NEW p \in Checkable, NEW t, ResponseNoMapped(p, t)
    PROVE  Inv'
<1> DEFINE b == RemoveTxns(ag, p, {t})
<1>1. p \in ag.list /\ p \in Pairs
    BY DEF ResponseNoMapped, Answered, HasTxn, Pairs
<1>2. WellFormed(b)
    BY <1>1, RemoveTxnsOK DEF Inv
<1>3. p \in b.list
    BY <1>1 DEF RemoveTxns, Inv, WellFormed, AgentType
<1> HIDE DEF b
<1>4. WellFormed(NoReflect(b, p)) /\ p \in NoReflect(b, p).valid
    BY <1>2, <1>3, NoReflectOK
<1>5. WellFormed(Conclude(NoReflect(b, p), p, p))
    <2>1. p \in NoReflect(b, p).list
        BY <1>4 DEF WellFormed, FlagsOK
    <2> QED
        BY <1>1, <1>4, <2>1, ConcludeOK
<1> QED
    BY <1>5, SettledOK DEF ResponseNoMapped, Inv, b

LEMMA ResponseBadOK ==
    ASSUME Inv, NEW p \in Checkable, NEW t, ResponseBad(p, t)
    PROVE  Inv'
<1>1. WellFormed(UpdateForReady(FailPair(ag, p), CompOf[p]))
    BY FailPairOK, UpdateForReadyOK, ConnCheckAssumption DEF Inv, Pairs
<1> QED
    BY <1>1 DEF ResponseBad, Inv

LEMMA ResponseConflictOK ==
    ASSUME Inv, NEW p \in Checkable, NEW t \in ag.txns[p], ResponseConflict(p, t)
    PROVE  Inv'
<1>1. p \in ag.list /\ p \in Pairs /\ t \in Txn
    BY DEF ResponseConflict, Answered, HasTxn, Pairs, Inv, WellFormed, AgentType
<1>2. CASE p \notin ag.retransmit
    <2> DEFINE T == (ag.txns[p] \ {t}) \cup {[t EXCEPT !.open = FALSE]}
               b == [ag EXCEPT !.txns[p] = T]
    <2>1. ag' = b
        BY <1>2 DEF ResponseConflict
    <2>2. T \in SUBSET Txn /\ IsFiniteSet(T)
        <3> DEFINE e == [t EXCEPT !.open = FALSE]
                   R == ag.txns[p] \ {t}
        <3>1. e \in Txn
            BY Zenon, <1>1 DEF Txn
        <3>2. IsFiniteSet(R) /\ R \in SUBSET Txn
            BY <1>1, FS_Subset DEF Inv, WellFormed, TxnsFinite, AgentType
        <3> HIDE DEF e, R
        <3>3. IsFiniteSet(R \cup {e}) /\ R \cup {e} \in SUBSET Txn
            BY <3>1, <3>2, FS_AddElement
        <3> QED
            BY <3>3 DEF e, R
    <2> HIDE DEF T
    <2>3. b \in AgentType
        BY Zenon, <1>1, <2>2 DEF Inv, WellFormed, AgentType
    <2>4. /\ b.list = ag.list /\ b.place = ag.place
          /\ b.nominated = ag.nominated /\ b.valid = ag.valid
          /\ b.txns = [ag.txns EXCEPT ![p] = T]
        BY DEF Inv, WellFormed, AgentType
    <2> HIDE DEF b
    <2>5. TxnsFinite(b)
        BY <2>2, <2>4 DEF Inv, WellFormed, TxnsFinite, AgentType
    <2>6. WellFormed(b)
        BY <2>3, <2>4, <2>5 DEF Inv, WellFormed, QueueListed, FlagsOK
    <2> QED
        BY <2>1, <2>6 DEF ResponseConflict, Inv
<1>3. CASE p \in ag.retransmit
    <2> DEFINE b == RemoveTxns(ag, p, {t})
               d == [b EXCEPT !.role = OtherRole(t.role),
                              !.settled = @ \/ t.role = ag.role]
    <2>1. WellFormed(b) /\ p \in b.list
        <3>1. WellFormed(b)
            BY <1>1, RemoveTxnsOK DEF Inv
        <3>2. p \in b.list
            BY <1>1 DEF Inv, RemoveTxns, WellFormed, AgentType
        <3> QED
            BY <3>1, <3>2
    <2> HIDE DEF b
    <2>2. d \in AgentType
        <3>1. OtherRole(t.role) \in Roles
            BY DEF OtherRole, Roles
        <3>2. (b.settled \/ t.role = ag.role) \in BOOLEAN
            OBVIOUS
        <3> QED
            BY Zenon, <2>1, <3>1, <3>2 DEF WellFormed, AgentType
    <2>3. Same(b, d)
        BY <2>1 DEF WellFormed, AgentType, Same
    <2>4. WellFormed(d) /\ p \in d.list
        BY Zenon, <2>1, <2>2, <2>3, Framed DEF Same
    <2>5. ag' = [d EXCEPT !.place = Enqueue(@, p)]
        BY <1>3, <2>1 DEF ResponseConflict, b, WellFormed, AgentType
    <2> HIDE DEF d
    <2>6. WellFormed(ag')
        BY <2>4, <2>5, QueuedOK
    <2> QED
        BY <2>6 DEF ResponseConflict, Inv
<1> QED
    BY <1>2, <1>3

LEMMA LearnOK ==
    ASSUME Inv, NEW p \in Checkable, NEW switch
    PROVE  WellFormed(Learn(p, switch))
<1>1. OtherRole(ag.role) \in Roles
    BY DEF OtherRole, Roles
<1>2. Learn(p, switch) \in AgentType /\ Same(ag, Learn(p, switch))
    BY ZenonT(30), <1>1 DEF Learn, Inv, WellFormed, AgentType, Same
<1> QED
    BY <1>2, Framed DEF Inv

LEMMA InboundRequestOK ==
    ASSUME Inv, NEW p \in Checkable, NEW use, NEW switch,
           InboundRequest(p, use, switch)
    PROVE  Inv'
<1>1. WellFormed(React(Learn(p, switch), p, use))
    BY LearnOK, ReactOK
<1> QED
    BY <1>1 DEF InboundRequest, Inv

LEMMA EarlyRequestOK ==
    ASSUME Inv, NEW p \in Checkable, NEW use \in BOOLEAN, NEW switch,
           EarlyRequest(p, use, switch)
    PROVE  Inv'
<1> DEFINE c == CompOf[p]
           a == Learn(p, switch)
           b == [a EXCEPT !.incoming[c] = Append(@, [pair |-> p, use |-> use])]
<1>1. c \in Components
    BY ConnCheckAssumption DEF Pairs
<1>2. WellFormed(a)
    BY LearnOK
<1>3. ag' = a \/ ag' = b
    BY DEF EarlyRequest
<1> HIDE DEF a
<1>4. b \in AgentType /\ Same(a, b)
    <2> DEFINE s == a.incoming[c]
    <2>1. s \in Seq([pair : Checkable, use : BOOLEAN])
        BY Zenon, <1>1, <1>2 DEF WellFormed, AgentType
    <2>2. Append(s, [pair |-> p, use |-> use])
             \in Seq([pair : Checkable, use : BOOLEAN])
        BY <2>1
    <2> QED
        BY Zenon, <1>2, <2>2 DEF WellFormed, AgentType, Same
<1> HIDE DEF b
<1>5. WellFormed(ag')
    BY <1>2, <1>3, <1>4, Framed
<1> QED
    BY <1>5 DEF EarlyRequest, Inv

LEMMA SetRemoteCredentialsOK ==
    ASSUME Inv, SetRemoteCredentials
    PROVE  Inv'
<1>1. ag' \in AgentType /\ Same(ag, ag')
    BY Zenon DEF SetRemoteCredentials, Inv, WellFormed, AgentType, Same
<1>2. run' \in RunType
    BY Zenon, NoRunType DEF SetRemoteCredentials, RunType
<1> QED
    BY <1>1, <1>2, Framed DEF Inv

LEMMA HeadAndTail ==
    ASSUME NEW X, NEW s \in Seq(X), s # <<>>
    PROVE  Head(s) \in X /\ Tail(s) \in Seq(X)
OBVIOUS

LEMMA ReplayOK ==
    ASSUME Inv, Replay
    PROVE  Inv'
<1> DEFINE c == run.comp
           icheck == Head(ag.incoming[c])
           a == Assert(ag, "stored", SockOf[icheck.pair] \notin ag.lost)
           b == React(a, icheck.pair, icheck.use)
           d == [b EXCEPT !.incoming[c] = Tail(ag.incoming[c])]
<1>1. CASE UNCHANGED ag
    <2>1. run' \in RunType
        <3>1. run \in RunType /\ c \in Nat
            BY DEF Inv, RunType
        <3>2. [run EXCEPT !.comp = c + 1] \in RunType
            BY <3>1 DEF RunType
        <3>3. run' = NoRun \/ run' = [run EXCEPT !.comp = c + 1] \/ run' = run
            BY Zenon DEF Replay
        <3> QED
            BY <3>1, <3>2, <3>3, NoRunType
    <2> QED
        BY <1>1, <2>1 DEF Inv
<1>2. CASE c \in Components /\ ag.incoming[c] # <<>> /\ ag' = d /\ UNCHANGED run
    <2>1. /\ icheck \in [pair : Checkable, use : BOOLEAN]
          /\ Tail(ag.incoming[c]) \in Seq([pair : Checkable, use : BOOLEAN])
        <3> DEFINE s == ag.incoming[c]
        <3>1. s \in Seq([pair : Checkable, use : BOOLEAN]) /\ s # <<>>
            BY Zenon, <1>2 DEF Inv, WellFormed, AgentType
        <3> HIDE DEF s
        <3>2. /\ Head(s) \in [pair : Checkable, use : BOOLEAN]
              /\ Tail(s) \in Seq([pair : Checkable, use : BOOLEAN])
            BY Zenon, <3>1, HeadAndTail
        <3> QED
            BY <3>2 DEF s
    <2>2. WellFormed(a)
        BY AssertOK DEF AssertNames, Inv
    <2> HIDE DEF a
    <2>3. WellFormed(b)
        BY <2>1, <2>2, ReactOK
    <2>4. d \in AgentType /\ Same(b, d)
        <3> HIDE DEF b
        <3> QED
            BY Zenon, <2>1, <2>3 DEF WellFormed, AgentType, Same
    <2> HIDE DEF d, b
    <2> QED
        BY <1>2, <2>3, <2>4, Framed DEF Inv
<1>3. CASE ag' = ScheduleNext(ag) /\ run' = NoRun
    BY <1>3, ScheduleNextOK, NoRunType DEF Inv
<1> QED
    BY Zenon, <1>1, <1>2, <1>3 DEF Replay

-----------------------------------------------------------------------------
(* The actions: the application, gathering and the loss of a path. *)

LEMMA SetRemoteCandidatesOK ==
    ASSUME Inv, NEW P \in SUBSET Checkable, SetRemoteCandidates(P)
    PROVE  Inv'
<1>1. ag' \in AgentType /\ Same(ag, ag')
    BY ZenonT(30) DEF SetRemoteCandidates, Inv, WellFormed, AgentType, Same
<1>2. run' \in RunType
    BY Zenon, NoRunType DEF SetRemoteCandidates, RunType, Pairs
<1> QED
    BY <1>1, <1>2, Framed DEF Inv

LEMMA AddCheckOK ==
    ASSUME Inv, NEW p \in Pairs, AddCheck(p)
    PROVE  Inv'
<1>1. WellFormed(ag')
    BY AddPairOK DEF AddCheck, Inv, CheckStates
<1>2. run' \in RunType
    BY DEF AddCheck, Inv, RunType
<1> QED
    BY <1>1, <1>2 DEF Inv

LEMMA AddDoneOK ==
    ASSUME Inv, AddDone
    PROVE  Inv'
BY ScheduleNextOK, NoRunType DEF AddDone, Inv

LEMMA ResignalCandidateOK ==
    ASSUME Inv, NEW p \in Checkable, ResignalCandidate(p)
    PROVE  Inv'
<1> DEFINE c == CompOf[p]
           nominated == OfComponent(ag, c) \cap ag.nominated
           best == {q \in nominated : IsFirst(ag.role, q, nominated)}
           d == [ag EXCEPT !.learned = @ \ {p}]
           a == Assert(d, "update",
                       best \subseteq {ag.sel[c].pair} \/ ag.sel[c].pair # NoPair)
<1>1. c \in Components /\ best \subseteq Pairs
    BY ConnCheckAssumption DEF Pairs, Inv, WellFormed, AgentType, OfComponent
<1>2. WellFormed(a)
    <2>1. d \in AgentType /\ Same(ag, d)
        BY Zenon DEF Inv, WellFormed, AgentType, Same
    <2>2. WellFormed(d)
        BY <2>1, Framed DEF Inv
    <2> HIDE DEF d
    <2> QED
        BY <2>2, AssertOK DEF AssertNames
<1>3. \/ ag' = ScheduleNext(UpdateForReady(a, c))
      \/ \E q \in best :
            ag' = ScheduleNext(UpdateForReady(UpdateSelected(a, c, q), c))
    BY Zenon DEF ResignalCandidate
<1> HIDE DEF a, c, best
<1>4. WellFormed(ag')
    BY <1>1, <1>2, <1>3, ScheduleNextOK, UpdateForReadyOK, UpdateSelectedOK
<1> QED
    BY <1>4 DEF ResignalCandidate, Inv

LEMMA StartDiscoveryOK ==
    ASSUME Inv, NEW c \in Components, StartDiscovery(c)
    PROVE  Inv'
<1> DEFINE a == [ag EXCEPT !.discovery = @ \cup {c}]
<1>1. a \in AgentType /\ Same(ag, a)
    BY Zenon DEF Inv, WellFormed, AgentType, Same
<1> HIDE DEF a
<1>2. WellFormed(a)
    BY <1>1, Framed DEF Inv
<1>3. WellFormed(SignalIf(a, c, {"DISCONNECTED", "FAILED"}, "GATHERING"))
    BY <1>2, SignalIfOK DEF ComponentStates
<1> QED
    BY <1>3 DEF StartDiscovery, Inv, a

LEMMA GatheringDoneOK ==
    ASSUME Inv, GatheringDone
    PROVE  Inv'
<1>1. ag' \in AgentType /\ Same(ag, ag')
    BY Zenon DEF GatheringDone, Inv, WellFormed, AgentType, Same
<1>2. {p \in ag.known \ ag.list : SockOf[p] \notin ag.lost} \subseteq Pairs
    BY DEF Inv, WellFormed, AgentType, Pairs
<1>3. run' \in RunType
    BY Zenon, <1>2, NoRunType DEF GatheringDone, RunType
<1> QED
    BY <1>1, <1>3, Framed DEF Inv

LEMMA KeepaliveTimeoutOK ==
    ASSUME Inv, NEW c \in Components, KeepaliveTimeout(c)
    PROVE  Inv'
BY SignalOK DEF KeepaliveTimeout, Inv, ComponentStates

LEMMA LoseSocketOK ==
    ASSUME Inv, NEW c \in Components, NEW k \in Sockets, LoseSocket(c, k)
    PROVE  Inv'
<1> DEFINE b == PruneSocket(ag, c, k)
           cleared == [b EXCEPT !.sel[c] = [pair |-> NoPair, prio |-> 0]]
           onSelected == b.sel[c].pair # NoPair /\ SockOf[b.sel[c].pair] = k
           d == IF onSelected THEN Signal(cleared, c, "FAILED") ELSE b
           forgotten == {p \in ag.learned : SockOf[p] = k}
<1>1. "FAILED" \in ComponentStates
    BY DEF ComponentStates
<1>2. WellFormed(b)
    <2>1. WellFormed(ag)
        BY DEF Inv
    <2>2. WellFormed(SignalIf(ag, c, {"READY"}, "FAILED"))
        BY <1>1, <2>1, SignalIfOK
    <2> QED
        BY <2>1, <2>2, FreePairsOK, UpdateForReadyOK DEF PruneSocket
<1>3. ag' = [d EXCEPT !.lost = @ \cup {k}, !.known = @ \ forgotten,
                      !.learned = @ \ forgotten]
    BY DEF LoseSocket
<1> HIDE DEF b, onSelected, forgotten
<1>4. cleared \in AgentType /\ Same(b, cleared)
    BY Zenon, <1>2 DEF WellFormed, AgentType, Same
<1> HIDE DEF cleared
<1>5. WellFormed(d)
    BY <1>1, <1>2, <1>4, Framed, SignalOK
<1> HIDE DEF d
<1>6. ag' \in AgentType /\ Same(d, ag')
    BY ZenonT(30), <1>3, <1>5 DEF WellFormed, AgentType, Same
<1> QED
    BY Zenon, <1>5, <1>6, Framed DEF Inv, LoseSocket

LEMMA RestartStreamOK ==
    ASSUME Inv, NEW role \in Roles, RestartStream(role)
    PROVE  Inv'
<1> DEFINE b == StopChecks(FreePairs(ag, ag.list))
           inc == [c \in Components |-> <<>>]
           sl == [c \in Components |-> [pair |-> ag.sel[c].pair, prio |-> 0]]
<1>1. WellFormed(b)
    BY FreePairsOK, StopChecksOK DEF Inv
<1>2. ag' = [b EXCEPT !.known = {}, !.learned = {}, !.settled = FALSE,
                      !.role = role, !.incoming = inc, !.sel = sl]
    BY DEF RestartStream
<1>3. inc \in [Components -> Seq([pair : Checkable, use : BOOLEAN])]
    OBVIOUS
<1>4. sl \in [Components -> [pair : Pairs \cup {NoPair}, prio : Nat]]
    BY DEF Inv, WellFormed, AgentType
<1> HIDE DEF b, inc, sl
<1>5. ag' \in AgentType /\ Same(b, ag')
    BY ZenonT(30), <1>1, <1>2, <1>3, <1>4 DEF WellFormed, AgentType, Same
<1> QED
    BY <1>1, <1>5, Framed DEF Inv, RestartStream

-----------------------------------------------------------------------------
(* The actions: the check timer. *)

LEMMA AfterSendType ==
    ASSUME NEW sent, NEW next \in RunType
    PROVE  AfterSend(sent, next) \in RunType
BY Zenon, NoRunType DEF AfterSend, RunType

LEMMA TickTriggeredOK ==
    ASSUME Inv, NEW sent, TickTriggered(sent)
    PROVE  Inv'
<1> DEFINE Due(a) == [NoRun EXCEPT !.pc = "stream",
                                   !.todo = {q \in a.list : a.txns[q] # {}}]
<1>1. ASSUME NEW a, WellFormed(a) PROVE Due(a) \in RunType
    <2>1. {q \in a.list : a.txns[q] # {}} \subseteq Pairs
        BY <1>1 DEF WellFormed, AgentType
    <2> QED
        BY Zenon, <2>1, NoRunType DEF RunType
<1>2. CASE run' = Due(ag) /\ UNCHANGED ag
    BY Zenon, <1>1, <1>2 DEF Inv
<1>3. ASSUME NEW p \in Pairs, ag.place[p] = 1,
             ag' = Initiate([ag EXCEPT !.place = Dequeue(@, {p})], p, sent),
             run' = AfterSend(sent, Due(ag'))
      PROVE  Inv'
    <2> DEFINE b == [ag EXCEPT !.place = Dequeue(@, {p})]
    <2>1. /\ PlacesOK(Dequeue(ag.place, {p}))
          /\ Queued(Dequeue(ag.place, {p})) \subseteq Queued(ag.place)
        BY DequeueOK DEF Inv, WellFormed
    <2>2. Dequeue(ag.place, {p}) \in [Pairs -> Nat]
        BY <2>1 DEF PlacesOK
    <2>3. b \in AgentType
        BY Zenon, <2>2 DEF Inv, WellFormed, AgentType
    <2>4. /\ b.list = ag.list /\ b.txns = ag.txns
          /\ b.nominated = ag.nominated /\ b.valid = ag.valid
          /\ b.place = Dequeue(ag.place, {p})
        BY DEF Inv, WellFormed, AgentType
    <2> HIDE DEF b
    <2>5. WellFormed(b)
        BY <2>1, <2>3, <2>4 DEF Inv, WellFormed, TxnsFinite, QueueListed, FlagsOK
    <2>6. WellFormed(ag')
        BY <1>3, <2>5, InitiateOK DEF b
    <2>7. run' \in RunType
        BY Zenon, <1>1, <1>3, <2>6, AfterSendType
    <2> QED
        BY <2>6, <2>7 DEF Inv
<1> QED
    BY ZenonT(30), <1>2, <1>3 DEF TickTriggered

LEMMA TickExpireOK ==
    ASSUME Inv, NEW p \in Pairs, NEW T, TickExpire(p, T)
    PROVE  Inv'
<1>1. WellFormed(ag')
    BY FailPairOK, UpdateForReadyOK, RemoveTxnsOK, ConnCheckAssumption
       DEF TickExpire, Inv
<1>2. run' \in RunType
    BY DEF TickExpire, Inv, RunType
<1> QED
    BY <1>1, <1>2 DEF Inv

LEMMA TickRetransmitOK ==
    ASSUME Inv, NEW p, TickRetransmit(p)
    PROVE  Inv'
BY Zenon, AfterSendType DEF TickRetransmit, Inv

LEMMA TickStreamDoneOK ==
    ASSUME Inv, TickStreamDone
    PROVE  Inv'
BY Zenon DEF TickStreamDone, Inv, RunType

LEMMA TickOrdinaryOK ==
    ASSUME Inv, NEW sent, TickOrdinary(sent)
    PROVE  Inv'
<1> DEFINE a == UnfreezeNext(ag)
           waiting == {p \in a.list : a.state[p] = "WAITING"}
           over == [NoRun EXCEPT !.pc = "nominate", !.comp = 1]
<1>1. over \in RunType
    BY Zenon, NoRunType DEF RunType
<1>2. WellFormed(a)
    BY UnfreezeNextOK DEF Inv
<1>3. CASE run' = over /\ UNCHANGED ag
    BY <1>1, <1>3 DEF Inv
<1>4. ASSUME NEW p \in waiting, ag' = Initiate(a, p, sent),
             run' = AfterSend(sent, over)
      PROVE  Inv'
    <2> HIDE DEF a, over
    <2>1. p \in Pairs
        BY <1>2 DEF WellFormed, AgentType
    <2> QED
        BY Zenon, <1>1, <1>2, <1>4, <2>1, InitiateOK, AfterSendType DEF Inv
<1> QED
    BY Zenon, <1>3, <1>4 DEF TickOrdinary

LEMMA TickNominateOK ==
    ASSUME Inv, TickNominate
    PROVE  Inv'
<1> DEFINE c == run.comp
           sound == \A p \in Visited(ag, c) :
                       Checked(p) \in ag.list
                       /\ ag.state[Checked(p)] = "SUCCEEDED"
           busy == \E p \in ag.list : ag.state[p] = "IN_PROGRESS"
<1>1. run' \in RunType
    <2>1. (run.keep \/ busy) \in BOOLEAN
        OBVIOUS
    <2>2. run \in RunType /\ c + 1 \in Nat
        BY DEF Inv, RunType
    <2>3. \/ run' = [run EXCEPT !.comp = c + 1, !.keep = run.keep \/ busy]
          \/ run' = [run EXCEPT !.comp = c + 1, !.keep = TRUE]
        BY Zenon, <2>2 DEF TickNominate, RunType
    <2> HIDE DEF c, busy
    <2> QED
        BY Zenon, <2>1, <2>2, <2>3 DEF RunType
<1>2. CASE UNCHANGED ag
    BY <1>1, <1>2 DEF Inv
<1>3. CASE ag' = Assert(ag, "succeeded", sound)
    BY Zenon, <1>1, <1>3, AssertOK DEF AssertNames, Inv
<1>4. ASSUME sound, NEW p \in Preferred(ag, c),
             ag' = [ag EXCEPT !.useCand = @ \cup {Checked(p)},
                              !.place = Enqueue(@, Checked(p))]
      PROVE  Inv'
    <2> DEFINE n == Checked(p)
               b == [ag EXCEPT !.useCand = @ \cup {n}]
    <2>1. p \in Visited(ag, c)
        BY Zenon, PrioType DEF Preferred, Visited, IsFirst, MatchesOther
    <2>2. n \in ag.list /\ n \in Pairs
        BY <1>4, <2>1 DEF Inv, WellFormed, AgentType
    <2> HIDE DEF n
    <2>3. b \in AgentType /\ Same(ag, b)
        BY ZenonT(30), <2>2 DEF Inv, WellFormed, AgentType, Same
    <2>4. WellFormed(b) /\ n \in b.list
        BY Zenon, <2>2, <2>3, Framed DEF Inv, Same
    <2>5. ag' = [b EXCEPT !.place = Enqueue(@, n)]
        BY <1>4 DEF n, Inv, WellFormed, AgentType
    <2> HIDE DEF b
    <2> QED
        BY <1>1, <2>4, <2>5, QueuedOK DEF Inv
<1> QED
    BY Zenon, <1>2, <1>3, <1>4 DEF TickNominate

LEMMA TickEndOK ==
    ASSUME Inv, TickEnd
    PROVE  Inv'
<1> DEFINE idle == ag.idle + 1
           failing == {c \in Components : CheckedInVain(ag, c)}
           st == [c \in Components |-> IF c \in failing THEN "FAILED" ELSE ag.cst[c]]
           signalled == [ag EXCEPT !.cst = st]
<1>1. WellFormed(ag)
    BY DEF Inv
<1>2. idle \in Nat
    BY <1>1 DEF WellFormed, AgentType
<1>3. st \in [Components -> ComponentStates]
    <2> HIDE DEF failing
    <2> QED
        BY <1>1 DEF WellFormed, AgentType, ComponentStates
<1>4. \/ ag' = [ag EXCEPT !.idle = 0]
      \/ ag' = [ag EXCEPT !.idle = idle]
      \/ ag' = StopChecks(signalled)
    BY DEF TickEnd
<1> HIDE DEF idle, st
<1>5. signalled \in AgentType /\ Same(ag, signalled)
    BY Zenon, <1>1, <1>3 DEF WellFormed, AgentType, Same
<1> HIDE DEF signalled
<1>6. WellFormed(StopChecks(signalled))
    BY <1>1, <1>5, Framed, StopChecksOK
<1>7. ASSUME NEW n \in Nat PROVE WellFormed([ag EXCEPT !.idle = n])
    <2> DEFINE b == [ag EXCEPT !.idle = n]
    <2>1. b \in AgentType /\ Same(ag, b)
        BY Zenon, <1>1 DEF WellFormed, AgentType, Same
    <2> QED
        BY <1>1, <2>1, Framed
<1> QED
    BY <1>2, <1>4, <1>6, <1>7, NoRunType DEF Inv, TickEnd

-----------------------------------------------------------------------------
(* The invariant. *)

LEMMA InvInit == Init => Inv
<1> SUFFICES ASSUME Init PROVE Inv
    OBVIOUS
<1>1. ag \in AgentType
    <2>1. InitRole \in Roles
        BY ConnCheckAssumption
    <2>2. ("early" \notin Features) \in BOOLEAN
        OBVIOUS
    <2>3. [c \in Components |-> <<>>]
             \in [Components -> Seq([pair : Checkable, use : BOOLEAN])]
        OBVIOUS
    <2> QED
        BY Zenon, <2>1, <2>2, <2>3 DEF Init, AgentType, CheckStates, ComponentStates
<1>2. TxnsFinite(ag)
    BY Zenon, FS_EmptySet DEF Init, TxnsFinite
<1>3. PlacesOK(ag.place) /\ QueueListed(ag)
    <2>1. ag.place = [p \in Pairs |-> 0]
        BY Zenon DEF Init
    <2>2. Queued(ag.place) = {}
        BY <2>1 DEF Queued
    <2> QED
        BY <2>1, <2>2 DEF PlacesOK, QueueListed
<1>4. FlagsOK(ag)
    BY Zenon DEF Init, FlagsOK
<1> QED
    BY Zenon, <1>1, <1>2, <1>3, <1>4, NoRunType DEF Init, Inv, WellFormed

LEMMA InvNext == Inv /\ [Next]_vars => Inv'
<1> SUFFICES ASSUME Inv, [Next]_vars PROVE Inv'
    OBVIOUS
<1>1. CASE Tick
    BY <1>1, TickTriggeredOK, TickOrdinaryOK, TickRetransmitOK, TickExpireOK,
       TickStreamDoneOK, TickNominateOK, TickEndOK DEF Tick
<1>2. CASE Response
    BY <1>2, ResponseSuccessOK, ResponseUnmatchedOK, ResponseNoMappedOK,
       ResponseBadOK,
       ResponseConflictOK DEF Response
<1>3. CASE Request
    BY <1>3, InboundRequestOK, EarlyRequestOK DEF Request
<1>4. CASE Outside
    <2>1. {ag.role, InitRole} \subseteq Roles
        BY ConnCheckAssumption DEF Inv, WellFormed, AgentType
    <2> QED
        BY <1>4, <2>1, SetRemoteCandidatesOK, StartDiscoveryOK,
           KeepaliveTimeoutOK, LoseSocketOK, GatheringDoneOK,
           SetRemoteCredentialsOK, ResignalCandidateOK, RestartStreamOK
           DEF Outside
<1>5. CASE Adding
    BY <1>5, AddDoneOK, ReplayOK, AddCheckOK DEF Adding
<1>6. CASE UNCHANGED vars
    BY <1>6 DEF vars, Inv
<1> QED
    BY <1>1, <1>2, <1>3, <1>4, <1>5, <1>6 DEF Next

LEMMA InvHolds == Spec => []Inv
<1> QED
    BY InvInit, InvNext, PTL DEF Spec

\* The fields of the agent, its stream and its components keep their types, for
\* every candidate set, nomination mode and environment.
THEOREM TypeCorrect == Spec => []TypeOK
<1>1. Inv => TypeOK
    BY DEF Inv, WellFormed, TypeOK
<1> QED
    BY <1>1, InvHolds, PTL

\* The triggered-check queue never holds a freed pair, nor a pair twice, and
\* its order is well defined, whatever is pruned, dropped or re-queued.
THEOREM QueueCorrect == Spec => []QueueSound
<1>1. Inv => QueueSound
    BY DEF Inv, WellFormed, PlacesOK, QueueListed, QueueSound
<1> QED
    BY <1>1, InvHolds, PTL

\* Every nominated pair and every valid pair is in the check list, and when the
\* force-relay property is not set every nominated pair is valid, with lost
\* sockets, role conflicts, restarts and bad replies included.
THEOREM NominationCorrect == Spec => []NominatedIsValid
<1>1. Inv => NominatedIsValid
    BY DEF Inv, WellFormed, FlagsOK, NominatedIsValid
<1> QED
    BY <1>1, InvHolds, PTL
=============================================================================
