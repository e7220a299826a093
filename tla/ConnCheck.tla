------------------------------ MODULE ConnCheck ------------------------------
(***************************************************************************)
(* The connectivity-check engine of one ICE agent (agent/conncheck.c): the *)
(* check list of a stream, the states of its candidate pairs, the          *)
(* triggered-check queue, nomination, the selected pair of each component  *)
(* and the component states.  The peer, the network and the application    *)
(* are the environment.                                                    *)
(*                                                                         *)
(* Every handler of the code runs under the agent lock.  A handler without *)
(* a loop over calls that change state is one action.  The check timer     *)
(* callback and the addition of remote candidates loop over such calls;    *)
(* `run' records how far the running callback has come, and no other       *)
(* action is enabled until it is done.                                     *)
(*                                                                         *)
(* Abstractions: one stream, RFC 5245 compatibility, UDP candidates, each  *)
(* remote candidate paired with the one local candidate of its address     *)
(* family; candidate priorities stay what they were; a transaction is the  *)
(* role it was sent with; clocks are left out, so a timer that runs may    *)
(* fire at any moment.                                                     *)
(***************************************************************************)
EXTENDS Naturals, Sequences, FiniteSets

CONSTANTS
    NComponents,      \* stream->n_components
    Checkable,        \* pairs that candidate pairing can put in the list
    Reflexive,        \* pairs that a response with a new mapped address adds
    Parent,           \* Reflexive -> Checkable: the pair whose check adds it
    CompOf,           \* pair -> component
    Foundation,       \* pair -> foundation
    PrioControlling,  \* pair -> priority computed in the controlling role
    PrioControlled,   \* pair -> priority computed in the controlled role
    HostHost,         \* pairs whose two candidates are host candidates
    Compatible,       \* <<p, q>>: same transport and addresses up to the port
    SockOf,           \* pair -> socket of its local candidate
    Nomination,       \* agent->nomination_mode
    InitRole,         \* agent->controlling_mode at the start
    MaxConnChecks,    \* agent->max_conn_checks
    IdleTicks,        \* agent->idle_timeout, in ticks of agent->timer_ta
    MaxIncoming,      \* NICE_AGENT_MAX_REMOTE_CANDIDATES, for early checks
    MaxTxns,          \* bound on the transactions of one pair
    Features,         \* which parts of the environment take part, see below
    NoPair            \* "no pair", a null pointer

Pairs == Checkable \cup Reflexive
Components == 1..NComponents
Roles == {"controlling", "controlled"}
CheckStates == {"FROZEN", "WAITING", "IN_PROGRESS", "SUCCEEDED", "FAILED",
                "DISCOVERED"}
ComponentStates == {"DISCONNECTED", "GATHERING", "CONNECTING", "CONNECTED",
                    "READY", "FAILED"}
Sockets == {SockOf[p] : p \in Pairs}

(***************************************************************************)
(* Parts of the environment a model may leave out:                         *)
(*   conflict    the peer may be in the same role, and this agent may      *)
(*               switch until it has answered a check, or one of its own   *)
(*               has succeeded (module RoleConflict: its role is the final *)
(*               one then);                                                *)
(*   nomapped    responses without a mapped address;                       *)
(*   badreply    error responses and responses from another address;       *)
(*   sendfail    conn_check_send may fail (no room for a transaction);     *)
(*   keepalive   the keepalive-conncheck property is set;                  *)
(*   socket      sockets may be lost;                                      *)
(*   regather    gathering may be started again;                           *)
(*   restart     the application restarts the stream;                      *)
(*   early       checks may come before the remote credentials;            *)
(*   renewed     the remote credentials may be set again;                  *)
(*   resignal    known remote candidates may be signalled again;           *)
(*   forcerelay  the force-relay property is set: the pairs are those of   *)
(*               relayed candidates, and no answer makes a new candidate.  *)
(***************************************************************************)
FeatureNames == {"conflict", "nomapped", "badreply", "sendfail", "keepalive",
                 "socket", "regather", "restart", "early", "renewed",
                 "resignal", "forcerelay"}

ASSUME ConnCheckAssumption ==
    /\ NComponents \in Nat \ {0}
    /\ IsFiniteSet(Checkable) /\ IsFiniteSet(Reflexive)
    /\ Checkable \cap Reflexive = {}
    /\ NoPair \notin Pairs
    /\ Parent \in [Reflexive -> Checkable]
    /\ CompOf \in [Pairs -> Components]
    /\ \A d \in Reflexive : CompOf[d] = CompOf[Parent[d]]
    /\ PrioControlling \in [Pairs -> Nat \ {0}]
    /\ PrioControlled \in [Pairs -> Nat \ {0}]
    /\ Nomination \in {"REGULAR", "AGGRESSIVE"}
    /\ InitRole \in Roles
    /\ MaxConnChecks \in Nat \ {0}
    /\ MaxIncoming \in Nat \ {0}
    /\ IdleTicks \in Nat \ {0}
    /\ MaxTxns \in Nat \ {0}
    /\ Features \subseteq FeatureNames

VARIABLES
    ag,   \* the fields of the agent, its stream and its components
    run   \* the running callback: where it is and what it still visits

vars == <<ag, run>>

\* agent->force_relay
ForceRelay == "forcerelay" \in Features

-----------------------------------------------------------------------------
(* Pair priorities, the triggered-check queue and transactions. *)

\* agent_candidate_pair_priority: the roles decide which side counts most.
Prio(role, p) ==
    IF role = "controlling" THEN PrioControlling[p] ELSE PrioControlled[p]

\* The list is kept sorted: the first pair of a set is the one of highest
\* priority.
IsFirst(role, p, S) == p \in S /\ \A q \in S : Prio(role, q) <= Prio(role, p)

(* agent->triggered_check_queue, a queue without duplicates, is the place  *)
(* of each pair in it, and 0 for a pair that is not in it.                 *)
Queued(place) == {p \in Pairs : place[p] > 0}

\* priv_add_pair_to_triggered_check_queue
Enqueue(place, p) ==
    IF place[p] > 0 THEN place
    ELSE [place EXCEPT ![p] = Cardinality(Queued(place)) + 1]

\* priv_remove_pair_from_triggered_check_queue, for each pair of S
Dequeue(place, S) ==
    [p \in Pairs |->
        IF p \in S \/ place[p] = 0 THEN 0
        ELSE Cardinality({q \in Queued(place) \ S : place[q] <= place[p]})]

\* A transaction: its age rank in the pair, the role its request carries,
\* and whether the STUN agent still awaits an answer.
Txn == [id : Nat, role : Roles, open : BOOLEAN]

\* priv_remove_stun_transaction
RemoveTxns(a, p, T) ==
    [a EXCEPT !.txns[p] = @ \ T,
              !.retransmit = IF a.txns[p] \subseteq T THEN @ \ {p} ELSE @]

\* candidate_check_pair_fail
FailPair(a, p) ==
    [a EXCEPT !.state[p] = "FAILED", !.txns[p] = {}, !.retransmit = @ \ {p}]

\* Mutant of FreePairs: freed pairs stay in the triggered-check queue.
FreePairsLeavesQueue(a, S) ==
    [a EXCEPT !.list = @ \ S,
              !.state = [p \in Pairs |-> IF p \in S THEN "FROZEN" ELSE @[p]],
              !.txns = [p \in Pairs |-> IF p \in S THEN {} ELSE @[p]],
              !.nominated = @ \ S, !.valid = @ \ S, !.useCand = @ \ S,
              !.markOnResp = @ \ S, !.retransmit = @ \ S,
              !.disc = [p \in Checkable |-> IF p \in S THEN NoPair ELSE @[p]]]

\* candidate_check_pair_free and the deletion from the list, for each pair
\* of S
FreePairs(a, S) ==
    [a EXCEPT !.list = @ \ S,
              !.place = Dequeue(@, S),
              !.state = [p \in Pairs |-> IF p \in S THEN "FROZEN" ELSE @[p]],
              !.txns = [p \in Pairs |-> IF p \in S THEN {} ELSE @[p]],
              !.nominated = @ \ S,
              !.valid = @ \ S,
              !.useCand = @ \ S,
              !.markOnResp = @ \ S,
              !.retransmit = @ \ S,
              !.disc = [p \in Checkable |-> IF p \in S THEN NoPair ELSE @[p]]]

-----------------------------------------------------------------------------
(* Component states and the selected pair. *)

\* The transitions that agent_signal_component_state_change asserts.
Transitions ==
    ((ComponentStates \ {"FAILED"}) \X {"FAILED"})
    \cup {<<"DISCONNECTED", "GATHERING">>, <<"GATHERING", "CONNECTING">>,
          <<"CONNECTING", "CONNECTED">>, <<"CONNECTED", "READY">>,
          <<"READY", "CONNECTED">>, <<"FAILED", "CONNECTING">>,
          <<"FAILED", "GATHERING">>, <<"DISCONNECTED", "CONNECTING">>}

AssertNames == {"transition", "nominated", "selected", "succeeded", "update",
                "freed", "stored"}

\* A g_assert: the name of an assertion that does not hold is recorded.
Assert(a, name, holds) ==
    IF holds THEN a ELSE [a EXCEPT !.failed = @ \cup {name}]

\* agent_signal_component_state_change
Signal(a, c, new) ==
    IF a.cst[c] = new THEN a
    ELSE [Assert(a, "transition", <<a.cst[c], new>> \in Transitions)
            EXCEPT !.cst[c] = new]

SignalIf(a, c, from, new) == IF a.cst[c] \in from THEN Signal(a, c, new) ELSE a

\* The progression of conn_check_update_check_list_state_for_ready.
SignalReady(a, c) ==
    Signal(SignalIf(SignalIf(a, c, {"DISCONNECTED", "GATHERING", "FAILED"},
                             "CONNECTING"),
                    c, {"DISCONNECTED", "GATHERING", "CONNECTING"},
                    "CONNECTED"),
           c, "READY")

\* Mutant of UpdateSelected: the last nominated pair wins.
UpdateSelectedAlways(a, c, p) ==
    [Assert(a, "nominated", p \in a.nominated)
       EXCEPT !.sel[c] = [pair |-> p, prio |-> Prio(a.role, p)]]

\* conn_check_update_selected_pair
UpdateSelected(a, c, p) ==
    LET b == Assert(a, "nominated", p \in a.nominated)
    IN  IF Prio(a.role, p) > a.sel[c].prio
        THEN [b EXCEPT !.sel[c] = [pair |-> p, prio |-> Prio(a.role, p)]]
        ELSE b

\* priv_prune_pending_checks: what it removes, what it gives up
\* retransmitting, and what it keeps as still to be waited for.
OfComponent(a, c) == {p \in a.list : CompOf[p] = c}
Lower(a, c) == {p \in OfComponent(a, c) : Prio(a.role, p) < a.sel[c].prio}
Busy(a, c) == {p \in OfComponent(a, c) : a.state[p] = "IN_PROGRESS"}
QueuedIdle(a, c) ==
    {p \in OfComponent(a, c) : a.place[p] > 0 /\ a.state[p] # "IN_PROGRESS"}
Removable(a, c) ==
    (QueuedIdle(a, c) \cap Lower(a, c))
    \cup {p \in OfComponent(a, c) \ QueuedIdle(a, c) :
             a.state[p] \in {"FROZEN", "WAITING"}}
\* Mutant of KeptPending: queued pairs are not waited for.
KeptPendingBusy(a, c) == Busy(a, c) \ Lower(a, c)

KeptPending(a, c) == (QueuedIdle(a, c) \cup Busy(a, c)) \ Lower(a, c)

PrunePending(a, c) ==
    LET yielding == Busy(a, c) \cap Lower(a, c)
        keeping == {p \in Busy(a, c) \ Lower(a, c) : a.txns[p] # {}}
    IN  FreePairs(
          [Assert(a, "selected", a.sel[c].prio > 0)
             EXCEPT !.place = Dequeue(@, yielding),
                    !.retransmit = (@ \ yielding) \cup keeping],
          Removable(a, c))

\* conn_check_update_check_list_state_for_ready
UpdateForReady(a, c) ==
    IF OfComponent(a, c) \cap a.valid \cap a.nominated = {} THEN a
    ELSE IF KeptPending(a, c) # {} THEN PrunePending(a, c)
    ELSE SignalReady(PrunePending(a, c), c)
-----------------------------------------------------------------------------
(* Adding pairs, unfreezing, triggered checks and nomination by the peer. *)

\* conn_check_schedule_next
ScheduleNext(a) == [a EXCEPT !.timer = "running"]

\* conn_check_stop
StopChecks(a) == [a EXCEPT !.timer = "stopped", !.idle = 0]

\* priv_conn_check_unfreeze_next: one pair per foundation when none waits
UnfreezeNext(a) ==
    LET frozen == {p \in a.list : a.state[p] = "FROZEN"}
        first == {p \in frozen :
                    IsFirst(a.role, p, {q \in frozen :
                                          Foundation[q] = Foundation[p]})}
    IN  IF \E p \in a.list : a.state[p] = "WAITING" THEN a
        ELSE [a EXCEPT !.state = [p \in Pairs |->
                                    IF p \in first THEN "WAITING" ELSE @[p]]]

\* conn_check_unfreeze_related
UnfreezeRelated(a, p) ==
    [a EXCEPT !.state =
        [q \in Pairs |->
            IF q \in a.list /\ @[q] = "FROZEN" /\ Foundation[q] = Foundation[p]
            THEN "WAITING" ELSE @[q]]]

\* The state of a new pair: priv_conn_check_unfreeze_maybe thaws it when a
\* pair of its foundation has succeeded.
NewState(a, p, initial) ==
    IF /\ initial = "FROZEN"
       /\ \E q \in a.list : a.state[q] = "SUCCEEDED"
                          /\ Foundation[q] = Foundation[p]
    THEN "WAITING" ELSE initial

\* Mutant of OverLimit: succeeded pairs are dropped like the failed ones.
OverLimitDone(a) == {p \in a.list : a.state[p] \in {"FAILED", "SUCCEEDED"}}

\* priv_limit_conn_check_list_size: every failed pair goes, and the frozen
\* pairs beyond the limit.
OverLimit(a) ==
    {p \in a.list :
        \/ a.state[p] = "FAILED"
        \/ /\ a.state[p] = "FROZEN"
           /\ Cardinality({q \in a.list : Prio(a.role, q) >= Prio(a.role, p)})
                > MaxConnChecks}

\* Mutant of AddPair: a new pair moves every component to CONNECTING.
AddPairConnects(a, p, initial) ==
    LET added == [a EXCEPT !.list = @ \cup {p},
                           !.state[p] = NewState(a, p, initial)]
        limited == FreePairs(added, OverLimit(added))
    IN  IF Prio(a.role, p) < a.sel[CompOf[p]].prio THEN a
        ELSE IF p \notin limited.list THEN limited
        ELSE Signal(limited, CompOf[p], "CONNECTING")

\* priv_conn_check_add_for_candidate_pair_matched: no pair below the selected
\* one is created; a pair that stays in the list moves the component.
AddPair(a, p, initial) ==
    LET c == CompOf[p]
        added == [a EXCEPT !.list = @ \cup {p},
                           !.state[p] = NewState(a, p, initial)]
        limited == FreePairs(added, OverLimit(added))
    IN  IF Prio(a.role, p) < a.sel[c].prio THEN a
        ELSE IF p \notin limited.list THEN limited
        ELSE IF a.cst[c] \in {"CONNECTED", "READY"}
        THEN Signal(limited, c, "CONNECTED")
        ELSE Signal(limited, c, "CONNECTING")

\* The matching pair of priv_schedule_triggered_check, by its state.
TriggerListed(a, p) ==
    LET c == CompOf[p]
        queued == [a EXCEPT !.place = Enqueue(@, p)]
        better == Prio(a.role, p) > a.sel[c].prio
    IN  CASE a.state[p] \in {"WAITING", "FROZEN"} -> queued
          [] a.state[p] = "IN_PROGRESS" /\ better -> queued
          [] a.state[p] = "FAILED" /\ better /\ a.cst[c] = "FAILED" ->
                ScheduleNext(Signal(queued, c, "CONNECTING"))
          [] a.state[p] = "FAILED" /\ better /\ a.cst[c] = "READY" ->
                ScheduleNext(Signal(queued, c, "CONNECTED"))
          [] a.state[p] = "FAILED" /\ better
             /\ a.cst[c] \notin {"FAILED", "READY"} -> queued
          [] OTHER -> a

\* priv_schedule_triggered_check.  A discovered pair matches in place of its
\* parent; it must not have outlived it.
TriggerCheck(a, p) ==
    LET b == AddPair(a, p, "WAITING")
    IN  IF p \in a.list THEN TriggerListed(a, p)
        ELSE IF \E d \in Reflexive \cap a.list : Parent[d] = p
        THEN Assert(a, "freed", FALSE)
        ELSE IF p \in b.list THEN [b EXCEPT !.place = Enqueue(@, p)]
        ELSE b

\* priv_mark_pair_nominated, for the pair that is nominated in place of p:
\* the one p has discovered, if any.
NominatedBy(a, p) ==
    IF a.state[p] = "SUCCEEDED" /\ a.disc[p] # NoPair THEN a.disc[p] ELSE p

\* Mutant of MarkNominated: a pair is nominated before its check succeeds.
MarkNominatedAtOnce(a, p) ==
    LET c == CompOf[p]
        n == NominatedBy(a, p)
        nominated == [a EXCEPT !.nominated = @ \cup {n}]
    IN  IF a.role = "controlling" \/ p \notin a.list THEN a
        ELSE UpdateForReady(UpdateSelected(nominated, c, n), c)

MarkNominated(a, p) ==
    LET c == CompOf[p]
        n == NominatedBy(a, p)
        marked == IF a.place[n] > 0 \/ a.state[n] = "IN_PROGRESS"
                  THEN [a EXCEPT !.markOnResp = @ \cup {n}] ELSE a
        nominated == [marked EXCEPT !.nominated = @ \cup {n}]
        moved == SignalIf(UpdateSelected(SignalIf(nominated, c, {"FAILED"},
                                                  "CONNECTING"), c, n),
                          c, {"CONNECTING"}, "CONNECTED")
    IN  IF a.role = "controlling" \/ p \notin a.list THEN a
        ELSE IF n \in a.valid THEN UpdateForReady(moved, c)
        ELSE IF n \in a.nominated THEN UpdateForReady(marked, c)
        ELSE marked

\* priv_check_for_role_conflict and recalculate_pair_priorities
OtherRole(role) == IF role = "controlling" THEN "controlled" ELSE "controlling"
-----------------------------------------------------------------------------
(* Sending a check and processing its answer. *)

\* conn_check_send: the new transaction becomes the first of the pair.
Ranked(T) == {[t EXCEPT !.id = Cardinality({u \in T : u.id <= t.id})] : t \in T}
AddTxn(T, role) ==
    Ranked(T) \cup {[id |-> Cardinality(T) + 1, role |-> role, open |-> TRUE]}

\* priv_conn_check_initiate
Initiate(a, p, sent) ==
    LET b == [a EXCEPT !.state[p] = "IN_PROGRESS"]
    IN  IF sent
        THEN [b EXCEPT !.txns[p] = AddTxn(@, a.role),
                       !.retransmit = @ \cup {p}]
        ELSE UpdateForReady(FailPair(b, p), CompOf[p])

\* Mutants of Reflect: the transactions of the pair stay; the discovered pair
\* is recorded even when it is the pair itself; the pair that is checked is
\* the valid one.
ReflectKeepsTxns(a, p, q) ==
    [a EXCEPT !.state = [@ EXCEPT ![p] = "SUCCEEDED",
                                  ![q] = IF q = p THEN "SUCCEEDED"
                                         ELSE "DISCOVERED"],
              !.list = @ \cup {q},
              !.valid = @ \cup {q},
              !.disc[p] = IF q \in a.list THEN @ ELSE q,
              !.place = Dequeue(@, {p})]
ReflectSelf(a, p, q) ==
    [a EXCEPT !.state[p] = "SUCCEEDED", !.list = @ \cup {q},
              !.valid = @ \cup {q}, !.disc[p] = q,
              !.place = Dequeue(@, {p}), !.txns[p] = {},
              !.retransmit = @ \ {p}]
ReflectValidParent(a, p, q) ==
    [a EXCEPT !.state = [@ EXCEPT ![p] = "SUCCEEDED",
                                  ![q] = IF q = p THEN "SUCCEEDED"
                                         ELSE "DISCOVERED"],
              !.list = @ \cup {q},
              !.valid = @ \cup {p},
              !.disc[p] = IF q \in a.list THEN @ ELSE q,
              !.place = Dequeue(@, {p}), !.txns[p] = {},
              !.retransmit = @ \ {p}]

\* priv_process_response_check_for_reflexive: q is the pair of the mapped
\* address, p itself or the one the answer discovers.
Reflect(a, p, q) ==
    [a EXCEPT !.state = [@ EXCEPT ![p] = "SUCCEEDED",
                                  ![q] = IF q = p THEN "SUCCEEDED"
                                         ELSE "DISCOVERED"],
              !.list = @ \cup {q},
              !.nominated = IF q \notin a.list /\ p \in @
                            THEN @ \cup {q} ELSE @,
              !.valid = @ \cup {q},
              !.disc[p] = IF q \in a.list THEN @ ELSE q,
              !.place = Dequeue(@, {p}),
              !.txns[p] = {},
              !.retransmit = @ \ {p}]

\* The same when agent->force_relay is set and the mapped address is that of no
\* local candidate: no pair is made of it, and p succeeds without being valid.
ReflectNothing(a, p) ==
    [a EXCEPT !.state[p] = "SUCCEEDED",
              !.place = Dequeue(@, {p}),
              !.txns[p] = {},
              !.retransmit = @ \ {p}]

\* An answer without a mapped address: p keeps its other transactions and its
\* place in the queue.
NoReflect(a, p) ==
    [a EXCEPT !.state[p] = "SUCCEEDED", !.valid = @ \cup {p}]

\* "Updating the nominated flag" in priv_map_reply_to_conn_check_request
NominatesOnReply(a, p) ==
    IF a.role = "controlling"
    THEN IF Nomination = "REGULAR" THEN p \in a.useCand
         ELSE p \notin a.nominated
    ELSE p \in a.markOnResp

\* The rest of the successful case, ok being the valid pair.
Conclude(a, p, ok) ==
    LET c == CompOf[p]
        thawed == UnfreezeRelated(a, p)
        flagged == IF NominatesOnReply(thawed, p)
                   THEN [thawed EXCEPT !.nominated = @ \cup {ok}] ELSE thawed
        selected == UpdateSelected(flagged, c, ok)
        moved == IF selected.cst[c] = "READY" THEN selected
                 ELSE Signal(selected, c, "CONNECTED")
    IN  IF ok \in flagged.nominated THEN UpdateForReady(moved, c)
        ELSE UpdateForReady(flagged, c)

-----------------------------------------------------------------------------
(* The environment's events, each handled by one callback. *)

NoRun == [pc |-> "idle", todo |-> {}, keep |-> FALSE, comp |-> 0]

Init ==
    /\ ag = [role |-> InitRole, list |-> {},
             state |-> [p \in Pairs |-> "FROZEN"],
             nominated |-> {}, valid |-> {}, useCand |-> {}, markOnResp |-> {},
             retransmit |-> {}, txns |-> [p \in Pairs |-> {}],
             place |-> [p \in Pairs |-> 0],
             disc |-> [p \in Checkable |-> NoPair],
             sel |-> [c \in Components |-> [pair |-> NoPair, prio |-> 0]],
             cst |-> [c \in Components |-> "DISCONNECTED"],
             timer |-> IF "early" \in Features THEN "stopped" ELSE "running",
             idle |-> 0, known |-> {}, learned |-> {}, lost |-> {},
             discovery |-> {}, failed |-> {}, settled |-> FALSE,
             creds |-> "early" \notin Features,
             incoming |-> [c \in Components |-> <<>>]]
    /\ run = NoRun

\* No callback runs, and no assertion has aborted the program.
Idle == run.pc = "idle" /\ ag.failed = {}

HasTxn(p, t) == p \in ag.list /\ t \in ag.txns[p] /\ t.open

\* This agent may still have to switch its role.
Conflicting == "conflict" \in Features /\ ~ ag.settled

\* A response to the check t of pair p comes in while it is awaited;
\* stun_usage_ice_conncheck_process tells which of the following it is.
Answered(p, t) == Idle /\ HasTxn(p, t)

\* Its mapped address is that of p or of a pair that p discovers.
ResponseSuccess(p, t, q) ==
    /\ Answered(p, t)
    /\ q = p \/ (q \in Reflexive /\ Parent[q] = p)
    /\ ag' = [Conclude(Reflect(ag, p, q), p, q) EXCEPT !.settled = TRUE]
    /\ UNCHANGED run

\* Its mapped address is that of no local candidate and force-relay forbids a
\* new one.
ResponseUnmatched(p, t) ==
    /\ ForceRelay
    /\ Answered(p, t)
    /\ ag' = [Conclude(ReflectNothing(ag, p), p, p) EXCEPT !.settled = TRUE]
    /\ UNCHANGED run

ResponseNoMapped(p, t) ==
    /\ "nomapped" \in Features
    /\ Answered(p, t)
    /\ ag' = [Conclude(NoReflect(RemoveTxns(ag, p, {t}), p), p, p)
                EXCEPT !.settled = TRUE]
    /\ UNCHANGED run

\* A response from another address, or an error response other than 487.
ResponseBad(p, t) ==
    /\ "badreply" \in Features
    /\ Answered(p, t)
    /\ ag' = UpdateForReady(FailPair(ag, p), CompOf[p])
    /\ UNCHANGED run

\* A role-conflict error response (487) to the check t of pair p, late if the
\* roles are settled.
ResponseConflict(p, t) ==
    /\ Conflicting \/ ("conflict" \in Features /\ t.role # ag.role)
    /\ Answered(p, t)
    /\ ag' = IF p \notin ag.retransmit
             THEN [ag EXCEPT !.txns[p] = (@ \ {t}) \cup {[t EXCEPT !.open = FALSE]}]
             ELSE [RemoveTxns(ag, p, {t})
                     EXCEPT !.role = OtherRole(t.role),
                            !.settled = @ \/ t.role = ag.role,
                            !.place = Enqueue(@, p)]
    /\ UNCHANGED run

\* A binding request that arrives for pair p: from a known remote candidate,
\* or from a new address, which becomes a peer-reflexive remote candidate.
\* `switch' is an outcome of stun_usage_ice_conncheck_create_reply: a conflict
\* that makes this agent switch.  One that it answers with a 487 is handled like
\* no conflict.
Learn(p, switch) ==
    [ag EXCEPT !.known = @ \cup {p},
               !.learned = IF p \in ag.known THEN @ ELSE @ \cup {p},
               !.role = IF switch THEN OtherRole(@) ELSE @,
               !.settled = TRUE]

\* priv_schedule_triggered_check and priv_mark_pair_nominated for a request
React(a, p, useCandidate) ==
    IF useCandidate THEN MarkNominated(TriggerCheck(a, p), p)
    ELSE TriggerCheck(a, p)

\* The bound MaxTxns leaves out the requests that would have a pair of MaxTxns
\* transactions checked once more.
InboundRequest(p, useCandidate, switch) ==
    /\ Idle
    /\ ag.creds
    /\ SockOf[p] \notin ag.lost
    /\ switch => Conflicting
    /\ ag' = React(Learn(p, switch), p, useCandidate)
    /\ ag'.place[p] > 0 => Cardinality(ag.txns[p]) < MaxTxns
    /\ UNCHANGED run

\* priv_store_pending_check: a request that comes before the remote
\* credentials; beyond MaxIncoming it is dropped.
EarlyRequest(p, useCandidate, switch) ==
    LET c == CompOf[p]
    IN  /\ Idle
        /\ ~ ag.creds
        /\ SockOf[p] \notin ag.lost
        /\ switch => Conflicting
        /\ ag' = IF Len(ag.incoming[c]) >= MaxIncoming THEN Learn(p, switch)
                 ELSE [Learn(p, switch) EXCEPT !.incoming[c] =
                         Append(@, [pair |-> p, use |-> useCandidate])]
        /\ UNCHANGED run

\* nice_agent_set_remote_credentials replays the early checks of every
\* component and starts the timer.
SetRemoteCredentials ==
    /\ Idle
    /\ ag.creds => "renewed" \in Features
    /\ ag' = [ag EXCEPT !.creds = TRUE]
    /\ run' = [NoRun EXCEPT !.pc = "replay", !.comp = 1]

\* One turn of the loop of conn_check_remote_candidates_set.  The socket of a
\* stored check must still be there.
Replay ==
    LET c == run.comp
        icheck == Head(ag.incoming[c])
        a == Assert(ag, "stored", SockOf[icheck.pair] \notin ag.lost)
    IN  /\ run.pc = "replay"
        /\ \/ /\ c > NComponents
              /\ run' = NoRun
              /\ ag' = ScheduleNext(ag)
           \/ /\ c \in Components /\ ag.incoming[c] = <<>>
              /\ run' = [run EXCEPT !.comp = c + 1]
              /\ UNCHANGED ag
           \/ /\ c \in Components /\ ag.incoming[c] # <<>>
              /\ ag' = [React(a, icheck.pair, icheck.use)
                          EXCEPT !.incoming[c] = Tail(ag.incoming[c])]
              /\ UNCHANGED run

\* nice_agent_set_remote_candidates with new candidates, those of the pairs P.
SetRemoteCandidates(P) ==
    /\ Idle
    /\ P # {} /\ P \cap ag.known = {}
    /\ \A p, q \in P : CompOf[p] = CompOf[q]
    /\ \A p \in P : SockOf[p] \notin ag.lost
    /\ ag' = [ag EXCEPT !.known = @ \cup P]
    /\ run' = [NoRun EXCEPT !.pc = "adding", !.todo = P, !.keep = TRUE]

\* One turn of the loop of conn_check_add_for_candidate.
AddCheck(p) ==
    /\ run.pc = "adding" /\ p \in run.todo
    /\ ag' = AddPair(ag, p, "FROZEN")
    /\ run' = [run EXCEPT !.todo = @ \ {p}]

\* The end of _set_remote_candidates_locked (keep) or agent_gathering_done.
\* The former also replays early checks, of which none is left once the
\* credentials are known.
AddDone ==
    /\ run.pc = "adding" /\ run.todo = {}
    /\ ag' = IF run.keep THEN ScheduleNext(ag) ELSE ag
    /\ run' = NoRun

\* nice_agent_set_remote_candidates with a known candidate, that of pair p: the
\* priorities of its pairs may change, so the best nominated pair is looked up.
\* A peer-reflexive candidate takes the type that is signalled.
ResignalCandidate(p) ==
    LET c == CompOf[p]
        nominated == OfComponent(ag, c) \cap ag.nominated
        best == {q \in nominated : IsFirst(ag.role, q, nominated)}
        a == Assert([ag EXCEPT !.learned = @ \ {p}], "update",
                    best \subseteq {ag.sel[c].pair} \/ ag.sel[c].pair # NoPair)
    IN  /\ "resignal" \in Features
        /\ Idle
        /\ p \in ag.known
        /\ \/ /\ best \subseteq {ag.sel[c].pair}
              /\ ag' = ScheduleNext(UpdateForReady(a, c))
           \/ \E q \in best \ {ag.sel[c].pair} :
                 ag' = ScheduleNext(UpdateForReady(UpdateSelected(a, c, q), c))
        /\ UNCHANGED run

\* priv_discovery_tick_unlocked sends the first request for component c.
StartDiscovery(c) ==
    /\ Idle
    /\ ag.cst[c] = "DISCONNECTED" \/ "regather" \in Features
    /\ c \notin ag.discovery
    /\ ag' = SignalIf([ag EXCEPT !.discovery = @ \cup {c}], c,
                      {"DISCONNECTED", "FAILED"}, "GATHERING")
    /\ UNCHANGED run

\* agent_gathering_done pairs the candidates that are not paired yet.
GatheringDone ==
    /\ Idle
    /\ ag.discovery # {}
    /\ ag' = [ag EXCEPT !.discovery = {}]
    /\ run' = [NoRun EXCEPT !.pc = "adding",
                            !.todo = {p \in ag.known \ ag.list :
                                        SockOf[p] \notin ag.lost}]

\* priv_conn_keepalive_retransmissions_tick_agent_locked: the keepalive check
\* of the selected pair times out and no media has arrived.
KeepaliveTimeout(c) ==
    /\ "keepalive" \in Features
    /\ Idle
    /\ ag.sel[c].pair # NoPair
    /\ ag' = Signal(ag, c, "FAILED")
    /\ UNCHANGED run

\* conn_check_prune_socket
PruneSocket(a, c, k) ==
    LET S == {p \in a.list : SockOf[p] = k}
        onSelected == a.sel[c].pair # NoPair /\ SockOf[a.sel[c].pair] = k
        b == IF onSelected THEN SignalIf(a, c, {"READY"}, "FAILED") ELSE a
    IN  IF S = {} THEN b ELSE UpdateForReady(FreePairs(b, S), c)


\* component_io_cb meets an error or a hang-up: nice_component_remove_socket,
\* which frees the peer-reflexive remote candidates learnt on the socket.
LoseSocket(c, k) ==
    LET b == PruneSocket(ag, c, k)
        forgotten == {p \in ag.learned : SockOf[p] = k}
        cleared == [b EXCEPT !.sel[c] = [pair |-> NoPair, prio |-> 0]]
        onSelected == b.sel[c].pair # NoPair /\ SockOf[b.sel[c].pair] = k
    IN  /\ "socket" \in Features
        /\ Idle
        /\ k \notin ag.lost
        /\ \E p \in Pairs : SockOf[p] = k /\ CompOf[p] = c
        /\ ag' = [IF onSelected THEN Signal(cleared, c, "FAILED") ELSE b
                    EXCEPT !.lost = @ \cup {k},
                           !.known = @ \ forgotten,
                           !.learned = @ \ forgotten]
        /\ UNCHANGED run

\* nice_agent_restart_stream, or nice_agent_restart, which also resets the
\* role: nice_stream_restart and nice_component_restart
RestartStream(role) ==
    /\ "restart" \in Features
    /\ Idle
    /\ ag.known # {}
    /\ ag' = [StopChecks(FreePairs(ag, ag.list))
                EXCEPT !.known = {}, !.learned = {}, !.settled = FALSE,
                       !.role = role,
                       !.incoming = [c \in Components |-> <<>>],
                       !.sel = [c \in Components |->
                                  [pair |-> ag.sel[c].pair, prio |-> 0]]]
    /\ UNCHANGED run
-----------------------------------------------------------------------------
(* priv_conn_check_tick_agent_locked, the callback of the check timer, one *)
(* action per step of it.                                                  *)

\* No check can be sent before the remote credentials are known.
SendOutcomes ==
    (IF ag.creds THEN {TRUE} ELSE {})
    \cup (IF ag.creds /\ "sendfail" \notin Features THEN {} ELSE {FALSE})

\* Once a request is sent the callback goes on with nomination.
AfterSend(sent, next) ==
    IF sent THEN [NoRun EXCEPT !.pc = "nominate", !.keep = TRUE, !.comp = 1]
    ELSE next

\* priv_conn_check_triggered_check
TickTriggered(sent) ==
    LET Due(a) == [NoRun EXCEPT !.pc = "stream",
                                !.todo = {q \in a.list : a.txns[q] # {}}]
    IN  /\ Idle
        /\ ag.timer = "running"
        /\ \/ /\ Queued(ag.place) = {}
              /\ run' = Due(ag)
              /\ UNCHANGED ag
           \/ \E p \in Pairs :
                 /\ ag.place[p] = 1
                 /\ ag' = Initiate([ag EXCEPT !.place = Dequeue(@, {p})], p, sent)
                 /\ run' = AfterSend(sent, Due(ag'))

\* Mutant of TickExpire: a pair that runs out of transactions does not fail.
TickExpireOnly(p, T) ==
    /\ run.pc = "stream" /\ p \in run.todo \cap ag.list
    /\ T # {} /\ T \subseteq ag.txns[p]
    /\ ag' = RemoveTxns(ag, p, T)
    /\ run' = [run EXCEPT !.todo =
                  {q \in @ : Prio(ag.role, q) < Prio(ag.role, p)}]

\* priv_conn_check_tick_stream: the transactions T of pair p are over; those
\* of the pairs before p in the list are not due.
TickExpire(p, T) ==
    /\ run.pc = "stream" /\ p \in run.todo \cap ag.list
    /\ T # {} /\ T \subseteq ag.txns[p]
    /\ ag' = IF T = ag.txns[p]
             THEN UpdateForReady(FailPair(ag, p), CompOf[p])
             ELSE RemoveTxns(ag, p, T)
    /\ run' = [run EXCEPT !.todo =
                  {q \in @ : Prio(ag.role, q) < Prio(ag.role, p)}]

\* The same, when the newest transaction of p is sent again.
TickRetransmit(p) ==
    /\ run.pc = "stream" /\ p \in run.todo \cap ag.list
    /\ p \in ag.retransmit
    /\ run' = AfterSend(TRUE, run)
    /\ UNCHANGED ag

TickStreamDone ==
    /\ run.pc = "stream"
    /\ run' = [run EXCEPT !.pc = "ordinary", !.todo = {}]
    /\ UNCHANGED ag

\* priv_conn_check_ordinary_check
TickOrdinary(sent) ==
    LET a == UnfreezeNext(ag)
        waiting == {p \in a.list : a.state[p] = "WAITING"}
        over == [NoRun EXCEPT !.pc = "nominate", !.comp = 1]
    IN  /\ run.pc = "ordinary"
        /\ \/ /\ waiting = {}
              /\ run' = over
              /\ UNCHANGED ag
           \/ \E p \in waiting :
                 /\ IsFirst(a.role, p, waiting)
                 /\ ag' = Initiate(a, p, sent)
                 /\ run' = AfterSend(sent, over)

\* priv_conn_check_tick_stream_nominate for component c, in regular mode.
\* The nominated pair, or the one chosen to be, of another component.
OtherNominated(a, c) ==
    {p \in a.list : /\ CompOf[p] # c
                    /\ \/ p \in a.nominated
                       \/ p \in a.useCand /\ a.state[p] # "FAILED"}
NotYetNominated(a, c) ==
    {p \in OfComponent(a, c) \cap a.valid : p \notin a.nominated \cup a.useCand}
\* The pair whose check made p valid.
Checked(p) == IF p \in Reflexive THEN Parent[p] ELSE p
MatchesOther(a, c) ==
    {p \in NotYetNominated(a, c) :
        \E o \in OtherNominated(a, c) :
            /\ IsFirst(a.role, o, OtherNominated(a, c))
            /\ <<Checked(p), o>> \in Compatible}
\* The pairs its search visits, and the one it settles on.
Visited(a, c) ==
    LET all == NotYetNominated(a, c)
        stop == IF OtherNominated(a, c) = {} THEN all ELSE MatchesOther(a, c)
    IN  {p \in all : \A q \in stop : Prio(a.role, q) <= Prio(a.role, p)}
Preferred(a, c) ==
    LET S == IF MatchesOther(a, c) # {} THEN MatchesOther(a, c)
             ELSE NotYetNominated(a, c)
    IN  {p \in S : IsFirst(a.role, p, S)}

NominationStops(a, c) ==
    LET mine == OfComponent(a, c)
    IN  \/ /\ OtherNominated(a, c) = {}
           /\ \/ mine \cap a.valid \cap HostHost # {}
              \/ Cardinality(mine \cap a.valid) >= 2
        \/ MatchesOther(a, c) # {}
        \/ \A p \in mine : a.state[p] \notin {"FROZEN", "WAITING", "IN_PROGRESS"}

\* Mutant of NominationDue: a choice made before is not looked for.
NominationDueAgain(a, c) ==
    /\ Nomination = "REGULAR" /\ a.role = "controlling"
    /\ NotYetNominated(a, c) # {}

\* It nominates while some component may lack a nominated pair and some
\* succeeded pair is not nominated.
NominationDue(a, c) ==
    LET done == {p \in a.list : a.state[p] \in {"SUCCEEDED", "DISCOVERED"}}
    IN  /\ Nomination = "REGULAR" /\ a.role = "controlling"
        /\ Cardinality(done \cap a.nominated) < NComponents
        /\ done \ a.nominated # {}
        /\ OfComponent(a, c) \cap a.useCand = {}
        /\ NotYetNominated(a, c) # {}

TickNominate ==
    LET c == run.comp
        sound == \A p \in Visited(ag, c) :
                    Checked(p) \in ag.list /\ ag.state[Checked(p)] = "SUCCEEDED"
        busy == \E p \in ag.list : ag.state[p] = "IN_PROGRESS"
    IN  /\ run.pc = "nominate" /\ c \in Components
        /\ \/ /\ ~ NominationDue(ag, c)
              /\ run' = [run EXCEPT !.comp = c + 1, !.keep = @ \/ busy]
              /\ UNCHANGED ag
           \/ /\ NominationDue(ag, c)
              /\ ~ NominationStops(ag, c) \/ ~ sound
              /\ run' = [run EXCEPT !.comp = c + 1, !.keep = @ \/ busy]
              /\ ag' = Assert(ag, "succeeded", sound)
           \/ /\ NominationDue(ag, c)
              /\ NominationStops(ag, c) /\ sound
              /\ run' = [run EXCEPT !.comp = c + 1, !.keep = TRUE]
              /\ \E p \in Preferred(ag, c) :
                    ag' = [ag EXCEPT !.useCand = @ \cup {Checked(p)},
                                     !.place = Enqueue(@, Checked(p))]

\* priv_update_check_list_failed_components
CheckedInVain(a, c) ==
    /\ a.list # {} /\ a.discovery = {}
    /\ \A p \in OfComponent(a, c) :
          /\ a.state[p] \in {"FAILED", "SUCCEEDED", "DISCOVERED"}
          /\ p \notin a.nominated
    /\ \E p \in a.known : CompOf[p] = c

\* Mutant of TickEnd: idle ticks are not counted.
TickEndRestarts ==
    /\ run.pc = "nominate" /\ run.comp > NComponents
    /\ ag' = [ag EXCEPT !.idle = 0]
    /\ run' = NoRun

\* The end of the callback: the timer stops after IdleTicks idle ticks.
TickEnd ==
    LET idle == ag.idle + 1
        failing == {c \in Components : CheckedInVain(ag, c)}
        signalled == [ag EXCEPT !.cst = [c \in Components |->
                                           IF c \in failing THEN "FAILED" ELSE @[c]]]
    IN  /\ run.pc = "nominate" /\ run.comp > NComponents
        /\ ag' = IF run.keep THEN [ag EXCEPT !.idle = 0]
                 ELSE IF idle < IdleTicks THEN [ag EXCEPT !.idle = idle]
                 ELSE StopChecks(signalled)
        /\ run' = NoRun

-----------------------------------------------------------------------------
(* The specification. *)

\* The callback of the check timer.
Tick ==
    \/ \E sent \in SendOutcomes : TickTriggered(sent) \/ TickOrdinary(sent)
    \/ \E p \in Pairs : \/ TickRetransmit(p)
                        \/ \E T \in SUBSET ag.txns[p] : TickExpire(p, T)
    \/ TickStreamDone
    \/ TickNominate
    \/ TickEnd

\* Answers to the checks.
Response ==
    \E p \in Checkable : \E t \in ag.txns[p] :
        \/ \E q \in Pairs : ResponseSuccess(p, t, q)
        \/ ResponseUnmatched(p, t)
        \/ ResponseNoMapped(p, t)
        \/ ResponseBad(p, t)
        \/ ResponseConflict(p, t)

\* Checks of the peer.
Request ==
    \E p \in Checkable, useCandidate \in BOOLEAN, switch \in BOOLEAN :
        \/ InboundRequest(p, useCandidate, switch)
        \/ EarlyRequest(p, useCandidate, switch)

\* The application, candidate gathering and the loss of a path.
Outside ==
    \/ \E P \in SUBSET Checkable : SetRemoteCandidates(P)
    \/ \E c \in Components : \/ StartDiscovery(c)
                             \/ KeepaliveTimeout(c)
                             \/ \E k \in Sockets : LoseSocket(c, k)
    \/ GatheringDone
    \/ SetRemoteCredentials
    \/ \E p \in Checkable : ResignalCandidate(p)
    \/ \E role \in {ag.role, InitRole} : RestartStream(role)

\* The rest of the callbacks that loop over pairs.
Adding == AddDone \/ Replay \/ \E p \in Pairs : AddCheck(p)

Next == Tick \/ Response \/ Request \/ Outside \/ Adding

Spec == Init /\ [][Next]_vars
\* The timer callback is a GLib timeout, so it goes on while the timer runs.  A
\* request is retransmitted a bounded number of times (stun/usages/timer.c), so
\* a pair that is visited again and again runs out of transactions.
Fairness ==
    /\ WF_vars(Tick \/ Adding)
    /\ \A p \in Pairs :
          SF_vars(ag.txns[p] # {} /\ TickExpire(p, ag.txns[p]))

FairSpec == Spec /\ Fairness

-----------------------------------------------------------------------------
(* Types. *)

AgentType ==
    [role : Roles, list : SUBSET Pairs, state : [Pairs -> CheckStates],
     nominated : SUBSET Pairs, valid : SUBSET Pairs, useCand : SUBSET Pairs,
     markOnResp : SUBSET Pairs, retransmit : SUBSET Pairs,
     txns : [Pairs -> SUBSET Txn], place : [Pairs -> Nat],
     disc : [Checkable -> Reflexive \cup {NoPair}],
     sel : [Components -> [pair : Pairs \cup {NoPair}, prio : Nat]],
     cst : [Components -> ComponentStates],
     timer : {"running", "stopped"}, idle : Nat,
     known : SUBSET Checkable, learned : SUBSET Checkable,
     lost : SUBSET Sockets,
     discovery : SUBSET Components, failed : SUBSET AssertNames,
     settled : BOOLEAN, creds : BOOLEAN,
     incoming : [Components -> Seq([pair : Checkable, use : BOOLEAN])]]

RunType ==
    [pc : {"idle", "adding", "replay", "stream", "ordinary", "nominate"},
     todo : SUBSET Pairs, keep : BOOLEAN, comp : Nat]

\* The fields of the agent, its stream and its components keep their types.
TypeOK == ag \in AgentType /\ run \in RunType

-----------------------------------------------------------------------------
(* Safety. *)

\* candidate_check_pair_free takes a pair out of the triggered-check queue
\* before it is freed, and a pair is queued once: the queue holds listed pairs,
\* in a well-defined order.
QueueSound ==
    /\ Queued(ag.place) \subseteq ag.list
    /\ \A p, q \in Queued(ag.place) : ag.place[p] = ag.place[q] => p = q
    /\ \A p \in Queued(ag.place) : ag.place[p] <= Cardinality(Queued(ag.place))

\* Whatever the order of requests, responses and timeouts, only a listed pair
\* is nominated or valid, and without the force-relay property only a valid one
\* is nominated (ICE 7.2.1.5, 7.1.2.2.4).  With force-relay the pair of a
\* ResponseUnmatched can be nominated without being valid.
NominatedIsValid ==
    /\ ForceRelay \/ ag.nominated \subseteq ag.valid
    /\ ag.nominated \cup ag.valid \subseteq ag.list


\* conn_check_update_selected_pair: the selected pair of a component is its
\* nominated pair of highest priority, and it is still in the check list.
SelectedIsBest ==
    \A c \in Components :
        ag.sel[c].prio > 0 =>
            /\ ag.sel[c].pair \in OfComponent(ag, c) \cap ag.nominated
            /\ ag.sel[c].prio = Prio(ag.role, ag.sel[c].pair)
            /\ \A p \in OfComponent(ag, c) \cap ag.nominated :
                  Prio(ag.role, p) <= ag.sel[c].prio

\* conn_check_update_check_list_state_for_ready: a component is READY only
\* while no check is pending that could still replace its selected pair.
ReadyIsSettled ==
    \A c \in Components :
        run.pc = "idle" /\ ag.cst[c] = "READY" =>
            /\ ag.sel[c].pair # NoPair
            /\ \A p \in OfComponent(ag, c) :
                  /\ ag.state[p] \notin {"FROZEN", "WAITING"}
                  /\ ag.state[p] = "IN_PROGRESS" \/ ag.place[p] > 0 =>
                        Prio(ag.role, p) < ag.sel[c].prio

\* A pair is IN_PROGRESS only while its check can end: it has a transaction to
\* be answered or to time out, or a place in the triggered-check queue.
ChecksCanEnd ==
    \A p \in ag.list :
        ag.state[p] = "IN_PROGRESS" => ag.txns[p] # {} \/ ag.place[p] > 0

\* A check whose outcome is known has no transaction left that could overturn
\* it: a failure and a success with a mapped address free the transactions of
\* the pair.  (A success without one, the feature nomapped, does not.)
OutcomeIsFinal ==
    \A p \in Pairs : ag.txns[p] # {} => p \in ag.list /\ ag.state[p] = "IN_PROGRESS"

\* The assertions of the code hold: the component state transitions of
\* agent_signal_component_state_change, "at least one selected pair" in
\* priv_prune_pending_checks, the nominated flag in
\* conn_check_update_selected_pair, the state of the pairs to nominate, and
\* the selected pair that priv_add_remote_candidate updates.
AssertionsHold == ag.failed = {}

\* A pair discovered by a check is used through the pair that discovered it
\* (succeeded_pair), which must not be freed before it.
ParentOutlives ==
    \A d \in Reflexive \cap ag.list : Parent[d] \in ag.list

\* Regular nomination settles on one pair of a component, whose check carries
\* USE-CANDIDATE, and the controlling agent nominates no other.
NominatesOnce ==
    \A c \in Components :
        Nomination = "REGULAR" =>
            /\ Cardinality(OfComponent(ag, c) \cap ag.useCand) <= 1
            /\ ag.role = "controlling" =>
                  Cardinality(OfComponent(ag, c) \cap ag.nominated) <= 1

\* priv_schedule_triggered_check "schedules a triggered check": a pair in the
\* triggered-check queue is sent by the check timer, so the timer runs.
QueuedHasTimer ==
    run.pc = "idle" /\ Queued(ag.place) # {} => ag.timer = "running"

\* The transitions of agent_signal_component_state_change alone.
TransitionsHold == "transition" \notin ag.failed

\* The assertion of priv_prune_pending_checks alone.
PruneHasSelected == "selected" \notin ag.failed

-----------------------------------------------------------------------------
(* Liveness. *)

\* When the peer and the application are quiet, the checks come to an end: the
\* check timer stops for good.
TimerStops ==
    <>[][~ (Request \/ Outside)]_vars => <>[](ag.timer = "stopped")
=============================================================================
