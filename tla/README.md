# A verification project for libnice

libnice implements ICE (RFC 5245): two agents behind NATs gather candidate
addresses, exchange them, check which pairs of addresses work, and agree on one
pair per component. This directory holds TLA+ modules translated from the
source, the TLC configurations that check them, and proofs for TLAPS.
`PROJECT.json` maps every definition to the lines it models and lists the
components, runs, findings, hazards and theorems.

## The system and its parts

| part | source | lines | modelled |
| --- | --- | --- | --- |
| connectivity checks | `agent/conncheck.c` | 4889 | mostly: `ConnCheck` |
| role conflicts | `stun/usages/ice.c`, `agent/conncheck.c` | 410 | yes: `RoleConflict` |
| agent: API, gathering, signals, I/O | `agent/agent.c` | 7099 | partly, in `ConnCheck` |
| component, stream | `agent/component.c`, `agent/stream.c` | 1825 | partly, in `ConnCheck` |
| candidate discovery | `agent/discovery.c` | 1389 | its effect on component states |
| candidates, addresses | `agent/candidate.c`, `agent/address.c` | 871 | priorities are constants |
| pseudo-TCP | `agent/pseudotcp.c` | 2646 | not yet |
| STUN agent, messages, timers, usages | `stun/` | 3800 | not yet |
| TURN socket | `socket/udp-turn.c` | 2275 | not yet |
| other sockets | `socket/` | 3900 | not yet |
| GIO streams | `agent/*stream.c` | 1511 | not yet |
| interfaces, random numbers, GStreamer | `agent/interfaces.c`, `random/`, `gst/` | 2300 | no: thin wrappers |

The parts meet in `agent/conncheck.c`. Datagrams reach
`conn_check_handle_inbound_stun` from `component_io_cb`; the timer of the checks
calls `priv_conn_check_tick_agent_locked`; the application sets credentials and
candidates through `agent.c`. All of them run under the agent's lock, and the
application sees the result as component states, the selected pair and signals
that are emitted after the unlock.

## Modules

### RoleConflict, RoleAgreement

Two agents with tie-breakers `Tie`. `role` is `controlling_mode`, `net` the
messages ever sent, `open` the roles that checks still waiting for an answer
carry, `answered` the agents that saw a check succeed. `Send` is
`conn_check_send`; `Answer` is `stun_usage_ice_conncheck_create_reply`, with its
three outcomes (no conflict, switch, refuse with 487); `Conflict` and `Success`
are the two branches of `priv_map_reply_to_conn_check_request`; `Timeout` is the
end of a transaction. A message stays in `net`, so it may come late, in any
order, twice or never.

`RoleAgreement` is what the exchange promises: agents in conflict take, in one
step, the roles that the tie-breakers give them, and agents in different roles
never change. `RoleConflict` implements it (`AgreementSpec`).

### ConnCheck

One agent with one stream; the peer, the network and the application are the
environment. The fields of the code are the fields of the record `ag`:

| field | code |
| --- | --- |
| `list`, `state` | `stream->conncheck_list`, `pair->state` |
| `place` | position in `agent->triggered_check_queue` (0: not queued) |
| `txns` | `pair->stun_transactions`: age, role, whether an answer is still accepted |
| `nominated`, `valid`, `useCand`, `markOnResp`, `retransmit` | the flags of a pair |
| `disc` | `discovered_pair` and, backwards, `succeeded_pair` |
| `sel`, `cst` | `component->selected_pair`, `component->state` |
| `timer`, `idle` | `conncheck_timer_source`, `conncheck_ongoing_idle_delay` |
| `known`, `learned` | `remote_candidates`, and those of them that are peer-reflexive and carry a socket |
| `lost`, `creds`, `incoming` | lost sockets, credentials, `incoming_checks` |
| `failed` | the assertions of the code that did not hold |

Helpers of the code are operators from one value of `ag` to the next
(`FreePairs`, `UpdateSelected`, `PrunePending`, `UpdateForReady`, `AddPair`,
`TriggerCheck`, `MarkNominated`, `Reflect`, `Conclude`), composed by the actions
in the order of the code. A handler is one action. The timer callback and the
addition of candidates loop over calls that change state: `run` records how far
the callback has come, and only its next step is enabled, as the agent is
locked. The timer callback has the steps `TickTriggered`, `TickExpire` and
`TickRetransmit` (one pair each), `TickOrdinary`, `TickNominate` (one component
each) and `TickEnd`.

A `g_assert` that does not hold is recorded in `ag.failed` and no handler runs
afterwards, as the program would abort.

The answers to a check are `ResponseSuccess` (its mapped address is that of the
pair or of a pair it discovers), `ResponseUnmatched`, `ResponseNoMapped`,
`ResponseBad` and `ResponseConflict`. `ResponseUnmatched` belongs to the
force-relay property: when the mapped address is that of no local candidate, the
code makes no candidate of it (`conncheck.c:3460`), so the pair succeeds without
becoming valid and can be nominated all the same; it does not count
for READY. The comment at `conncheck.c:3618-3619` calls such a pair valid.
`NominatedIsValid` therefore asks for valid nominated pairs only without
force-relay. A response is taken in whatever role its check carried: the code
does not look at it again.

Abstractions: RFC 5245 compatibility; UDP; one stream; a remote candidate is
paired with one local candidate; clocks are left out, so a timer that runs may
fire at any moment. `Features` says which parts of the environment take part in
a run, so that each question is asked of a state space of its own.

### Proof modules

`RoleConflict_proofs` and `ConnCheck_proofs`, see below.

## Runs

`MCRoleConflict` and `MCConnCheck` give the constants their values. In
`MCConnCheck`, `h1` is a host pair, `s1` a pair through a NAT, `r1` a relayed
pair and `d1` the pair that a check of `s1` can discover; `s2`, a pair through
the same NAT, belongs to the second component. In `check_session` they stand for pairs of relayed candidates.

| run | asks |
| --- | --- |
| `roles` | roles change in one abstract step, differ from then on, and differ once any answer has been taken in |
| `check_regular` | regular nomination, controlling, three pairs: checks can end, outcomes are final, one nomination, assertions hold |
| `check_session` | force-relay, early checks, failing sends, restarts: assertions hold, READY is settled, the timer stops once peer and application are quiet |
| `check_controlled` | controlled side with a discovered pair: the selected pair is the best nominated one |
| `check_aggressive` | aggressive nomination, with restarts, renewed gathering and role switches |
| `check_two_components` | nominations of two components |
| `check_faults` | lost sockets, keepalive timeouts, answers without an address, candidates and credentials set again, role conflicts: queue and nominations are sound, a lost socket is no longer used |

Bounds: three pairs are enough for a higher and a lower rival of
one pair, two components for the rules that relate components (the second has one pair,
which matches the lower of the two pairs of the first, so that a match can win
over a priority), `MaxConnChecks`
at or just below the number of pairs so that the limit of the list is met,
`MaxTxns` of 2 for an old and a new transaction of one pair (a request that
would queue a pair with that many for another check is left out; requests that
do not, as for a succeeded pair, are always taken), `IdleTicks` of 2 so that the grace period is entered and left
(1 with two components), `MaxIncoming` of 1 so that the queue of early checks
overflows.

`CHECK_DEADLOCK FALSE` stands in the configurations whose environment can bring
the program to an assertion that fails, and it stops there.

Fairness. `RoleConflict` has none: a check is retransmitted a bounded number of
times (`stun_timer_refresh`) and then given up (`conncheck.c:719-727`), so
nothing guarantees that an answer ever arrives. `AnswerSettles` says instead that
one answer is enough. `ConnCheck`: the main loop runs the timer while it is set,
a callback that has started finishes, and a transaction times out. Nothing is
assumed of the peer or the application.

### Where the code and its own text disagree

Five runs end in a counterexample to a sentence or an assertion of the source:

| run | text | what happens |
| --- | --- | --- |
| `discovered_parent` | "only the ones that can be safely discarded" | a FAILED pair is freed while the pair it discovered still points to it |
| `stuck_check` | "will return FALSE when no more pending timers" | a pair stays IN_PROGRESS without transaction or place in the queue, and the timer never stops |
| `failed_nominated` | the transitions that `agent_signal_component_state_change` asserts | a component FAILED with its pair chosen for nomination; after a pair is added for the other component, another valid pair is nominated: FAILED to CONNECTED |
| `prune_unselected` | "Called when we have at least one selected pair" | the selected pair went with its socket, another nominated pair did not |
| `queued_no_timer` | "Schedules a triggered check after a successfully inbound connectivity check" | with the timer stopped, a new pair is queued and nothing sends its check |

The transition assertion also fails with the features `keepalive` (a keepalive
timeout fails a component whose checks go on) and `regather` with `early` (a
failed component moves to GATHERING while one of its pairs is checked again).

The passing runs of the same properties leave out the feature that leads there.
Likewise the runs of `OutcomeIsFinal` leave out answers without a mapped address
(`nomapped`), after which the code keeps the other transactions of the pair.

## Proofs

`RoleConflict_proofs`, for any two different natural numbers as tie-breakers:
`AnsweredMeansAgreed`, `SuccessMeansAgreed`, `AgreementIsStable`,
`AnswerSettles` and the refinement `AgreementSpec`. The inductive invariant adds to the types that an
agent which sent checks in another role than its own has switched to its final
role (`StaleChecksMeanFinal`), that a 487 was sent by an agent in its final role
to one that is not (`RefusedByFinal`), and `SuccessMeansAgreed`: without the
first two an old 487 could undo an agreement.

`ConnCheck_proofs`, for any finite sets of pairs, any number of components and
every feature of the environment: `TypeOK`, `QueueSound`, `NominatedIsValid`.
The inductive invariant `WellFormed` holds them together, because a pair that is
freed must leave the queue, the flags and the nominated set at once. There is one lemma per
helper (`FreePairsOK`, `AddPairOK`, ...) that says it keeps the invariant and
what it leaves alone, one per action, and `InvNext` puts them together.

Assumptions: `TieAssumption`, `ConnCheckAssumption`. Only model-checked: the
liveness properties (fairness is out of the prover's reach), and the remaining
properties of `ConnCheck`.

## Plan

In this order, each with runs first and proofs where they pay:

1. `StunTimer`: deadlines and delays at machine width.
2. `IceSession`: two `ConnCheck` agents and a network between them; both sides
   select matching pairs.
3. `PseudoTcp` against an abstract reliable byte stream: handshake, FIN-ACK,
   RST, retransmission, window, wrap of sequence numbers.
4. `Discovery`, `TurnRefresh`: the discovery timer and its counters, TURN
   refreshes and their removal.
5. `UdpTurn`: permissions, channel bindings, queued data.
6. `AgentLifecycle`: lock, signal queue, streams, closing.
7. `ComponentIo`: receive paths and the callback lock.
8. `StunAgent`: saved identifiers, validation.
9. Socket handshakes, `tcp-bsd` send queue, candidate priorities.

Next theorems for `ConnCheck`: `OutcomeIsFinal` and `ChecksCanEnd` (under the
features for which they hold).

## Not modelled

Operating-system calls, digests, message layout, SDP text and the compatibility
modes other than RFC 5245; renomination; memory (a freed pair is out of the
list). `PROJECT.json` gives the reason for each part.
