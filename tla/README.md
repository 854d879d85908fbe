# A verification project for the ARMP protocol implementation

ARMP lets agents talk over Matrix: rooms, tasks that one agent gives to another,
negotiation of capabilities, shared computation, payments, and around these a
bridge to A2A, audit, rate limits, trust and administration. The implementation is
a set of Python modules (`amp_sdk.py` is the SDK, each `armp_*.py` one service), with
ports of the SDK in Rust, JavaScript and Go, adapters for LangChain and CrewAI, and
drafts of the specification under `specs/drafts/`.

This directory holds TLA+ modules of the Python code, TLC configurations that check
them on small instances, and theorems that TLAPS proves for every instance.

    tlc -config TaskLifecycle.cfg MCTaskLifecycle      # one run
    tlapm TaskLifecycleProofs.tla                      # one module of proofs

## 1. Inventory

### Components, their state and their operations

| component | source | state | operations that change it |
|---|---|---|---|
| Task lifecycle | `amp_sdk.py` 105-141, 645-791 | `Agent._active_tasks`, each task's `status`, `progress`, `result`, `history` | `create_task`, `assign_task`, `start_task`, `report_progress`, `complete_task`, `fail_task`, `Task.transition` by hand; `get_task` hands tasks out |
| Sync loop | `amp_sdk.py` 217-271, 293-338 | `_started`, one `sync_token` per loop, the answer being handled | `start`, `stop`, `_sync_loop`, `_handle_event` |
| Capability negotiation | `amp_sdk.py` 350-378, 793-845, 1052-1060 | `_card`, `_peers` | `set_capability`, `negotiate`, `_handle_cap_request`, `_handle_cap_response` |
| Rooms, discovery, routing | `amp_sdk.py` 461-524, 849-1050 | the homeserver's rooms, `_discovery_room_id` | `create_room`, `_ensure_dm`, `join_room`, `leave_room`, `invite`, `discover_agents`, `route_task`, `register_card` |
| Payments | `armp_payments.py` 36-285 | invoices, escrows, channels | create, pay, release, refund, open, transfer, close |
| Task payment bridge | `armp_payments.py` 290-327 | `_task_escrows` | `fund_task`, `on_task_completed`, `on_task_failed` |
| Compute sharing | `armp_compute.py` | registry, `_jobs`, `_active_streams`, the semaphore | `submit`, `submit_and_wait`, `stream`, `cancel`, `_execute` |
| A2A bridge | `armp_a2a_bridge.py` | `_tasks`, `_sse_clients` | `message/send`, `message/stream`, `tasks/get`, `tasks/cancel`, `armp_task_to_a2a`, the event streams |
| Rate limiter | `armp_ratelimit.py` | buckets, hit counters, blocked keys; the stamps of a window | `set_limit` and its callers, `allow`, `status`, `reset`; `SlidingWindow.allow` |
| Audit log | `armp_audit.py` | the events, the last hash | `log`, pruning; `verify_integrity` reads them |
| Reputation | `armp_reputation.py` | task records, reviews, cached scores | `record_task_completion`, `add_review`, and every reader of a score |
| Trust framework | `armp_trust.py` | issuers, credentials, revoked ids, ratings | `register_issuer`, `issue_capability`, `sign`, `revoke_credential` |
| Enterprise SSO | `armp_sso.py` | API keys, providers | `register_api_key`, `authenticate_api_key`, `register_oidc_provider` |
| MCP integration | `armp_mcp.py` | servers, tools, exposed capabilities | `register_*`, `discover_tools`, `expose_all_tools` |
| Admin console, media | `armp_admin.py`, `armp_media.py` | tables of agents, rooms and uploads | their setters, upload |
| Adapters, ports, benchmarks | `langchain_armp/`, `crewai_armp/`, `armp-rs/`, `armp-js/`, `armp-go/`, `armp_benchmarks.py`, `armp_stress_test.py` | | |

### How they interact

* Everything of `amp_sdk.py` runs in one asyncio event loop. A coroutine runs alone
  from one `await` to the next, so a step of a model is the code between two awaits;
  what comes between two steps of one coroutine is every step of every other.
* An `Agent` writes to the homeserver (`room_send`, `room_create`) and reads from it
  through its sync loop. `room_send` may answer with an error, which the task and
  negotiation code does not look at, may raise, and may raise after the event was taken.
* The status of a task lives in the `Task` object. Another agent hears of it through
  events only, and `_handle_task_event` (380-386) only logs them.
* What an agent sends to a room every member gets, and the handlers of `m.agent` events act on it
  whoever it was meant for; direct rooms are a habit of `_ensure_dm`, not a rule.
* `TaskPaymentBridge` is called by whoever hears that a task completed or failed; it
  calls `PaymentService`, which people call directly as well.
* `ComputeManager` starts one asyncio task per job; a job's stream is a queue between
  the executor and the reader; `cancel` and the pollers share the job's status.
* Discovery and `_ensure_dm` read and change the rooms that all agents share; between two of
  their requests any agent may create, join or leave one.
* `ARMPMCPBridge` puts tools on the agent's card with `set_capability`, which has no await.
* The services (payments, compute, audit, limits, trust, reputation, SSO, MCP) do not call
  each other: the only compositions in the code are tasks with payments and, through events,
  tasks with the A2A bridge.

### What is hard, and what would be correct

| component | hard | correct means |
|---|---|---|
| Tasks | two coroutines on one task; announcements late, lost, out of order or to several rooms; retries | histories are walks of `VALID_TRANSITIONS`; a terminal task never changes; a result exactly when completed; each transition told at most once, as it happened |
| Sync loop | several loops; a failure in the middle of an answer; a callback that never returns; limited answers | no event twice, in order, each one accounted for; loops that nothing holds end after `stop` |
| Negotiation | answers late, repeated, of the wrong peer or of a third member of the room; no answer | genuine cards of agents in a room where somebody asked; the right peer as long as one was asked, in direct rooms; calls end |
| Payments | calls repeated and in any order; refunds after releases; re-funding | no double payment, no payment out of another task's escrow, channel arithmetic |
| Tasks with payments | announcements late and reordered; retry after refund | paid only for completed work |
| Compute | cancel against the executor; permits; streams and their ends | bounded concurrency; complete streams; pollers return; final outcomes |
| A2A bridge | two writers of one task table across awaits | outcomes told to A2A clients are genuine; every subscriber hears each step once |
| Directory | rooms and cards change between the requests of a call; requests fail | no direct room beside one that stood all along; no better known peer passed over; what is published is found |
| Rate limiter | several levels, partly consumed; refills, resets | never more than burst + rate * time from a bucket; blocks earned by rejections |
| Audit | pruning, removal, a clock set back | the verdict names exactly the events whose hashed content was changed or whose predecessor is missing |
| Reputation | a cache that all readers fill | scores are those of all records; premium takes a review |
| Trust | revocation, expiry, signing in any order; ids shared | what is concluded rests on a credential of an issuer trusted at the time, not revoked |
| SSO | keys that expire by a clock which may be set back | a key refused once stays refused |
| MCP | a walk over a live dict across awaits | what is on the card can be called |

`PROJECT.json` lists each hazard at its line with the properties that cover it.

## 2. Modules

| module | models | how state and actions correspond |
|---|---|---|
| `TaskStates` | `Task.TASK_STATUSES`, `VALID_TRANSITIONS` | constants |
| `TaskProtocol` | what a task promises: a path of legal states, and a set of them told | abstract specification |
| `TaskLifecycle` | `Task`, the six operations, `room_send` and `_ensure_dm` | `task[t]` is the object, `suspended` the coroutines at an await, each with its room, `timeline` and `shown` what each room got, `dropped` the announcements that will never come |
| `TaskLifecycleProofs` | | theorems |
| `Payments` | `PaymentService`, `TaskPaymentBridge` | one record per escrow, invoice, channel; `taskEscrow` is `_task_escrows`; counts of releases and refunds are ghosts |
| `TaskPayments` | the bridge driven by `TaskProtocol`'s announcements | composes `TaskProtocol` (INSTANCE) and `Payments` (EXTENDS) |
| `PaymentsProofs` | | theorems about `Payments` and `TaskPayments` |
| `ComputeSharing` | `ComputeManager` and its executors | `status`, `executor`, queue, poller and reader per job |
| `ComputeSharingProofs` | | theorems |
| `EventStream` | what a reader of a room may rely on | abstract specification |
| `SyncLoop` | `start`, `stop`, `_sync_loop` | `loop[l]` is the place in the code, `token`, `batch`; `stuck` is a loop whose callback never returns; `handled` and `skipped` are ghosts |
| `SyncLoopProofs` | | theorems |
| `Negotiation` | `set_capability`, `negotiate`, the two handlers | `card`, `peers` (in dict order), `members` of each room, `call[c]`; `sent` is all that was ever sent, with its room |
| `NegotiationProofs` | | theorems |
| `A2ABridge` | `A2ABridge` and its event streams, beside a `TaskProtocol` task | `table` is `_tasks` (statuses), `sending` the requests at their await, `listening` is `_sse_clients`, `broadcasts` the coroutines of `_broadcast_sse` |
| `A2ABridgeProofs` | | theorems |
| `Directory` | the room operations, `_ensure_dm`, `register_card`, `discover_agents`, `route_task` | `rooms` is the homeserver, `peers` each agent's `_peers` with the cards it has, `call[c]` a call at an await and the cards it took; `standing` and `renewed` are ghosts |
| `DirectoryProofs` | | theorems |
| `Lists` | list comprehensions and sums, as recursive functions | `Keep(s, K)` are the elements at the places `K`, `Total(s)` their sum |
| `RateLimiter` | `TokenBucket`, `RateLimiter` | `bucket`, `hits`, `blocked` are the dicts; `account` is a ghost: what each bucket gave since when |
| `SlidingWindow` | `SlidingWindow` | `stamps` is `_timestamps`; `letIn` is a ghost |
| `AuditLog` | `AuditLogger` | `events`, `lastHash`; a hash is the sequence of what was hashed; `origin` is what is stored and not hashed; `at`, `rehashed` and `changes` are ghosts |
| `Reputation` | `ReputationEngine`, `ReputationGate` | `tasks`, `reviews`, the cache `scores`; the score as an operator |
| `Trust` | `TrustRegistry`, `VerificationService` | `issuers`, `credentials`, `revoked`, `ratings`; the score as an operator |
| `Sso` | `SSOService`, `JWTValidator` | `keys`, `providers`; `session` is the token the last caller holds; `refused` is a ghost |
| `Mcp` | `MCPClient`, `ARMPMCPBridge` | `servers`, `url`, `tools`; `walk[w]` is a coroutine of `discover_tools` at its await; `exposed`, `cardNames` |
| `Services` | the services from `RateLimiter` to `Mcp`, side by side | one of them moves in each behaviour |
| `ServicesProofs` | | theorems about each of them and about all together |
| `MC*` | values and symmetry for TLC | |

Operators marked "Faulty variant" in a module are not part of its specification: each is
the operation with a plausible mistake, kept to show which property would notice it.

Some decisions that matter:

* **Awaits.** Every await of a task operation may return, return an error or raise; a raised
  `room_send` may or may not have put the event into the room. So an announcement is in
  flight, in a room, or in `dropped`, and the model never assumes that it arrives.
* **The rooms of a task.** Every call names its room, or gets one from `_ensure_dm`, and nothing
  makes two calls choose the same; so a task's events may be spread over rooms, each of which has
  its own picture. A task whose `create_task` has not returned, or raised, is reached by `get_task`.
* **Cancellation of a task.** `Agent` has no operation for it; `Cancel` is a caller that uses
  `Task.transition` as the tests do (tests/test_amp_sdk.py:115-187). It is announced nowhere.
* **Payments** allow every sequence of calls, with arguments negative or zero where the code
  takes them, and no exception from the code left out: a call that raises changes nothing.
* **The bridge** hears what `TaskProtocol` tells, late and in any order, and also before the
  task was funded.
* **The sync loop** may have several instances, since `start` has no test and `stop` cancels
  none. `limited` answers drop the older events. There is one room; the order among the rooms
  of one answer is that of a dict and nothing depends on it. A handler ends, raises, or, when it
  awaits the user's message callback (337-338), may never end: then the loop is `stuck`.
* **Negotiation's rooms** have two members when `_ensure_dm` made them, and more when somebody was
  invited. A message has no addressee: every member but its sender may handle it, answers a
  request and stores the card of a response.
* **Negotiation's network** is a set of messages that may be handled late, in any order, any
  number of times or never. Loops that restart without a token, direct rooms that are created
  twice and errors that are not looked at make all of these real.
* **A broadcast** is a list iterator over the live list. Its step is one write; between two
  writes clients append themselves, lose their connection and remove themselves, which moves
  the rest of the list up. A broadcast scheduled before its task has any list walks an empty
  one. `written`, `audience` and `left` are ghosts.
* **The bridge's ARMP side** is a `TaskProtocol` task told of in any order. `tasks/cancel` sends it
  an event that `_handle_task_event` only logs, so it does not move the task.

* **The services do not interact**, so that steps of two of them commute and no property reads
  the state of two: `Services` picks one at the start and lets it run, the others staying as
  they were made. Composing them otherwise would multiply the states and show nothing new.
* **Clocks.** The rate limiter's is monotonic; those of audit, trust and SSO are the wall clock's
  and move to any time of a small set, back as well.
* **Numbers.** Scores are computed with the code's weights in integer units chosen so that
  every division of the run's values is exact; for longer histories they round down, where the code
  has floats. Ratings have no range, as nothing tests one. Tokens and seconds are whole.
* **Changes to the audit log.** Somebody may replace what an event says, its time or its origin, the
  hashes it carries, by any that can be computed from what is stored, or drop the event.
* **Discovery** takes a step per request: the list of public rooms, and for each of them join,
  state and leave, any of which may be refused or raise. A room id that crosses an await is kept
  in `call[c].room`. A listed room may lose its members before it is visited. The field
  `_discovery_room_id` is written and read nowhere and is left out. A card is the set of capabilities
  it names, and an agent has several, one after the other: what a discovery took stays in
  `call[c].found` when `_peers` gets another, and `renewed[c]` remembers of which agents.
* **The direct room.** `standing[c]` holds the rooms that were the two's own ever since call `c`
  listed its rooms and that no request was refused for; `NoNeedlessRoom` reads it.
* **Small narrowings.** `Mcp` gives a tool one server and URL per name and server, where
  `register_tool` stores what it is given (armp_mcp.py:101-103), and `A2ABridge` has no event without
  a status or with an unknown one (`from_armp_task` makes these `input-required`); no property
  depends on either.
* **A tool's name** is all that `handle_tool_call` hands on, so that the tool called may be another
  server's of the same name; `ExposedIsCallable` claims no more than that there is one.

## 3. Runs

| run | checks | bounds |
|---|---|---|
| `tasks` | `TypeOK`, `EveryTransitionAccounted`, `RoomUpToDate`, `ImplementsProtocol` | one task, two callers, two rooms, four transitions, progress -1 .. 2 of 1 |
| `services` | `ServicesTypeOK`; limits: `SpentWithinLimit`, `WindowHolds`; audit: `VerdictIsExact`; reputation: `GateIsSound`; `TrustIsVouched`; SSO: `RefusedKeyStaysRefused`; MCP: `ExposedIsCallable` | two limited keys, three ticks of the clock; windows of two; three events logged, two stored, two changed; two agents with four records, ratings of 0, 1.0 and 5.0; two credentials; two keys; two walks over two servers |
| `directory` | `DirectoryTypeOK`, `NoNeedlessRoom`, `RouteServes` | three agents, two of them active, one of the three with two cards, one call at a time; three rooms with calls that send, two with calls that publish and route |
| `published_card_is_found` | `PublishedIsFound`, violated | the same |
| `task_payments` | `PaidAtMostOnce`, `BridgeKeepsTasksApart`, `ChannelNetWithinVolume`, `PaymentFollowsTask`, `OneAttemptSettlesRight` | two tasks, two escrows, six moves; by themselves one invoice and one channel, amounts -1 and 2, volume 3 |
| `completed_task_is_paid` | `CompletedTaskIsPaid`, violated | one task, one escrow, six moves |
| `compute` | `TypeOK`, `BoundedConcurrency`, `StreamIsComplete`, `OutcomeIsFinal`, `PollerReturns`, `NoStarvation`, `CompletedStreamEnds` | two jobs, one permit, two chunks |
| `cancel_stops_job` | `CancelStopsJob`, violated | the same |
| `sync_loop` | `TypeOK`, `EveryEventAccounted`, `ImplementsStream`, `StoppedLoopsEnd`, `EventsArrive` | two starts, four events, answers of two |
| `negotiation` | `TypeOK`, `PeersAreGenuine`, `OnePeerIsRight`, `NegotiationEnds` | three agents, two rooms, one of them with a guest, two calls, two polls |
| `negotiated_with_the_peer` | `NegotiatedWithThePeer`, violated | the same |
| `a2a` | `TypeOK`, `OutcomesAreGenuine`, `NobodyHearsTwice`, `StayingClientsHear` | one task of three moves, one message, three clients, one broadcast at a time |

Why the bounds are enough. One task suffices because no operation touches two; four
transitions hold an assignment, a failure, and the retry with its assignment and its end, and the proofs cover
any number. Two rooms are what it takes to spread a task's events. Two callers give every pair of
operations an interleaving, and a third would only repeat one. Two escrows and two tasks
are what it takes to mix them up, and to fund one task twice; invoices and channels share no variable
and no guard with them, so that `HalvesApart` (MCTaskPayments) keeps TLC from multiplying the two. Two jobs for one permit make
one wait; two chunks make an order. Two loops, and answers of two out of four events, make
limited answers, raising handlers with events behind them, and interleaved loops. Three
agents make a wrong peer and, in a room of three, a third that answers and overhears; two calls make a
stale answer and a negotiation in both directions.
A bucket that starts above its burst, one refill and one
rejection beyond the limit of hits are what the limiter's law must survive; its proof covers the
rest. Three logged and two stored events make the log prune, with one event changed on either side
of the gap; four records
give three reviews, the number from which consistency counts, and a task; a rating of 5.0 is of the
document's scale, and beyond the code's. Two keys make one that is refused beside one that is not.
In `directory` a room that is passed over, the right one and a needless third are what
`NoNeedlessRoom` takes, and one published room suffices for a visit; a peer with two cards, either of
which may come first, is what a stale card takes. Two agents create, join and leave rooms between the requests of
one call; a second call at the same time would add nothing to what a room operation by the
same agent does, since calls share the rooms and the peers only.
Three clients make one that was passed, one that is passed over and one that comes late; two
broadcasts do not read each other's state, and the proof covers any number; three moves
reach each end of a task.
`CHECK_DEADLOCK FALSE` stands where everything may be over (each cfg says what).

What the runs that expect a violation show (`PROJECT.json`, "findings"):

* A task that failed and was retried to completion is never paid: the refund was made at the
  failure, and the id of the refunded escrow is kept (armp_payments.py:322-327).
* A job cancelled before its executor ran is executed and reported completed
  (armp_compute.py:283, 309).
* `negotiate` may return another peer than the one it was called with (amp_sdk.py:822-826).
* A card that was published is read by discovery and not recognised (amp_sdk.py:880, 992): one
  writes its fields where the other looks for a field that holds it.

## 4. Fairness

* `SyncLoop`: weak fairness of each loop's steps. The event loop runs what is ready, `sync`
  has a timeout of 30 s, a sleep ends. A handler awaits the homeserver, whose requests end, and for
  a message also the user's callback (amp_sdk.py:337-338), which is foreign code: `Hang` lets it
  never return, and both liveness properties say what then becomes of the loop. The events of other agents and the calls of `start` and `stop` are not fair.
  `EventsArrive` further assumes what a loop can do nothing about: that it stays started
  and, from some time on, no longer fails.
* `Negotiation`: weak fairness of a call's own steps (the sleep ends, `_ensure_dm` returns or
  raises). None of delivery: `NegotiationEnds` holds though no message is handled.
* `ComputeSharing`: weak fairness of pollers, readers and of an executor's start. A job's handler
  is foreign code, so it is not assumed to end; `NoStarvation` has that as its premise,
  and `CompletedStreamEnds` speaks of jobs that did complete.
* `TaskLifecycle`, `Payments`, `TaskPayments`, `A2ABridge`, `Directory` and the services: safety only. Nothing in the code makes a task
  progress or an escrow be settled, so no liveness is claimed.

## 5. Proofs

Every invariant and every action property that a run checks is proved, for arbitrary sets of
tasks, callers, ids, agents, jobs, rooms and calls, and arbitrary bounds. What is assumed of the
constants the modules state (each `...Assumption`), and TLC evaluates it in the runs: mostly that
bounds are numbers and that values which must differ do. Three of them say more. `Clients` is
finite, since a walk over the list of clients is bounded by their number; `ToolNames`, `Required`
and `Preferred` are finite, being the lists one request or answer carries; the trust levels are
those the code's tables know. Ratings are any numbers: `TrustNeedsCredential` says of itself that it
is about agents whom nobody rated above 1.0.

Where a list may have any length, an invariant has to know what a list comprehension or a sum
does to it. `Keep` and `Total` are recursive functions, and the library's induction theorems cannot
be instantiated, so `ServicesProofs` proves induction itself in a form that needs no operator as a
parameter: numbers are well founded, so a set of them that is not empty has a least one
(`LeastOne`), hence a set with 0 and all successors is all of them (`Induction`), hence a
function that is defined step by step exists (`Stepwise`). `KeepType`, `KeepTail`, `TotalType` and
`TotalBound` rest on it: what a comprehension keeps are elements of the list, on a list that is
ordered it may keep just a tail, and a sum lies between the length times the least and the
greatest element.

`TaskLifecycleProofs`. `Inv` is inductive: to the four checked safety properties it adds
`UnreturnedIsNew` and `InactiveIsSilent` (a task that was not returned, or not created, has no
history, call or event), `CallsMatchHistory` (a suspended call carries the number and the
target of a transition that was made) and `CallsDistinct` (no two calls carry the same one).
Without these, `EveryTransitionAccounted` is not inductive: nothing in it says that the call
which returns was for the transition it announces. From `Inv` follow the invariants, the action property
`TerminalIsFinal`, and the refinement: initial states map to initial states, each step to a
`Move`, a `Tell` or a stuttering step of `TaskProtocol`.
`RoomUpToDate` speaks of the moments between calls and says nothing of the moments within one, so
it is not inductive: `LoneCall` says, of a task and a room that has all that was sent of it, what holds during the only
call on the task: all the room does not know yet is what this call is about to say
(`SaysTheRest`). `CallStarts` brings it about,
and the call that returns turns it into `RoomUpToDate`; a second call would break it, which is why
the property excludes tasks whose calls overlapped.

`PaymentsProofs`. `PaymentsInv` joins the type, `PaidAtMostOnce` (an escrow that is HELD or
new was neither released nor refunded, and none is released twice), `BridgeKeepsTasksApart`
and `ChannelNetWithinVolume`, each needing the others' facts on the escrow's status;
`RefundIsFinal` (once refunded, never paid out) follows as an action property; it and
`PaymentsTypeOK` are proved of `PaymentsSpec` and have no run of their own. `TaskPaymentsAreCalls`
shows that `TaskPayments` implements `PaymentsSpec`, so that all of these hold with tasks as well.

For `TaskPayments`, the payments' part of a step is `PaymentsInv`'s business; `SettleFrame` and
`ServiceFrame` say what it leaves alone. `OneAttemptSettlesRight` speaks of the end of a task;
`SettledAsHeard` is what holds on the way: the escrow of a task in its first attempt is RELEASED or
REFUNDED exactly when the third step was heard of and says so. It needs that no task has an
outcome before its third step (`WalkOK`), that an escrow id is never used twice (`EarlyOK`), and
that no two tasks share an escrow. A retry leaves its scope, as it must: there the escrow is the
refunded one (section 3).

`ComputeSharingProofs`. `CSInv` gives each job two laws. `PhaseLaw` ties the status to the place
of the executor, with the one exception the code makes: a cancelled job's executor may be
anywhere but at its end. It is what makes outcomes final: who could write the status of an ended
job, an executor, is done. `StreamLaw` adds to `StreamIsComplete` that the end marker is the last item
and no other, and that a reader which stopped at an error got no more than was yielded;
`PutChunk`, `PutEnd` and `TakeItem` are its three moves. `BoundedConcurrency` needs the line at the
semaphore to hold nobody twice, or a permit could be given to one that is running.

`SyncLoopProofs`. `EveryEventAccounted` is inductive once one knows that a loop has a batch only
while it handles it (`Balanced`), since an answer replaces the batch. `FillBatch`, `MoveHead` and
`DropBatch` are the three moves of an account. The refinement of `EventStream` rests on it:
what is at the head of the batch comes after all that was handled (`NextIsNewer`).

`NegotiationProofs`. `Inv` adds to `PeersAreGenuine` that every message sent is genuine
(`GenuineMessage`: from a member of its room, a request with a card of its sender, an answer with one too and
to a request of another member of that room), that results are of agents heard in this way, and
that who calls has a card. Members are never taken from a room, so what was heard stays so
(`HeardGrows`). `OnePeerIsRight` then follows: who only asked in direct rooms with one peer, and was in no room
but direct ones, has heard of nobody else there (`OneIsHeard`). The proof is where it becomes plain
what the correctness rests on: a third member of the room would break it, and so would a handler
that kept the requester's card, as the draft's flow has it (armp-v1.0.0.md:349).

`A2ABridgeProofs`. `Inv` (the table tells genuine outcomes) is inductive with the types of the
paths alone, because only an event of a step that was taken writes an end. For the streams,
`StreamsOK` says of every broadcast (`WalkOK`) that what was written is behind its iterator and
never ahead of it, and that, as long as nobody left behind the iterator, a connected client of
the audience is written already or still ahead. `Joined`, `Removed` and `Written` carry it over
the three ways in which list and iterator move; `Removed` is where it shows why
`StayingClientsHear` needs its premise: a removal behind the iterator moves one of those ahead of it behind.
`BridgeTypes` needs the most of all this: that a walk goes at most one place beyond the last client
there can be holds because a list without repetition is no longer than the number of clients.

`ServicesProofs`. *Limits.* `SpentWithinLimit` speaks of now, and is not inductive: a refill would have
to know what the bucket held. `Obeys` is the law behind it: what a bucket holds, cut at its
burst, and what it gave add up to at most its burst and its rate times the time to its last
refill; a bucket that was set or reset after its last refill has given nothing. `RefillLemma`
and `PayLemma` show that a refill and a payment keep the law, `ConsumeLemma` carries this to all
buckets of a call, `FirstLemma` picks the level that refuses. `LimitsHold` follows because time only
adds. `BlocksEarned` has no run: `RLInv` holds it and TLC checked it on the way.

*Window.* `WindowHolds` is about all that was ever let in, of which the window keeps a part. `WindowInv`
adds that what it keeps is exactly the tail of that list behind the cutoff, and that the list is
ordered; so that an event is let in only when the one `max_events` before it is dropped.
*Audit.* Of an event whose hashes were not touched the invariant says what it knows: the history up to
it and before it, as its hashes, and its place among all that was logged. Changing, dropping and
pruning keep it, in any order and with the clock set back. `VerdictExact` has two halves:
`ReportsChanges` follows from it in both directions, and `CleanMeansLogged` from the hashes
alone, since a chain without an error that ends at the log's last hash has that hash's content. Both rest on
the hash being injective, which is what the model takes it for.
*Reputation.* `CacheIsFresh` with the types is inductive: every step that changes a list deletes the
score. `PremiumIsReviewed` is then arithmetic about the score of an agent without reviews: neutral
values for ratings and consistency, and full marks for the rest, stay below the gate.
*Trust.* `AllVouched` is inductive, since the trust in an issuer is tested when it issues; without a
credential that is not revoked, a score is ratings alone, and these, at 1.0 or below, stay below what
`should_trust` asks for (`RatingsLemma`).
*SSO.* `RefusedKeyStaysRefused` is inductive with the types: the key is deleted in the step that refuses
it, and only registration puts one back.
*MCP.* `McpInv`: nothing is ever removed from the table of tools, so that whatever a walk has found and
whatever is exposed has a tool of its name there (`Known`), also when the walk breaks off. A walk
passes only stdio servers between its stops (`NextStopLemma`).
*Together.* A lemma, `EachAlone`, carries the theorems about one service over to `Services`, where the
others stand beside it; `ServicesTypesCorrect` is its use.

`DirectoryProofs`. The ghost `standing` is only worth something if a room in it is still to be asked
about: `LookRight` says so, and that each such room holds the two and nobody else. With it
`LookAtLemma` shows that a look passes over no right room, since a room of just the two passes the
code's test of two members, one of them the peer. `RoomsAreNeeded` follows: a room is made
when nothing is left to ask about. `RoutesServe` needs that among any number of cards some are
best, which holds because scores are bounded (`GreatestOne`), that scores rank as
`ServesBetter` does (`ScoreLemma`), and that the cards a discovery took are those its agent still
has, but for agents in `renewed` (`FreshInv`): `MeetFresh` shows how a new card puts its agent there,
`WalkKeeps` that no step of the walk changes what was taken. Without that exception the property is false.

Only model-checked: `PollerReturns`, `NoStarvation`, `CompletedStreamEnds`, `StoppedLoopsEnd`,
`EventsArrive` and `NegotiationEnds`, which are liveness under fairness and out of the prover's reach;
and the four properties the code violates.

## 6. Not modelled

* **In the compute executor:** the `CancelledError` arm (319-320) that only the shutdown of
  the event loop reaches; the registry of capabilities; statistics. A job that fails puts no
  end marker (321-324) and its reader waits for ever: the model has that behaviour,
  and no property is claimed for such a reader.
* **In the sync loop:** the agent's own events, which `_handle_event` skips; presence, typing
  and receipts; the `CancelledError` arm, as no code cancels the loop.
* **In negotiation:** the matching of capability names (it reads two cards and returns lists);
  that a card's DID is its sender's is not verified by the code, and the model's agents do not lie.
* **In the A2A bridge:** the HTTP server, cards and messages in either format, `tasks/get` (it
  reads), and who calls `armp_task_to_a2a`, which nothing in the repository does: the model lets
  it be called with any told step. That a canceled task stays canceled and that the newest event
  wins are not claimed: a late event or a returning `message/send` replaces the entry
  (armp_a2a_bridge.py:371, 477), and nothing in the repository says otherwise.
* **Payments:** prices (`suggest_price`), currencies, and the blockchain, which the code does not call.
* **Admin console and media:** each method writes one entry of one dictionary, or converts a
  file; there is nothing that two steps could bring out of order.
* **Adapters:** they call `Agent` and keep nothing; `ARMPTool` polls a task that no received event
  moves (amp_sdk.py:380-386).
* **The ports** in Rust, JavaScript and Go: other programs; where `agent.rs` differs from the Python
  SDK it is among the hazards.
* **In SSO:** `has_permission` and `require_role` with their two tables of roles (armp_sso.py:208-214,
  263-276): pure lookups that no state of the service depends on.
* **Within the modelled services:** queries, statistics, exports, the middleware of the rate
  limiter, SAML providers (stored and never read), the decoding of JWTs, the transport of an MCP
  call, the cryptography of a signature.

Behaviour the models have and no property claims to be absent, because it is what the code does:

* An escrow that was released can be refunded as well (armp_payments.py:201-209), which
  specs/drafts/payments-v1.0.0.md:28-34 does not draw.
* A broadcast passes over a connected subscriber when another leaves the list behind its walk
  (armp_a2a_bridge.py:317, 492).
* Two concurrent `_ensure_dm` create two direct rooms (amp_sdk.py:504-524).
* A request that the room's bucket rejects has used up the agent's tokens, and hits are wiped out
  by nothing but a reset (armp_ratelimit.py:184-231).
* An audit log that was pruned reports an error at each place where events are missing
  (armp_audit.py:186-218, 322-328).
* A task's events go to whatever room each call is given, and a room used earlier keeps an old
  picture (amp_sdk.py:666, 689, 705-785).
* A message callback that never returns holds its sync loop for good (amp_sdk.py:337-338).
* Every member of a room answers a capability request and stores what the others answer
  (amp_sdk.py:350-378), so that `negotiate` in a room of three may return a card of the third.
* `route_task` scores the card it took before its walk, also when the peer has sent another
  meanwhile (amp_sdk.py:859-863, 893).
* A token's roles are those its issuer or caller names (armp_sso.py:243), and do not end with it (263-276).

Where the code and the drafts under `specs/drafts/` part. The models follow the code, and the
properties claim no more than it keeps:

* `armp-v1.0.0.md:349`, "B stores A's card": `_handle_cap_request` answers and stores nothing
  (amp_sdk.py:350-368).
* `audit-v1.0.0.md:79`, "Any modification to historical events breaks the hash chain and is detectable"
  (and `armp-v1.0.0.md:708`): `session_id` and `source_ip` are not hashed (armp_audit.py:82-96), and
  a chain whose later hashes were all recomputed shows no error; it no longer ends at the
  last hash, with which `verify_integrity` compares nothing.
* `reputation-v1.0.0.md:63-70`, a minimum of completed tasks for each tier: `tier_from_score` looks at the
  score alone (armp_reputation.py:37-50). `reputation-v1.0.0.md:99`, ratings from 1 to 5: the score takes them as
  parts of 1.0 and `add_review` tests none (126-133, 153-159), so that one rating of 4 fills the score.
* `trust-framework-v1.0.0.md:98-103`, a verifier checks the signature against the issuer's key, the issuer, the
  expiry, the revocation and the subject: `verify` asks for a proof and an expiry date only, and the issuer is looked
  at when it issues (armp_trust.py:114-135, 187-188). "Number of verified credentials" (armp_trust.py:228):
  the score counts all that are not revoked, expired and unsigned ones too (206-217).
* `sso-v1.0.0.md:49-51`, signature, `iss`, `aud`, `exp` and `nbf` of a token are verified: `validate` looks at the expiry,
  and at the issuer when the provider is known (armp_sso.py:140-185). `sso-v1.0.0.md:56-62`, what each role may do:
  the table in the code is another one (armp_sso.py:208-214).

## 7. Plan

Done: every component of the Python code that keeps state other than tables, in the modules
of section 2; the proofs of section 5.

Next: shorter proofs where a lemma could serve two modules; the ports, where they differ from
`TaskLifecycle`.
