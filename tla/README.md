# BabelQueue for Python: the TLA+ project

BabelQueue is a polyglot job-queue runtime: producers publish JSON envelopes to a
broker, `app.consume()` takes them one at a time, routes each by its URN to a
handler and settles it. The code is in `src/src/babelqueue/`; paths below are
relative to it. This directory holds specifications of its stateful parts, the TLC
configurations that check them, and TLAPS proofs of the properties that matter most.

    tlc  -config <run>.cfg <Module>.tla      # the runs table below
    tlapm <Component>Proofs.tla              # every module that ends in Proofs

## 1. The system

### Components, their state and their operations

| component | state | operations | modelled by |
|---|---|---|---|
| Consume loop, graceful shutdown (`app.py`) | `_stop`, `_signalled`, `_deadline_hit`, `_phase`, `_last_phase`, the timer, locals `received`, `inflight`, `processed` | `consume`, `dispatch`, `stop`, the signal handler, the deadline timer, `_release_unprocessed` | `Worker` |
| Dispatch and settlement (`app.py`, `transport.py`) | the delivery being settled | route, handler, retry, dead-letter, release, rewind, abandon, native settle, observer | `Settlement` |
| Transport contract (`transport.py`) | queued, leased and dead-lettered bodies | publish, pop, ack, redeliver, dead_letter, lapse | `LeasedQueue` |
| Redis transport, legacy layout (`redis_transport.py`) | ready list, `:processing`, deadline zset, DLQ | publish, sweep + reserve, ack, redeliver, dead_letter | `RedisLegacy` |
| Redis transport, Laravel layout (`redis_transport.py`) | ready list, `:reserved` and `:delayed` zsets | publish, migrate, reserve, ack, release, dead_letter | `RedisLaravel` |
| Kafka transport, offset books (`kafka_transport.py`) | `_pending`, `_settled`, the group's committed offset | pop, pop_batch, ack, rewind | `KafkaOffsets` |
| Kafka transport, settlement writes (`kafka_transport.py`) | work, tier and DLQ topics | publish_delayed, redeliver, dead_letter, publish_settle | `KafkaSettlement` (over `KafkaOffsets`) |
| Retry re-injector (`kafka_retry.py`) | `_waiting`, paused partitions, committed offset | run_once: accept, release, commit, rewind | `KafkaRetry` |
| Transactional outbox (`outbox.py`) | the outbox rows, a relay's batch | write, flush, drain, mark_published | `Outbox`, `Pipeline` |
| Idempotency guard (`idempotency.py`) | the set of seen ids | `wrap`, `forget` | `Pipeline` |
| Redrive and replay (`redrive.py`, `replay.py`) | a drained batch | drain, restore, republish, ack | `Redrive` |
| SQS, Azure Service Bus, Pulsar, Artemis, AMQP transports | what a link received and has not settled; the broker's counters and properties | projection, version gate, attempts reconcile, ack, give back, native settle | `CountedBroker`, their capabilities in `Settlement` |
| Field encryption (`gdpr.py`, `sensitive_paths` of `schema.py`) | the data it transforms in place | `protect`, `unprotect` | `FieldProtection`, `SensitivePaths` |
| Codec, envelope shape, schema validation, headers | none | pure functions | not modelled |
| OpenTelemetry, Celery, Django | none the runtime reads | wrappers | not modelled |

`PROJECT.json` lists every component with its sources and its status.

### How they interact

The worker calls the transport (`pop`, then one settlement per delivery). It chooses the
settlement by the *capabilities* the transport implements (`Redeliverer`,
`DeadLetterWriter`, `Rewinder`, `Abandoner`, `NativeSettler`), and falls back to
"publish a copy, then ack". Several workers share a broker queue; nothing else ties them
together. Within a process the main thread shares its shutdown flags with the signal
handler, the timer thread and callers of `stop()`. On Kafka a retried record goes to a
tier topic, and a re-injector process brings it back to the work topic. An outbox relay
publishes rows that another process committed together with its business data, and a consumer
whose handler is wrapped by the idempotency guard undoes the repetitions. A handler that
opens sealed fields does so in the data that `dispatch()` may encode again for a retry. An operator
runs `redrive()` against a dead-letter queue while workers keep running.

### What is hard

* **Asynchronous interrupts.** Signal handlers run between any two steps of the loop and
  may raise there. Every claim about "acked or released, never both" is about where.
* **Settlement is several broker calls.** Any of them may fail, the process may die
  between two of them, and the broker may take the reservation back meanwhile.
* **Leases without identity.** Two equal bodies on Redis are indistinguishable in the
  lists; only tokens and deadlines tell reservations apart.
* **Members without identity.** In the Laravel layout a reservation *is* its value: two equal
  jobs share one member of the sorted set, and a late release adds a copy no script refuses.
* **Cumulative commits.** A Kafka commit settles every lower record. Batches, failed
  settlements, rebalances and held records all threaten to commit past one that is lost.
* **Two sources of truth.** The body, the message properties derived from it and the broker's
  delivery count each say something about a message; every publish rebuilds the properties.
* **Shared data.** `protect()` and `unprotect()` change nested values in place, and the data a handler
  gets shares its nested values with the envelope the runtime keeps.
* **Time.** Deadlines, visibility, retry tiers, and clocks that differ.

The hazards of `PROJECT.json` name each of these at the line where it bites, with the
properties that would catch it.

## 2. The modules

**`Worker`.** `pc` is a place at which the interpreter runs pending signal handlers;
statements with no such place between them are one action. Actions follow `consume()`
from `Start` through `LoopTest`, `PopReserve`/`PopReturn` (the broker reserves before
`pop()` returns, and an interrupt in between loses the handle), `StopCheck`,
`Dispatch...`, `Settle`, `CatchDeadline`, `CatchInterrupt`, the release and the
`finally` block. `Signal`, `DeliverKill`, `TimerWakes`, `Expire` and `Stop` are the
other actors. `config` is chosen at the start: how the transport releases (rewind,
redeliver, or a copy and an ack), `shutdown_timeout <= 0`, `max_messages`.

**`Settlement`.** One delivery from `pop` to its end. `Route` chooses among handler,
unknown URN, version gate and poison. The remaining actions are the broker calls of the
chosen settlement, each with its failing form. `conf` enumerates seven kinds of transport by
their capabilities, the four `on_unknown_urn` strategies, `dead_letter` on or off, and
what the message is. `inTry` says whether an exception meets `dispatch()`'s `except` or
leaves it, which is what decides between "retried" and "left unsettled".

**`LeasedQueue`** says what a queue with reservations promises: a body is in one
place, a lease ends once. **`RedisLegacy`** is the layout that implements it. Each Lua
script is an action. Raw values are not unique, so `:processing` is a bag (the scripts
search it by value) and the deadline zset maps tokens to raw values. The refinement
`IsLeasedQueue` maps the zset to the leases, the ready list to the available bodies.
`All` (-1) as `Batch` and `Never` (-1) as `retry_after` stand for the code's `-1`/`None`.

**`RedisLaravel`** is the other layout. Each script is an action (`MigrateDelayed`,
`MigrateReserved` and `Pop` are the three of one `pop()`, so that other workers come between
them). The sorted sets are functions from stored values to the seconds left, so equal jobs are one
member, as in Redis. `Ack` and `DeadLetter` ask whether the member was still there; `PutBack`
(`_RELEASE`) does not. A settlement whose answer is lost is repeated (`Answered`).
The layout does *not* implement `LeasedQueue`: a job may get a second copy, and two
reservations may be one. What it does promise is `NothingLost` and `CopiesHaveACause`.

**`KafkaOffsets`** keeps `_pending` and `_settled` per consumer and the group's offset.
`BeginPop` includes `_rewind_abandoned` (the books are rewound to the lowest record of
a partition that is still pending and its caller let go), `Ack` the deferred commit. `Rewind` is
the runtime's, of its only record. A handle carries the assignment it was
polled in, so that a late ack of an older assignment is another object, as in the code.

**`KafkaSettlement`** extends `KafkaOffsets` with what the records say and how they are settled:
`Undecodable`, `HandlerReturns` and `HandlerRaises` choose the settlement (`step`), `Confirmed` is a
write to a tier or the dead-letter topic with its delivery report, `Unconfirmed` one whose report
is an error or too late, which may have landed all the same, `SettleHeld` the ack with the deferred
commit of the books. `header` and `body` are the two attempts counters of a record; the
transport reconciles them on `pop` and writes both on a retry. `Reinject` brings a parked record back.

**`KafkaRetry`** holds, per partition, the polled records and the ticks until each is
due. `Accept` and `Wake` are `run_once()` with and without a record. Both end in
`_release_due()`, which reads the clock once: `todo` remembers how many heads were due.
`Reinject`, `Commit` and their failures then work through one partition at a time (`at`).
Clocks are relative: a record's `left` counts down, and a skewed producer clock is a
larger or smaller start value.

**`Outbox`** numbers rows; several relays run `drain()`. `Fetch`, one `Accept` or
`Reject` per row, `MarkPublished` with the end-of-pass decision of `drain()`, `Abort`.
**`Pipeline`** extends it to the effect of the handler: the relays publish into a broker that
delivers each copy at least once, and each consumer runs `wrap()`, which is three steps
(`seen()`, the handler, `remember()`). The store is shared, or one `InMemoryStore` per process. Leases lapse,
handlers and stores fail, processes die, ids are forgotten; `excuse` counts the runs that
the store could not have prevented. What raised goes through `_retry_or_dead_letter()`: a copy carries its attempts, `Retry` puts it
back with one more, and a copy without attempts left is dead-lettered or dropped (`GiveUp`, the rows in `ended`). A broker may count a
delivery that lapses (`counts`), and a late release may publish a copy although the lease is gone; `failures` is the history of
attempts that failed, against which the counters of the copies are held.

**`CountedBroker`** has a work queue and a dead-letter queue of a broker that keeps unsettled
deliveries itself. A stored copy is its message, the `attempts` of its body, its properties
and the broker's count; `ready` is a bag, `unsettled` what one link received, in order.
`...Projection`, `...Accepts`, `...Attempts` and `...Pop` are each transport's; `Acked` says which
delivery an ack settles: the one its handle names, or on Artemis the oldest of the receiver. A
message is plain, without properties, routed by a property, gated (its property declares an
unsupported version), newer (its body does too) or poison. **`Redrive`** composes it with a
worker (the settlement of `app.py`, one broker call per action) and with `redrive()`:
`DrainOne`, `ChooseItem`, `Restore`, `Republish`, `AckItem` and their failures. `recorded`
and `received` of a copy are history: the failures and deliveries it stands for.

**`FieldProtection`** follows one message from the producer's `protect()` to the handler's
`unprotect()`. A JSON document is a function from the addresses of its values (the steps from the root) to what
stands there. `NextPath` is the loop of `_walk`, `Descend` one segment of `_apply_at_path` in the data as it is at that moment,
`EncryptLeaf` and `DecryptLeaf` one leaf. `Store` writes where Python's assignment goes: into the
handler's copy when the leaf is an entry of it (`OwnTopLevel`), into the object it shares with the
runtime's envelope otherwise. `WriteRetry` and `WriteDeadLetter` write that envelope. `Sealed` and `Leaves` are the reference:
what the marks alone say the body should be, and the values that are spelt like a path.

**`SensitivePaths`** is the walk over the schema that finds those paths (`_collect_sensitive`). A schema is a tree and the
walk recursive, so this module is for TLC only and the proofs use `FieldProtection` without it. `FindsEveryMark` compares it
with the marks of the schemas that describe each value; the MC module states that for its schemas, and TLC evaluates it.

`PROJECT.json`'s `map` names the source lines of every definition. Definitions called
`Mut...` are plausible bugs, one per property at least; no specification uses them.

## 3. What the runs check

| run | module | what it shows | bounds |
|---|---|---|---|
| `worker` | `MCWorker` | no delivery both acked and released; an exit leaves none unsettled, unless a second signal fell between the reservation and `consume()`'s knowledge of it or into the release; deadlines only for their call; a deadline, and a stop, ends `consume()` | 2 messages, 2 calls of `consume()`, 3 signals, 1 `stop()`, 1 failing broker call, 3 configurations |
| `settlement` | `MCSettlement` | nothing lost, drops only as configured, rejected messages stay out, run budget, everything ends | 1 message, `max_attempts` 2, 2 failures, 1 crash, 1 lapse, every configuration |
| `redis_legacy` | `MCRedisLegacy` | conservation, no theft, refinement of `LeasedQueue`, lapsed reservations return | 2 workers, 4 tokens, 1 body stored twice, `max_attempts` 2 |
| `redis_laravel` | `MCRedisLaravel` | nothing lost, copies only from a late release, attempts count the deliveries, the queue drains | 2 workers, one job published twice and a poison body, `max_attempts` 2, migrations of 1, lifetimes of one tick or none, 2 troubles |
| `kafka_offsets` | `KafkaOffsets` | commits never pass an unsettled record, none is skipped, all settle | 2 consumers, 1 partition, 3 records, batches of 3, 2 troubles |
| `kafka_settlement` | `MCKafkaSettlement` | no commit before the outcome is written, header and body leave in step, nobody is dead-lettered early, everything ends | 1 consumer, 1 partition, 2 messages, 8 records, 2 tiers, `max_attempts` 3, 1 trouble, 3 configurations, 6 contents of the first message |
| `kafka_retry` | `MCKafkaRetry` | commit after write, order kept, write budget, not early, all re-injected | 2 re-injectors, 1 partition, 2 records, tier 2, 2 troubles |
| `pipeline` | `MCPipeline` | a published row is handled or given up after `max_attempts` failures, and handled twice only for a cause the store cannot see | 2 relays, 2 rows, 1 poison, batches of 2, 2 passes, 2 consumers, `max_attempts` 2, 1 relay trouble, 2 faults |
| `pipeline_handled` | `Pipeline` | while rejected rows leave room in a batch, every row the transport accepts is published and handled in the end, or `max_attempts` attempts fail | the same with 1 consumer |
| `redrive` | `MCRedrive` | nothing lost, no copy without a cause, attempts honest, destination kept | 2 messages, one of any class; every transport, `dead_letter` on or off; `max_attempts` 2, 1 fault (failed call, lapse or crash), 1 redrive, 1 shutdown release, `maxReceiveCount` 3 |
| `redrive_artemis` | `MCRedrive` | refutes "an unsettled Artemis delivery stays unsettled" | 2 messages, 1 fault |
| `field_protection` | `MCFieldProtection` | handlers read the producer's data, published bodies are sealed as the schema says, a message opened in the handler's own copy recovers | 7 schemas and data, both ways to reach the data, `max_attempts` 3, 2 faults |

*Why the bounds are enough.* Two messages let a handler run for one while the flags still
carry the other's traces, two calls let a timer of the first meet the second. Two
signals are the most the handler tells apart; the third lands in the other call. In `Settlement` deliveries of different messages share no
state, so one message shows everything. `max_attempts` 2 has a retry and a last
attempt. Two failures reach "the write failed, then the fall-back failed". Two equal
bodies are the smallest case in which `:processing` cannot tell reservations apart, and a
third or fourth token lets an old holder come back late. Three records with batches of
three is the least in which a deferred commit has records on both sides. Two re-injectors, a
rebalance and a failure reach stale held records. A batch of two with one poison row has a
row behind it. Two equal jobs are the least that shares a reservation, and two troubles let
one worker crash while another's reservation runs out. `max_attempts` 3 with two tiers passes through both tiers
and the dead-letter topic, and a record that lands twice is already the second copy of its message.
Two consumers of a pipeline run one message at the same time, which is what the guard cannot prevent, and two faults with
`max_attempts` 2 reach the end of the attempts, or one attempt and a crash; relays and consumers are interchangeable (no constant and no
safety property tells them apart), hence the symmetry of `pipeline`. Liveness allows no symmetry and is too slow with two consumers, so
`pipeline_handled` has one. In `Redrive` one fault lands
between any two calls of either process, the second message is what an ack could take for the
first, and with `max_attempts` 2 a message goes through a retry, the DLQ, the redrive and
both again (two faults without shutdown releases hold as well; that takes too long to run each time). The cases of `FieldProtection` have every shape
`_apply_at_path` tells apart (entry, nested entry, array element, entry of an element, container, absent, another type, array of arrays), and two
faults fail an attempt in each of two places and leave a third to succeed.

*Bounds that a guard states:* `MaxRuns`, `MaxSignals`, `MaxStops`, `MaxFailures`,
`MaxCrashes`, `MaxLapses`, `MaxPublished`, `MaxLen`, `MaxTrouble`, `MaxFaults`, `MaxRedrives`, `MaxReleases`. `MaxPasses` is
`drain()`'s own `max_passes`.
`MaxReceives` is no bound but the queue's `maxReceiveCount`, at least `max_attempts` as the README
of the repository asks. `RedisLegacy`, `RedisLaravel`
and `KafkaSettlement` stop when every message is settled and nothing more may be published, hence the
`CHECK_DEADLOCK FALSE` of their configurations.

### Fairness

* `Worker`: weak fairness of the main thread between handlers, of the delivery of a pending
  signal and of the timer thread (the operating system schedules them). *Not* of the handler's return:
  `DeadlineEndsConsume` holds with a handler that never returns, `StopEndsConsume` names
  its assumption (`WF_vars(HandlerEnds)`) in the property. A returning `pop()` is fair
  because every transport's `pop` takes a timeout.
* `Settlement`: weak fairness of the worker and of restarting it, and of the broker giving an unsettled delivery
  back (visibility timeout, session end, rebalance). Failures, crashes and lapses are bounded and never fair. `EventuallySettled`
  excludes, by `Ending`, configurations in which the code says a message stays for ever: Kafka without
  tiers, a verbatim release of an unknown URN.
* `RedisLegacy`: time passes and a worker in `Live` keeps popping and settling; the others may stop for good.
* `RedisLaravel`: time passes, workers are restarted and keep polling, and a settlement whose
  answer arrives happens in the end.
* `KafkaOffsets`, `KafkaSettlement`, `KafkaRetry`: a consumer keeps calling `pop()`/`run_once()`, a partition
  is assigned in the end, and a consumer polls each of its partitions again and again (strong fairness per
  partition: Kafka's fetcher serves partitions in turn). `Reinject` is strongly fair per
  partition because a rebalance or failure of another one may switch it off for a moment.
* `KafkaSettlement` also: handlers return, a write is confirmed in the end, and every record of a
  tier is brought back once (that is `EveryReinjected` of `KafkaRetry`).
* `FieldProtection`: the producer and the worker go on; ciphers and handlers that fail and lost deliveries are bounded and never fair.
* `Pipeline`: `drain()` is called again and again and its steps run; each consumer keeps taking, running and settling
  (acks, retries and the end of the attempts). A handler may fail as often as `MaxFaults` says, so `EventuallyHandled` ends in the handler's return or in
  `max_attempts` failed attempts.

### Where the code and its documents disagree

One run, `redrive_artemis`, is a refutation; `PROJECT.json`'s `findings` quotes the document.

1. Artemis' `accept()` settles the oldest delivery of the receiver, so the next ack takes away one that
   was left unsettled (`artemis_transport.py:306`). This rests on proton's receiver, which is external:
   it settles the first of the deliveries it handed out. `NothingLost` therefore excludes Artemis once a call failed,
   and so does `CopiesHaveACause`: with three messages, three redrives and one fault, acks that are one delivery late
   leave three copies of one message. The run is too small for that; its proof did not go through without the premise.

Part of the models, and stated by the properties as what does hold instead:

* "A message is either acked or released, never dropped" (`app.py:337`): a second signal before `inflight` is
  set, or inside the release (the one in the clause for `KeyboardInterrupt` included), drops the delivery. `ExitSettles` covers
  every other way out: second signals at the stop test, around and inside the handler, while `dispatch()` unwinds, before the count and in the `finally` clause.
* The handler's data is a copy of the top level only (`app.py:747`): a nested leaf it opened is in the envelope, so
  after a failure the retry and the dead letter carry it in cleartext, and it can never be opened again. `WireSealed`
  and `Recovers` therefore speak of marks on the top level and handlers that open `data`; a handler that opens
  the `data` of the envelope it was given shares even the top level.
* `unprotect()` opens a marked container before the marks inside it and then takes a cleartext
  string there for a ciphertext: such data never opens (`gdpr.py:159`).
* A path through an array of arrays keeps a `[]` in its key and leads nowhere: those elements are
  published as they are (`gdpr.py:176`), which `WireSealed` excludes.

Seen while modelling and kept as part of the models, without a run: a first signal between the stop
test (`app.py:344`) and `_phase = _HANDLING` (`app.py:434`) arms no deadline, and the handler then runs as
long as it likes (`DeadlineEndsConsume` starts from an armed deadline); an unknown URN under
`on_unknown_urn=DEAD_LETTER` with `dead_letter` off whose dead-letter write fails is retried and, after
`max_attempts`, dropped (`app.py:1017-1028`), which `OnlyPermittedDrops` allows; `drain()` ends on a
pass in which every row of the batch was rejected, although good rows may lie behind it
(`outbox.py:261-276`): `EventuallyHandled` is claimed only while the batch is larger than the number of rows the
transport always rejects (`RoomInBatch`); a second signal in
`consume()`'s `finally` block escapes as `KeyboardInterrupt`; a dead-letter write that fails
inside `dispatch()`'s `except` clause leaves `consume()` (the tests expect that), and the
message is then redelivered, which `NoLoss` covers; a producer clock that runs *behind*
shortens the wait of a tier record, which is why `NotEarly` assumes clocks that are not, and
records stamped *ahead* wait one tier each behind one another, since a record's wait is
clamped only when it is accepted (`kafka_retry.py:201`); Redis tells the dead-letter observer of a write
that a lapsed reservation turned into a log line (`app.py:595`), which `ObserverTruthful` excludes;
on every transport but Pulsar the dead-letter record's version property is rebuilt
from the body, so after a redrive a message gated for its property alone passes the gate (`RouteStays` says so).

## 4. What is proved

TLAPS checks these for every value of the constants allowed by the modules' assumptions
(`...Assumption` of each module, which TLC evaluates on the instances). Each invariant is the
conjunction of named parts, with one lemma per action.

**`ConsumerProofs`**, consume loop (any messages, signals, `stop()` calls, failures and calls of `consume()`).
A signal may land at any place of the interpreter, so `WInv` says for each place what flags and locals
promise there: the phase, the fate of the delivery so far, what the interrupt clause may rely on, and
which call the deadline belongs to. Every safety property of the `worker` run follows, and two that only the
proofs state (no handler for a message reserved after the stop, and an uninterrupted settlement):
`AckedXorReleased`, `StopComesFirst`, `ExitsSettle`, `DeadlinesStayHome`, `SettlesInPeace`.

**`SettlementProofs`** (any messages, configurations, attempts, failures, crashes and lapses).
`NoLoss` is not inductive: it takes `SafeToAck` (before the original is acknowledged the message is
elsewhere), and `RoutedBy` (which routes lead to a broker call) for the drops and the rejected. From
`SInv`: `NothingLost`, `DropsPermitted`, `RejectedStays` and `ObserverIsTruthful` (which no run repeats).
`RunBudget` needs a balance (`RunInv`): a copy attempted n times stands for `MaxAttempts - n` handler runs, and for
one when a broker counted it to the limit. The runs had, those of the copies in the broker (the number of their
tokens, so that a sum over copies is a cardinality) and those of the copy in hand stay within
`MaxAttempts * (1 + failures)`; each action moves tokens, and only a failure adds any: `RunsAreBudgeted`.

**`RedisLegacyProofs`** (assumption: `RedisAssumption`; any workers, finite set of tokens, any bodies,
any batch size, any deadlines).
`IInv == TypeOK /\ ProcessingMatches /\ Conservation`. `ProcessingMatches` (per raw
value, as many entries in `:processing` as members in the zset) is what makes a sweep find every value it expects
(`SweepFindsAll`); conservation alone is not inductive, because a sweep that missed
a value would drop a member without moving a body. From it: type
correctness, `ProcessingAgrees`, `Conserved`, `NobodySteals` (an action property), and
`Refinement`: every step is a step of `LeasedQueue` or a stutter.
Cardinality changes by one member at a time (`MemberAdded`, `MemberRemoved`), by a set in a sweep (`MembersDropped`).

**`KafkaProofs`**, the books (assumption: `KafkaAssumption`; any consumers, partitions, batch and bounds).
`IInv` joins `TypeOK`, `CommitOnlySettled` and `NothingSkipped` with three facts of the books:
`DeferredWaits` (a settled record whose commit was deferred still has a lower record of its
partition in flight), `BooksClosed` (below every record a consumer remembers, pending or deferred,
every record is acknowledged or still pending with that consumer) and `DeferredAcked` (a deferred
record was acknowledged by its caller). `CommitOnlySettled` alone is not inductive: an `ack()`
commits as far as the books allow, and it is `BooksClosed` that says nothing unsettled lies below. From
it: `TypeCorrect`, `NeverPastUnsettled`, `NoneSkipped`, `DeferredCommitsWait`.

**`KafkaProofs`**, the settlement (any messages, tiers, attempts and log lengths).
`SettlesByTheBooks`: every step of the settlement is a step of `KafkaOffsets` or leaves the books
alone, so `CommitOnlySettled` carries over without a new proof. `KInv` adds that a record is acknowledged
only when it has an outcome (`AckedOutcome`), and so has one the runtime is about to acknowledge
(`ReadyOutcome`): `CommitsOutcomes`. `BudgetInv` follows a message's count through header, body and tiers: no copy
counts more than its producer wrote and the handler runs since. From it: `RetriesInStep` and `BudgetsAreSpent`.

**`KafkaRetryProofs`** (any re-injectors, partitions, tier, clocks and log lengths).
`CommitOnlyWritten` and `NoOvertaking` rest on `HeldInOrder`: below a record held in
memory, every record is on the work topic or held further ahead, also in the memory of a re-injector
that has lost the partition; `PolledInOrder` says it of the owner's position. `DueNow` and `Timely`
(the ticks left and the age make up for the tier) give `NobodyIsEarly`, for producers whose clocks are not
behind (`OnTimeClocks`). `WritesArePaid` counts tickets: each place from which a consumer may still write
a record (it holds it, or the group may poll it once more) is paid for by its parking or a trouble, hence
`WritesAreBudgeted`. That `_release_due()` counts only due records (`DueHeads`) needs the least record that is not
due, from the well-foundedness of `<`.

**`PipelineProofs`** (any rows, relays, batch sizes, consumers, retry limit and faults).
`RelaysKeepOutbox`: the relays of the pipeline are those of `Outbox`. `PublishedIsHandled` from
`Placed`, `EffectFirst` (an id is remembered, and a delivery acked, only after a handler returned) and `FailuresCounted` (no copy counts more
attempts than have failed, so one that is given up used all of them up; repeated publishes and late releases make other copies, which start or go on with their own count);
`EffectsAccounted` from `RunsAccounted`, which counts the runs that may still return.

**`RedisLaravelProofs`** (any workers, finite set of jobs, deadlines, delays and batch size).
`NoJobLost`. What has to be strengthened is arithmetic: a crash or an outlived reservation adds an attempt
that no retry limit sees, and `Counts` pays each with one trouble, except for the reservation
that is still held and not due. `CopiesHaveCauses` rests on `AllCaused`: a worker in the middle of a job counts as one
copy more, since it may release late, unless a member of `:reserved` that is not due stands behind it. Equal
jobs share one member, so the second worker counts, but the merge has taken a copy away; a reservation that comes due
under its worker, or an answer that is lost, is an excuse. `AttemptsAreHonest` uses that bound and `NoJobLost`
together: a job published once, without an excuse, is in exactly one place (`Alone`), and only there does a
delivery or a hand-back change the count.

**`RedriveProofs`** (assumptions: `BrokerAssumption`, `RedriveAssumption`; any messages, classes of message and
configurations, any attempts, faults, redrives and releases).
Three invariants, each resting on the one before.
`CopiesInv` says what a copy may look like: one that waits has counters its deliveries cover, one that a link holds
leaves room for the attempt under way, and in the dead-letter queue a gated message may have lost its gate before an
operator sends it back, which `RouteStays` alone does not say. From it: `RedriveTyped`, `CountsAreHonest`, `RoutesStay`.
`HandlesInv` ties a delivery to who remembers its handle: handles are unique, a handle still held is that of the copy
the client thinks of, and without a fault Artemis holds the deliveries in the order their clients settle them, so that
the oldest one is the right one.
`StockInv` is the balance of the copies of a message, the units of the bags and the places of the links. `NothingLost`
is not inductive: between a write and the ack one copy is to spare, and that one is what the ack takes (`Kept`).
Nor is `CopiesHaveACause`: a delivery the broker took back while a client works on it (adrift) will be written once
more, and a client about to settle has one copy too many that it takes away; both count in `Caused`. The lemmas on
`(+)`, `(-)` and `RemoveAt` say what each broker call does to the count. From it: `MessagesAreKept` and `RedriveCopiesAreCaused`.

**`ConsumerProofs`**, field encryption (assumption: `ProtectionAssumption`, what a JSON document is and that the producer's
data holds no ciphertext; any schemas and data, attempts and faults).
`HandlerReadsOriginal` and `WireSealed` are not inductive: they say nothing of a document half sealed or half opened.
`FieldInv` says of every document in play that it is the producer's data sealed at some of its *outermost* marks
(`SealedForm`: a mark under another one is inside its ciphertext), of `protect()` that those are the ones it has
passed (`ProducerInv`), of `unprotect()` that what is still sealed is still before it, and that the runtime's envelope
is at least as sealed as the handler's view (`HandlerInv`). The lemmas on documents carry it: sealing one more leaf, or opening one,
of a document sealed at a set is sealing it at the set with that leaf, or without it (`Sealing`, `Opening`), as long as no leaf
of the set lies under another. That the walk reaches those leaves is `DescentInv`: it stands at all values that lie
as deep as the part of the path it has passed, and one segment leads to all values one or two levels down (`ChildrenLevel`,
`ElementsLevel`). That a path sealed later does not find its leaves hidden, or a container's marks bare, rests on the order of
the paths (`First`) and on the outermost mark above a leaf (`UnderOutermost`).
From it: `FieldInvariant`, `NothingSealedAtWork`, `MarksSealedAtBroker`, and, stated by the proofs only, that a way down ends at
exactly the declared leaves (`WalkTouchesDeclared`).

Only model-checked: every liveness property (fairness is out of the prover's reach) and what the recursion over a schema
collects, an induction over data: TLC evaluates `FindsEveryMark` on the schemas of `field_protection`.

## 5. What the models leave out

* `handle_signals=False` and signals outside `consume()`'s handlers; interrupts inside C
  calls (a step is what runs between two points where CPython looks for signals).
* Azure receivers that lack `dead_letter_message`, and other clients that lack a
  method their SDK has.
* Redis: the clock a script is given is read just before it runs (a worker that stalls between the two
  sees an older clock: it sweeps less, never more). Never-expiring workers (`retry_after=None`) are covered by
  the theorems, the run uses deadlines only.
* `Pipeline`: a settlement that fails is one whose lease lapsed before it; the routes of unknown URNs, gated and poison messages are `Settlement`'s;
  how a copy travels between retries (tiers, delays) and the dead-letter queue itself are other modules'.
* Laravel layout: a poison body is stored as it is and reserved without a count (the script counts a body
  without an identity that decodes and has a numeric `attempts`; no property depends on it); two encodings of one envelope are one value (the case in which members coincide); the
  notify list, which only wakes a blocked `pop()` early; clocks of workers that differ; `retry_after = 0`; workers
  with different `retry_after`.
* Kafka writes: record keys, out-of-band headers and the wrap of a poison body are data. The second
  consumer of a partition is in `kafka_offsets` and in the theorems, not in `kafka_settlement`.
* Kafka: `seek` fails only on a partition that is not assigned, as the code's comment
  says; `resume` is not lost for a partition one owns; callers acknowledge only handles they
  hold; `rewind()` is called with a single record held, as every caller does. Runs with two partitions and liveness
  are too slow for TLC; the safety theorems hold for any number.
* `CountedBroker`: delays, FIFO groups and an SQS client that reports no receive count
  (`_uncounted_handles`); one worker, so a second one appears only through what the broker gives
  back while the first still holds its handle; `on_unknown_urn=fail` only (`Settlement` has the other strategies). A connection that drops
  under a client that lives on, and the delivery tags of the channel that pika reopens then (`pika_transport.py:46-53`), are not modelled.
  The replay-bypass header and the in-memory transport have no state that matters here.
* `FieldProtection`: names with a dot or brackets in them; a producer that calls `protect()` again on data it has
  sealed already; the cipher, which is the caller's; the encoding of a leaf, which JSON restores.
* Message bodies, headers, the validation of a schema and telemetry: pure data.

## 6. What is left

1. `Envelope`: identity, attempts and version decisions as operators, against a reference
   definition (`codec.py`, `shape.py`). Pure functions; today the decisions are operators of `CountedBroker` and `KafkaSettlement`.
2. The in-memory transport as an implementation of `LeasedQueue` without deadlines.
3. Several workers on one `CountedBroker`, in an instance TLC can still finish.

The schema validator, telemetry and the framework adapters keep no state between calls that the
runtime reads; of the publish path the models have the call to the transport.
