# A TLA+ model of bifrore (tenon)

Bifrore's engine, `tenon-oss`, is a process that subscribes to an MQTT broker
with one or more clients of a shared-subscription group, applies SQL-like rules
to every message and sends the results to sinks (log, noop, Kafka). This
directory holds TLA+ specifications of it, configurations that model-check them
with TLC, and TLAPS proofs about them. Paths are relative to the repository
root; `core` stands for `src/engine/tenon-core/src`, `oss` for
`src/engine/tenon-oss/src` and `coordinator` for
`src/engine/tenon-coordinator/src`.

## 1. The system

```
 broker ==(connection per client)==> event-loop task of each client      core/mqtt.rs
                                        | handler: try_send              oss/main.rs
                                        v
                              bounded eval queue (flume)
                                        |
                                        v
        RuleEngine::evaluate <--- eval worker (one thread) ---> Dispatcher ---> sinks
                                        |
                                        +--> try_ack: request channel of the
                                             event loop the message came from
 main thread: starts everything, waits for SIGINT/SIGTERM, stops the adapter,
              drains the queue (60 s), forces the worker to stop (1 s), returns
```

### 1.1 Inventory

| Component | State | Operations | Interaction | Model |
|---|---|---|---|---|
| Message pipeline (core/mqtt.rs `run_event_loop`, `IncomingDelivery::ack`; oss/main.rs `build_handler`, `run`) | event loops, request channels, eval queue, worker, `force_shutdown`, shutdown watch | poll, handler, recv, evaluate, ack, dispatch, stop, drain, force | everything in the picture above | `Pipeline`, `AtLeastOnce` |
| Queue depth metric (oss/metrics.rs) | `eval_queue_depth` (AtomicU64), exported gauge | enqueued, dequeued | written by every event loop and by the worker | `DepthGauge` |
| Adapter start and stop (core/mqtt.rs `start_mqtt`, `subscribe_topics`, `stop`) | runtime thread, readiness channel, stop oneshot, clients | build runtime, subscribe, spawn, report, stop, join | main <-> runtime thread <-> event loops | `MqttStartup` |
| Rule table, topic trie, match cache (core/runtime.rs) | `rules`, `rule_index_by_id`, trie, cache | add_rule, remove_rule, evaluate | called by main at start, by the worker for each message | `RuleEngine`, `RuleTable` |
| Rule compilation and evaluation (core/rule.rs) | none: pure | compile, where, select | called by `RuleEngine::evaluate` | `RuleExpr`, `RuleEval` |
| Payload decoding, message IR (core/payload.rs, msg_ir.rs) | none: pure | decode fully or by a sparse plan | called by `evaluate` | `RuleEval` |
| Dispatcher and sinks (oss/sink.rs) | sinks by destination, queues of the Kafka producers | new, dispatch, send, flush on drop | run and dropped by the worker, which main waits for | `Sinks`, `EvalWorker` |
| Client identity (coordinator) | the client id file | load, resolve, persist | called once at start, by every process that shares the file | `Boot` |
| Evaluation metrics (core/metrics.rs) | atomic counters, maximum latency | record, snapshot | worker and rayon pool write, the endpoint reads | `EvalMetrics`, `EvalWorker` |
| Metrics endpoint (oss/metrics.rs) | the port, the exported registry | bind, scrape | reads the evaluation metrics; its port admits one process | `EvalMetrics` (scrape), `Boot` (port); HTTP and process metrics not modelled |
| Command line, configuration, paths, logging (oss/main.rs, config.rs, paths.rs, logger.rs) | config.json, rule.json | provision, parse, load | first steps of `run` | `Boot`: provisioning and the order of the steps; parsing, paths and logger not modelled |
| Test tool and benchmarks | - | - | - | not modelled: not part of the running system |

### 1.2 What is hard about it, and what makes it correct

* **Pipeline.** Tokio tasks, a thread for the worker and the main thread
  interleave freely; an event loop can fail at any time; two bounded channels
  drop what does not fit; two timeouts race with the work they wait for; a crash
  can come anywhere, after which the broker sends unacknowledged messages again.
  It is correct if a message is released only after it has been evaluated, if
  PUBACKs keep their order, if nothing accepted vanishes silently, if "drained"
  means drained and if shutdown ends by itself.
* **Depth metric.** Counter and queue are not updated together. It is correct if
  the races leave no permanent error.
* **Start and stop.** A timeout races with readiness, a bounded channel is
  filled before its consumer exists. It is correct if both calls return and
  leave nothing behind.
* **Rule table.** An incremental trie, a lazily filled cache with random
  eviction and an id map must describe the same rules. It is correct if a caller
  cannot tell it from a plain list of rules scanned with `match_topic`.

* **Evaluation.** Expressions are folded, compared in two ways and evaluated
  against a payload of which only the fields required by some matched rule were
  decoded. It is correct if a rule answers as its text says, whatever the other
  rules are, and if the counters tell what happened to each.
* **Start of the process.** Files are checked and written in place, by processes
  that may be started together, refused or killed at any point. It is correct if
  a restart has the client ids of its predecessor, if no client id is connected
  twice, and if what was provisioned can be loaded.
* **Evaluation metrics.** Threads of a pool update three atomics one after the
  other, the last in a compare-and-swap loop, while the endpoint reads them. They
  are correct if no latency is lost and if a scrape shows what was true during
  it.
* **Sinks.** A message is acknowledged before its results are dispatched; sinks
  are flushed when the worker's closure is dropped, with timeouts inside and
  outside. They are correct if acknowledged results reach every sink and if
  "sinks dropped" is true when it is logged.

`PROJECT.json` lists the individual hazards with the lines where they bite.

## 2. Modules

| Module | Role |
|---|---|
| `AtLeastOnce` | abstract: offered, evaluated, settled; a message is settled only after it was evaluated |
| `Pipeline` | the message path, shutdown, crash and restart; refines `AtLeastOnce` |
| `PipelineProofs`, `PipelineWindowProofs` | its theorems; the second has those about the receive windows |
| `DepthGauge`, `DepthGaugeProofs` | the depth metric and its theorems |
| `MqttStartup`, `MqttStartupProofs` | start and stop of the adapter and its theorems |
| `RuleTable` | abstract: a table of filters, matched by the definition of `match_topic` |
| `RuleEngine` | vector, id map, trie and cache; refines `RuleTable` |
| `RuleEngineProofs` | its theorems, those about the trie and the refinement included |
| `RuleExpr` | expressions: compilation into plans, evaluation of plans |
| `RuleEval` | loading a rule file and evaluating a message by all matched rules |
| `RuleEvalProofs` | the theorems about the two, with the correctness of the compiler |
| `Boot`, `BootProofs` | several processes from `main` to the event loops, with the files and the port they share, and its theorems |
| `EvalMetrics` | the counters of core/metrics.rs and the scrape that reads them |
| `Sinks` | the dispatcher, its sinks and the queues of the producers |
| `EvalWorker`, `EvalWorkerProofs` | composes the two with the worker that uses them and with the end of `run`; the theorems about all three |
| `MC*` | the instances for TLC |

Definitions that end in "...OffByOne", "...Early" and the like, commented *Faulty
variant*, are not part of a specification: each is a plausible bug, kept to show
that a property notices it (`PROJECT.json`, "mutants").

### 2.1 Pipeline

| Variable | Code |
|---|---|
| `published`, `inflight`, `resend`, `acked`, `wire` | the broker and the connection (external) |
| `loop[c]` | the task that runs `run_event_loop` for client `c`: polling or over |
| `req[c]` | the request channel of the rumqttc client, capacity 10 (mqtt.rs:175) |
| `queue` | the `flume::bounded` channel of `build_handler`, capacity `mqtt.queue_capacity` |
| `wpc`, `cur` | where the eval worker is in its loop body, and its delivery |
| `phase`, `outcome` | where main is in `run`, and what it logs at the end |
| `lost`, `accepted`, `dispatched`, `evaluated` | history, read by no guard |

| Action | Code |
|---|---|
| `BrokerSend`, `BrokerResend`, `FlushAck` | broker and rumqttc, external: the next message for a member of the shared group whose window is open; the repetition on a resumed session; writing a queued PUBACK |
| `Accept`, `Reject` | one iteration of `run_event_loop` with a PUBLISH: the handler's `try_send` succeeds, or fails because the queue is full or its receiver gone |
| `LoopError`, `LoopStop` | the two ways out of `run_event_loop`; dropping the `EventLoop` drops connection and request channel |
| `Take`, `NotForced`, `Evaluate`, `Ack`, `Dispatch` | the body of the worker's loop: recv, the check of `force_shutdown`, evaluate, `delivery.ack()`, dispatch |
| `WorkerForced`, `WorkerDone`, `WorkerPanic` | the ways out of that loop: the flag was set, every Sender is gone, a panic |
| `ShutdownSignal`, `IntakeStopped` | the signal and `adapter.stop()`, which returns after every event loop has been awaited and the runtime thread joined |
| `WorkerJoined`, `DrainTimeout`, `ForceTimeout` | the two bounded joins of the worker; setting `force_shutdown` |
| `Crash`, `Restart` | the process is killed, or ends; a new one connects with the same client ids |

The worker's loop body is five actions because each step has an effect that
other threads or a crash can see in between: an event loop may end between
evaluation and acknowledgement, and a crash between acknowledgement and dispatch
loses results of a message the broker has released.

Assumptions about what is outside the repository: the broker keeps to the
receive window, sends unacknowledged QoS 1 messages of a resumed session again
in their order and to the same client, and gives every new message to one member
of the group. rumqttc 0.24 is used with `set_manual_acks(true)`, so a PUBACK
leaves only through `try_ack`. Whether a PUBACK that was written reaches the
broker is folded into `FlushAck`: one lost with its connection is, for every
property here, one that was never written. The panic of the worker is a
nondeterministic choice allowed by `MayPanic`; `DepthGauge` shows how it comes
about. Parallel evaluation of the rules (rayon) yields the same results as
sequential evaluation and is not visible here.

### 2.2 DepthGauge

The handler adds 1 after its `try_send` (main.rs:370-371), the worker subtracts
1 after its `recv`, and each sets the gauge in a step of its own. Every atomic
operation is one action. `DepthMod` stands for 2^64; the wrap-around of
`fetch_add`, `fetch_sub` and of the `+ 1` or `- 1` on their results is modelled,
and `checked` distinguishes builds in which the latter panic. The assumption
`QueueCap + |Handlers| + 1 < DepthMod` says that the counter is wide enough;
`Handlers # {}` follows from `client_count.max(1)` (main.rs:84).

### 2.3 MqttStartup

`runtime` is the program counter of the runtime thread, `main` that of
`start_mqtt` and `stop` in the main thread. `bad` is the set of topic filters
`subscribe()` rejects, arbitrary from the start. `subscribe().await` waits for
room in the request channel, which only an event loop can make and which is
spawned afterwards. Readiness, the oneshot `stop_tx` and the join are as in the
code; `SpawnLoop` includes the log line "MQTT subscriptions established", which
comes before anything has been sent to the broker.

### 2.4 RuleEngine

`rules`, `idMap`, `entries` and `keys` are the fields of the Rust structs. A trie
node is represented by the path that leads to it, so the trie is a function from
a prefix-closed set of paths to sets of rule indexes; `Inserted` and `Removed`
describe what the recursive `insert` and `remove_from_node` leave, including that
`insert` stops at the first `#` while removal walks on. The hash that makes a rule
id is a function of the expression alone, so the expression stands for the id
(collisions are not modelled). Indexes count from 1. `RuleTable` uses none of
this: it matches a filter by the definition of `match_topic` in rule.rs.

### 2.5 RuleExpr and RuleEval

`RuleExpr` holds the pure part of rule.rs under its own names:
`compile_expr_plan`, `fold_binary_plan`, `evaluate_plan_value`,
`evaluate_plan_bool` and what they need of a plan. A value carries its JSON type,
an error whether `is_type_error` holds of it. `Apply` stands for both the
evaluation of an operator on JSON values and the folding of constants, which
succeed in the same cases.

The functions of rule.rs that call themselves on the parts of a tree are recursive
functions over a set of trees: `Expressions` (those of the rule file, with their
parts) for `compile_expr_plan`, `Plans` (what they compile to) for `Subplans` and
for `Values`, which gives the value of every plan for a message. The operators
`evaluate_plan_value`, `evaluate_plan_bool` and `evaluate_plan_compare_bool` do one
level each and take the values of what is below. `Height` and `MaxHeight` say that
the trees are finite. Paths into a payload are walked name by name (`Walk`); the
full decoding collects them by their length (`PathsIn`), up to `MaxDepth`, for a
JSON text nests no deeper than the parser follows it.

`RuleEval` reads a file of rules one by one (`AddRule`, `RefuseRule`: main gives
up at the first rule that is rejected), then evaluates one message (`Evaluate`):
rules are grouped by schema, the fields all rules of a group require are decoded
together, the topic is split if one of them asks, and each rule gets one attempt.
Which rules match is left to `RuleEngine`. `Readable`, `Sparse` and `Full` are the
decode plans. Against them stands `Meanings`, which reads an expression as it is
written and a payload as it was sent, with no plan, no folding and no grouping;
`AnswersAsWritten` compares the two.

Abstracted: parsing of SQL, JSON and protobuf (third-party), so payloads are
trees of the fields that are set; derived column names; texts, which are atomic,
so a key that itself contains a dot does not occur. Numbers are integers: the
tolerance of `=` (`f64::EPSILON`) is equality, fractions and values that are not
finite do not occur except through a division by zero. Schema, decode and build
errors are counted together. Rayon's parallel evaluation collects its attempts in
the order of the rules and is one step with the sequential one.

### 2.6 Boot

| Variable | Code |
|---|---|
| `file` | rule.json and config.json in `~/.tenon`: absent, opened or cut short ("partial"), complete |
| `idFile` | the lines of the client id file, as `parse_client_ids` reads them |
| `port` | who is bound to 9100 |
| `pc[p]`, `cfg[p]`, `ids[p]`, `birth[p]` | where process `p` is in `run`, its configuration, its `client_ids`, and what its process id and start time amount to |
| `identity`, `mishaps` | history, read by no guard |

`CheckConfig`, `CheckRule`, `OpenFile` and `WriteFile` are
`provision_default_config_if_missing`; `LoadConfig`, `LoadRules`, `Resolve`,
`OpenIds`, `WriteIds`, `Bind` and `Connect` the steps of `run` in their order.
`Leave` is every early return, and the process being stopped or killed between
two writes; `CutShort` a write that fails or is killed half-way.

`fs::write` opens and truncates the file, then writes: two steps, so that another
process can come in between. It may stop after any number of bytes. What is then
left of a list of ids is a prefix of it and possibly part of one more id: since
an id ends in its index (of up to five digits in the model), the part is the id of a smaller index (`10` becomes `1`)
or no id of this node at all (`Stump`). Two overlapping writes overlay each other
from the start of the file; the ids of one instance are taken to be equally long,
so lines cover lines. All configurations name one client id file; processes that
share none do not interact. The broker is not part of the model: what a client id
means to it is in the comments of the properties and in `Pipeline`, where a
restart connects with the ids of its predecessor, which is what `IdentityKept`
says.

### 2.7 EvalMetrics, Sinks and EvalWorker

`EvalMetrics` has one action per atomic operation. `rec[r]` is the place in
`LatencyMetrics::record` of the thread that evaluates rule `r`, with the local
variables; `counter` holds the atomics, `seen` and `field` are the half-finished
`snapshot()`, `published` is the registry of the exporter, which for a counter
keeps the larger value (`absolute`). The atomics are `Relaxed`; the properties
relate each of them to itself only, for which the order of operations on
different ones does not matter. The five stages have separate counters that are
used alike, so one stands for all; a rule whose stage did not run takes `NoStage`,
as does every rule when detailed latencies are off. The same holds for the three
kinds of payload errors.

In `Sinks` a *record* is the result of one message and one rule on its way to one
destination, and `fate` says what has become of it. `Deliver` is librdkafka, which
is external: `send` puts a record into a queue with a capacity or fails; `flush`
waits until the queue is empty or five seconds have passed, and what is left then
is purged with the producer.

`EvalWorker` extends both and adds the worker's loop, `JoinWaiter` and the exits
of `run`. It looks at the worker from the other side than `Pipeline`: event loops,
windows and request channels are left out (`Arrive`), while evaluation, dispatch
and the drop of the closure, each one step there, are taken apart. `Take` covers
`recv`, the check of `force_shutdown` and `evaluate` up to the rules; `Tally` and
`TallyError` the counting of the attempts in rule order; `DispatchNext` one
destination of one result. A panic in a rule unwinds the closure and drops the
sinks; the panic of the depth counter before the evaluation (see `DepthGauge`)
has the same effect and is not distinguished. The format is JSON; protobuf has one
group of rules after the other for each message and adds nothing to what is
checked here.

## 3. Runs

| Run | Instance | What it checks and shows |
|---|---|---|
| `pipeline_safety` | 2 clients, 4 messages of which one QoS 0, queue 2, request channel 2, window 3, panic allowed, one restart; 1.2 million states | `AckAfterEval`, `AckOrder`, `WindowAccounting`, `QueueIsFifo`, `DrainedMeansAll`, `StoppedIntakeIsQuiet`, and the refinement of `AtLeastOnce` |
| `pipeline_liveness` | 2 clients, 4 messages, window 1, queue 2 = all windows together; fair | nothing is lost by a queue sized that way; shutdown ends without a timeout; what is queued is evaluated; a full window opens again |
| `depth` | 3 event loops, queue 2, counter modulo 8, with and without overflow checks | the exact value of the counter in every interleaving; no handler panics before the worker |
| `depth_wraps` | same | **violation**: the exported gauge is not a depth |
| `rules` | 5 expressions (literal, `+`, `#`, a prefix, a level after `#`), 4 topics, cache of 2, 3 additions | the cache is never stale and its halves agree; removal unlinks neither too much nor too little; the id map leads to live rules; refinement of `RuleTable` |
| `rules_duplicate` | same | **violation**: an expression added twice cannot be removed |
| `startup` | 2 clients, 2 filters, request channel 2; fair; deadlock checked | start and stop return, leave nothing behind, and announced subscriptions reach the broker |
| `rule_eval` | files of up to 2 rules out of 40 definitions, JSON and protobuf, 32 messages; 26 thousand states | answers are those of the rules as written; the counters account for every rule; sparse and full decoding agree |
| `rule_eval_metadata` | same | **violation**: a rule that selects `clientId` never answers |
| `boot` | 2 processes, 3 starts; the default configuration, one with a node id and 11 clients, one that asks for none; 2.1 million states up to symmetry | a restart keeps the ids of its predecessor; two processes never connect with one id; rule.json is there before config.json - each unless one of the named mishaps happened |
| `worker` | 2 rules in parallel, 2 messages, latencies 1 and 2, 2 scrapes, a noop and 2 Kafka sinks and an unused one, producer queue 2; 2.2 million states | the maximum is never lost; a scrape is true and never goes back; "sinks dropped" means flushed or given up; acknowledged results reach every sink, except one message's on a forced exit or crash |
| `startup_hangs` | 1 client, 3 filters, request channel 2; fair | **violation**: after the readiness timeout `start_mqtt` does not return |

**Why the bounds are enough.** Two clients are needed for the queue to interleave
connections. Four messages fill the queue (2) with one in the worker's hands and
one on the wire; the window of 3 exceeds the queue, so deliveries are rejected,
and the request channel of 2 can fill, so PUBACKs are lost. Two runs of the
process give one resumed session. For the metric, three handlers can all be
behind the worker, which takes the balance down to minus three, and the modulus
of eight is the least power of two that satisfies the assumption. For the rules,
three additions allow add, remove and re-add with a
sibling in the trie, and four topics against a cache of two force
evictions. Two rules are enough for one to change
what is decoded or split for the other; the definitions have every kind of
expression, each way to fail, and columns with the same name, and the payloads
are right, incomplete, of another type, no object and no payload; `MaxHeight` and
`MaxDepth` (3 and 3) are at least the height of the highest expression and the
depth of the deepest payload and cut nothing off. For `boot`, two
processes can meet at every step, the third start comes after a crash of one and
sees the other still running; eleven clients are the least with an index of two
digits. For `worker`, a maximum is lost or kept between two threads with two
latencies, and a second message shows what a first one leaves behind; a queue of
two overflows when both messages send to the shared sink, and two sinks with
queues make one flush wait for the other. `Scope` keeps that run small: latencies
and scrapes neither read nor write what the sinks and the shutdown do, so a
behaviour that has one of them is followed until its first message is evaluated,
and one that has none to the end. For the start of the adapter, two clients allow one to be connected while the other
is set up. TLC checks deadlock in `rules`, `rules_duplicate` and `startup`; in
the other models the system may come to rest (a rule file was refused or the one
message evaluated; the process has exited for the
last time or has been started as often as the bound allows; the worker has
panicked; a start hangs, which is the finding), and
their configurations switch the check off.

**Fairness.** Weak fairness of the worker thread, of each event loop's polling,
writing and seeing the shutdown flag, of main's joins and of the runtime thread.
The operating system and tokio run threads and tasks that are ready; `select!`
polls its branches in random order, so a flag that is raised is seen although
messages keep coming. `LoopStop` and `RuntimeEnds` stay enabled until they are
taken, so weak fairness is enough. Nothing is assumed of the broker, of signals,
errors, crashes, restarts and of the drain timeouts; the readiness timeout in
`MqttStartup` does return, as `recv_timeout` does.

## 4. Findings

* **`startup_hangs`** (core/mqtt.rs:176). SUBSCRIBE requests are awaited before
  the event loop that drains their channel of ten is spawned. With more than ten
  topic filters, one for each rule, the runtime thread waits for ever; main times
  out, sends stop and joins that thread.
* **`depth_wraps`** (oss/metrics.rs:30). The worker may count a delivery out
  before the handler has counted it in: the gauge then shows 2^64 - 1, or, with
  overflow checks, the worker panics. `DepthHeals` shows that the counter itself
  recovers.
* **`rules_duplicate`** (core/runtime.rs:112). The second addition of an
  expression redirects its id; the first rule stays live and out of reach.

* **`rule_eval_metadata`** (core/mqtt.rs:267). The README lists `clientId` and
  `username` among the metadata fields; `run_event_loop` never sets them, so a
  rule that names one fails on every message.

Met on the way, without a run: a rule with an operator that is not supported,
such as `%`, is accepted and fails on every message, while an unsupported
function makes `compile_rule` log "dropping incompatible rule" and main refuse
the whole file; one JSON rule that names a field costs all other matched rules
the messages that are no JSON objects; `*` anywhere in a list of columns discards
the others; of two columns with one name, such as `a.x` and `b.x`, the last wins;
`topic_level` takes level 0 for level 1; a protobuf scalar without explicit
presence is not there when it is 0, since sparse decoding asks `has_field`; a
path into a protobuf map is found by full decoding only; the gauge can stay at an old value for as long as
the queue is idle, because two threads may publish in the opposite order of their
updates; "MQTT subscriptions established" is logged before a SUBSCRIBE is sent;
results acknowledged but not dispatched are lost in a crash.

About the start: after a crash in the middle of rewriting the client ids the list
is shorter for good, since the file wins over `client_count`, and the sessions of
the missing ids are orphaned; with more than ten ids the last one may turn into
that of index 1, and one process then connects twice with it. If the file is
empty or cannot be read, new ids overwrite it; without `mqtt.node_id` those are
different at each start. A second start rewrites the ids of the running process
before the port refuses it. Once ids are persisted, `node_id` and `client_count`
have no effect on them. A default configuration or rule file that was cut short is
taken for present and never repaired. `--help` and `--version` provision files
too. The port is 9100 whatever the configuration.

About metrics and sinks: a scrape may show more errors than evaluations of them,
or a maximum above the total, because a snapshot is not atomic. Kafka sinks are
flushed one after the other, five seconds each, and `force_shutdown` does not
shorten a flush, so more than twelve unreachable ones outlast the sixty and one
seconds of main, which then returns and purges the rest.

About the documentation: the protobuf example of README.md gives a rule the key
`schema_name`, `RuleDefinition` (core/rule.rs:18-23) reads `schema`; such a rule is
refused for want of a schema.

## 5. Proofs

TLAPS proves the following for every value of the constants that satisfies the
named assumption of the module in question, with no other hypothesis. The
assumptions say what the code guarantees of its configuration and no more:

| Assumption | What it says beyond the types |
|---|---|
| `PipelineAssumption` | finitely many clients (`client_ids` is a `Vec`), capacities and window at least 1 |
| `DepthGaugeAssumption` | finitely many handlers and at least one, a counter wide enough for them and the queue |
| `MqttStartupAssumption` | at least one client and room for one request |
| `RuleEngineAssumption` | filters and topics are sequences of levels; any cache capacity, zero included |
| `RuleExprAssumption` | an expression is a tree of bounded height whose parts are expressions; a name has at least one part |
| `RuleEvalAssumption` | a definition is made of expressions; a JSON payload cannot be parsed, or is a tree of texts, numbers, flags, nulls, arrays and objects that is no deeper than `MaxDepth` |
| `BootAssumption` | the provisioned configuration is none of the others |
| `EvalMetricsAssumption`, `SinksAssumption`, `EvalWorkerAssumption` | a rule has a list of destinations; any rules, durations, sinks and capacities |

All safety invariants and action properties that the passing runs check are
theorems, and so is the refinement of `RuleTable` and of `AtLeastOnce`. The
inductive invariants named below hold on the instances of section 3 as well; only
the ledgers of `EvalWorkerProofs` cannot be enumerated by TLC.

**Pipeline.** `TypeCorrect` is inductive by itself.
`AtLeastOnceEvaluation` (`AckAfterEval`) needs `EvalInv`: every message queued
as a PUBACK, and the one the worker is about to acknowledge or dispatch, has been
evaluated. `FlushAck` releases only what is in `req`, which is why the property
alone is not inductive. `DeliveriesAreFifo` and `DrainIsComplete` come from
`FifoInv`: what was accepted is what was dispatched, then what the worker holds,
then the queue; what was dispatched has been evaluated; an outcome "drained"
entails that worker and queue are empty. `AcksInOrder` needs the longest
invariant, `OrderInv`: for each client, the PUBACKs waiting, the delivery with the
worker, its deliveries in the queue, its messages on the wire and those to be
repeated are increasing sequences and each lies below the next, all of them up to
`published`. A PUBACK can overtake none of the places before it. `DrainIsQuiet`
follows from `IntakeInv` (after `adapter.stop()` every loop is over), and
`ImplementsGuarantee` from `EvalInv`, `OrderInv` (only what was published can be
evaluated) and a step-by-step match with `AtLeastOnce`.

`WindowsAddUp` (`WindowAccounting`) is inductive only together with the order of
the places: that a message leaves one place for the next and is in no two at once
follows from `OrderInv`, by the lemma `PlacesApart`. `WindowInv` says it in terms
of those places. `NothingIsLost` (`SizedQueueLosesNothing`) adds `HeldInv`: a
queued QoS 1 message is unacknowledged, even when the loop that queued it is
over, and no window is larger than `ReceiveMax`. The rest is counting. The
deliveries in the queue are pairwise different, and so is the next one on the
wire; all of them are in the union of the windows, which has at most
`|Clients| * ReceiveMax` elements (`PartsBound`); hence when one is on the wire
the queue has room (`RoomInQueue`), and likewise the request channel when a
PUBACK is due (`RoomForAck`). The QoS 0 messages are excluded by the property, as
they occupy no slot.

**DepthGauge.** `BalanceInv` states the counter as the balance of three terms,
modulo `DepthMod`, together with the bounds that make the balance unambiguous
and the condition under which a panicked handler exists. `DepthIsBalance`,
`DepthHeals` and `WorkerIsFirstToPanic` follow.

**MqttStartup.** The types alone are not inductive: that a request channel never
overflows and that nobody writes more SUBSCRIBEs than there are rules depends on
where the runtime thread is. `StartupInv` adds that clients behind `index` have
no loop, that the channel of the one at `index` holds what has been queued for
it, and what each state of the runtime thread has behind it. `NothingIsLeftBehind`
follows, for it asks what holds when main has returned.

**RuleEngine.** `CacheInv` (keys and entries are the same topics, keys are
distinct and within the capacity) gives `CacheHalvesAgree`; the lemma
`SwapRemoveKeys` shows that `swap_remove` forgets exactly the evicted key.
`NoStaleMatch` (`CacheCoherent`) holds because both changes of the trie clear the
cache. `IdsAreLive` shows that an id always leads to a live rule, although an
expression may be added and removed any number of times.

The trie needs two facts at once. `TrieInv` says that its nodes are closed under
prefixes and have no `#` but at the end (`ShapeInv`), that no branch is dead
(`TriePruned`), that the live rules are at the ends of their own paths and nowhere
else (`TrieKeepsLive`), and that `remove_rule` walks the filter that was added
(`FilterInv`). Insertion and removal are described by lemmas that say what they
add, keep and take away (`InsertedNodes`, `RemovedNodes`, `RemovedKeeps`);
`RemovedShape` shows that a node is unlinked with everything below it, and that one
that has lost its last rule is unlinked with it. That a filter has exactly one path, the part up to its
first `#`, needs the least index of a `#`, by the well-foundedness of the natural
numbers.

`ImplementsTable` is the refinement of `RuleTable`. `WalkMatches` shows that the
walk of the trie arrives at the end of a filter's path exactly if `match_topic`
accepts the topic, and `WalkFindsMatching`, with `TrieInv`, that it collects the
live rules of those filters and no others. With `CacheCoherent` a hit answers the
same, and each action maps to one of the table or to a stutter.

**Boot.** `FilesInv` gives `RulesComeFirst`: whoever gets to config.json has seen
rule.json, and one that exists is complete, is being written, or was cut short.
`RestartsKeepTheIds` (`IdentityKept`) needs to know who may write: unless two
starts met at the file, one process at a time is between opening and writing it
(`WritersInv`); before the first list is written no process is past
`resolve_client_ids` (`FirstInv`); afterwards all that are hold that list
(`KeptInv`). `NobodyIsTakenOver` (`NoTakeover`) is two arguments. Different
processes do not connect at once because the one that does listens on the port
(`PortInv`). Within one, ids carry their positions (`NumberedInv`), unless two
writes overlaid each other or the last id was cut: what is left of it is no
number, or the number of an earlier id, for which it must have had two digits.

**EvalWorker.** `LatenciesAreExact` (`LatencyExact`) speaks of a sum over all
threads that have not yet added to a counter. A sum is a fold, about which nothing
can be proved by induction here; instead a `Ledger` lists those threads, each once,
with the balance before and after its latency is added, from the value of the
counter to that of the history variable `truth`. Three lemmas add an entry, remove
one and close an empty ledger. `MaxInv` is about the
compare-and-swap loop: the largest latency is in the counter, or in the hands of a
thread that has still to compare it, and whoever is about to swap holds a larger
one than it has read. `ScrapesAreTrue` (an action property) follows from
`ScrapeInv`: what was loaded lies between what it was when the snapshot was begun
and what it is now. `SinksAreFlushed` and `AckedMessagesReachTheirSinks` follow
from `WorkerInv`: sinks live from `Dispatcher::new` to the drop of the dispatcher,
only a sink that is alive has queued records, and the worker does not go on
before the results of an acknowledged message have been offered.

**RuleEval.** Everything here rests on induction over expressions. An induction
theorem with a predicate as its parameter cannot be used, but one about sets can: a
set that has every expression whose parts it has is `Expressions`
(`PartsInduction`), for otherwise one of the least height would be missing
(`LeastElement`, from the well-foundedness of the natural numbers); the same for
plans (`PlansInduction`). First it is shown that each recursive function is what
its definition says (`CompileDefined`, `ValuesDefined`, `SubplansDefined`,
`MeaningsDefined`, `NamesDefined`): a function that is right on all trees below a
height can be extended by one level, and heights are bounded.

`CompiledMeansTheSame` is the correctness of the compiler. `Same` relates results
that are equal or both errors, since folding and the fast comparison may report
another error than the expression as written, and `Fits` says what a context
must have for a plan: the fields in it, the topic if it looks at it, the message.
Then the value of the plan of an expression is the same as the meaning of the
expression, and so is the flag it gives as a predicate. The induction needs both
at once, because the sides of `and` and `or` are evaluated as predicates and those
of everything else as values; `BinaryCorrect` is the step for an operation that
was not folded, with the two ways to compare.

The inductive invariant `RuleInv` says that the rules are those of the file,
compiled one by one (`RulesAreCompiled`), and what an answered message has left
(`Outcome`). `AnswersAreAsWritten` then takes three facts: what is decoded and
split for a group fits each of its rules (`ContextFits`); the payload can be read
exactly if it is of use (`ReachIsUse`), for which `FieldsAreKept` shows that
compiling, folding included, drops no field and adds none; and columns that are
the same make the same output (`SameProjection`). `CountersAddUp` counts the same
sets, and `GroupsAreSchemas` shows that there are as many groups as schemas.
`TypeCorrect` adds that folding leaves nothing that could still be folded
(`PlansNormal`).

`DecodingsAgree` (`FullDecodeAgrees`) is an induction over paths. `JsonLookups`
shows that the paths of a JSON document are exactly those at which `Lookup` finds
something, and that `Walk` through objects and maps alike finds the same there; it
needs that JSON has no maps. `OnlyFieldsMatter` shows that a plan looks at nothing
else of a payload than its fields, so that the answers are equal, errors included.

**Only model-checked.** All liveness properties and everything about fairness
(`ShutdownTerminates`, `QueuedIsEvaluated`, `WindowReopens`, `StartReturns`,
`StopReturns`, `AnnouncedIsSubscribed`), which are out of the prover's reach. The
four violations are counterexamples, not claims.

## 6. Plan

Order of work, most important behaviour first:

1. `Pipeline` with `AtLeastOnce`, safety, liveness and proofs - done.
2. `DepthGauge`, `RuleEngine` with `RuleTable`, `MqttStartup` - done; proofs for
   the first two.
3. `RuleExpr` and `RuleEval` - done: where and select, errors, folding, sparse
   against full decoding, what one rule's fields do to the others.
4. `Boot` - done: provisioning, client ids and the port, with crashes and
   processes that meet.
5. `EvalMetrics`, `Sinks` and `EvalWorker` - done: the compare-and-swap maximum,
   the scrape, dispatch, and the flush against the timeouts of main.
6. Proofs - done: the trie invariants and the refinement of `RuleTable`;
   `WindowAccounting` and `SizedQueueLosesNothing`; `MqttStartup`; the invariants of
   the modules of 4 and 5; `RuleEval`, with the correctness of the compiler.
7. Next: stronger statements about the interfaces of the modules, such as a
   specification of the adapter that `MqttStartup` implements; fractions and the
   tolerance of `=` in `RuleExpr`.

Not planned: the SQL, JSON and protobuf parsers and the Kafka client, which are
third-party; parsing of arguments and configuration, paths, the logger and HTTP,
which are sequential I/O; the test tool and the benchmarks.

## 7. Running

`tlc -config pipeline_safety.cfg MCPipeline.tla` and likewise for each line of
section 3; `tlapm PipelineProofs.tla` and likewise for each module named
`*Proofs` for the proofs.
