# A formal model of kafka-mcp-grpc

TLA+ modules, TLC configurations and TLAPS proofs for the Kafka MCP server of this
repository. The modules are translated from the source. Paths below are relative to the
repository; `mcp_grpc_server.cpp` means `src/server/mcp_grpc_server.cpp`, the copy that
`CMakeLists.txt` builds (the file of the same name under `src/mcp` is stale and not built).

## 1. Inventory

The program offers seven Kafka tools to an AI client over one of two transports, chosen by
the first argument of `main()`.

| Component | State | Operations | Used by |
|---|---|---|---|
| `main()` (`src/main.cpp`) | `g_shutdown`, set by the signal handler | pick a mode, load the configuration, run a transport, shut the logger down | |
| `MCPGrpcServer` | `running_`, the gRPC server, the handler | `start`, `stop`, destruction | `main()` |
| `MCPHandler` | one consumer, producer and admin client for the life of the process, a registry of tools | `ListTools`, `CallTool`, `CallToolStreaming`, `HealthCheck`, seven tools | gRPC worker threads, concurrently |
| `StdioTransport` | `running_`, the line in hand | `run`, `handle_message` and its handlers, `write_response` | `main()` |
| `MCPDispatcher` | a consumer, producer and admin client for the length of one `tools/call` | `dispatch` and seven tools, `ok`, `err`, `trim_to_token_limit` | `StdioTransport` |
| `KafkaProducer` | `connected_`, `producer_`; in librdkafka a bounded queue | `connect`, `produce`, `flush`, `disconnect` | handler, dispatcher |
| `KafkaConsumer` | `connected_`, `consumer_`; in librdkafka a fetch state per partition | `connect`, `consume`, `disconnect`; `consume_group` and `getMinMaxOffset`, which nothing calls | handler, dispatcher |
| `KafkaAdmin` | `connected_`, `admin_client_` | `connect`, metadata queries, `disconnect`; two stubs that return nothing | handler, dispatcher |
| `ConfigLoader`, `ResponseBuilder`, `ToolDefinitions`, `Logger` | the default logger; otherwise none | pure functions, output | all |

How they interact. In gRPC mode any number of worker threads are inside one `MCPHandler`
and through it inside the same three Kafka clients, which connect lazily and have no lock.
In stdio mode one thread reads a line, handles it, writes the answer; each `tools/call`
builds three clients, connects them, uses one, and destroys all three before the answer is
written. librdkafka runs its own threads below the producer and the consumer; what they
find out comes back when the program polls, flushes or consumes.

What is hard here, and what makes each component correct:

- **Lazy connection.** `if (!connected_ && !connect())` is a test and an act that threads
  interleave. Nobody may use a null or destroyed client, none may be lost, and a connected
  one may not be replaced.
- **Producer.** Success is only "queued"; the outcome is a delivery report, served when the
  program polls, which it does after a successful call only; a bounded queue; a destructor
  whose flush may time out. An error answer must mean that a repeated call is safe; losses
  must be confined; what was settled is never revised; calls must return.
- **Consumer.** The fetch state belongs to the partition, not to the call. Messages must
  come from the asked offset on, in order, none twice; the fetch must end with the call.
- **Stdio.** Exceptions leave the parser, the handlers and the writer by different ways. A
  call is owed exactly one answer, with its id, before the next line is read; the process
  must end at the end of input and not before.
- **Tools.** Two front ends convert the same arguments in different ways, and an error is
  told by a status, a flag and a message that must agree. What Kafka tells passes through
  filters, caps and encodings; a failure below may turn into an empty success.
- **gRPC process.** Shutdown meets calls in progress and a signal handler that logs. Calls
  must not outlive what they use, none may be cut off, and a signal must end the process.

`PROJECT.json` lists each hazard at its line, with the properties that cover it.

## 2. Modules

| Module | Models | State and actions |
|---|---|---|
| `Publication` | the promise of `produce_message`: accepted once, confirmed only when published, never revised | abstract: `promise`, `published` |
| `KafkaProducer` | `kafka_producer.cpp` with librdkafka's queue, sender and broker | `connected`, `producer` are the members; `fate` is what has become of a message; `resp` the answer its client got. `BeginProduce`, `Enqueue`, `Poll` are the pieces of `produce()` between which threads interleave, `EnqueueRefused` its error return; `ConfRefused`, `ResetProducer`, `Connected`, `NotConnected` are `connect()` when `produce()` finds `connected_` unset, and `Crash` the use of a `producer_` that another call has made null; `Disconnect`, `FlushServe`, `FlushDrained`, `FlushTimesOut` are the destructor |
| `ClientHandle` | `connect()`, `disconnect()` and the head of every operation, the same in all three clients | `connected`, `ptr` are the members; `alive` the librdkafka clients that exist. `unique_ptr::reset` is its three steps `LoadOld`, `StoreNew`, `DeleteOld` |
| `KafkaConsumer` | `consume()` with the fetch state per partition and the log of the broker | `fetching`, `position` are librdkafka's state of a partition; `Start`, `Take`, `ErrorEvent`, `LeaveLoop`, `Stop` follow the loop; `Written`, `Deleted` change the log |
| `JsonRpcSession` | what a stdio client may rely on | abstract: `owed`, `answers`, `over` |
| `StdioTransport` | `stdio_transport.cpp` with the dispatcher of a call | `pc` follows `run()`; a line is its kind and its id; `Rescue` is the catch clause; `died` is an exception that left `main()` |
| `StdioProduce` | the composition: the transport with the producer of each `tools/call` | all variables of both, and `write`, the message of the call. The choices one module leaves open are made by the other: `ConnectAgain` is the producer's `connect()` when the one in the constructor failed, `ProduceSucceeds` is `Poll` and the result of `Dispatch`, `CloseCall` the end of the destructor and of the dispatcher's scope |
| `ToolCall` | the seven tools as data: `MCPHandler`, `MCPDispatcher`, `ResponseBuilder`, `ToolDefinitions`, the operations of `KafkaAdmin`, the limits read by `ConfigLoader` | one call at a time: `Request`, then one action per tool or refusal; `asked` is the numbers `consume()` was called with, of no call or of one; `got` what Kafka gave, or that it did not answer, or that librdkafka refused; `answer` what the client sees: which items, which count, of what size, cut or not |
| `GrpcServer` | `main.cpp` in gRPC mode, `mcp_grpc_server.cpp`, the signal handler | `main` follows `main()`; `busy` are the workers inside a method |
| `MC*` | | the modules TLC runs |
| `*_proofs` | | the theorems about a module and their proofs (section 4) |

`KafkaProducer` lets the threads interleave between the tests and the steps of `connect()`,
and says what becomes of messages when first calls overlap: a `reset()` drops what another
call has queued, or leaves it a null pointer. It takes a `reset()` and a call into librdkafka as
one step each; `ClientHandle` takes them apart, has no messages, and says when a client is
destroyed inside a call (`cold_connect`). That the object dies only when no call runs is an
assumption of `KafkaProducer` and a property of `GrpcServer` (`CallsOutlived`). `ToolCall`
gives a text its size, 2 for its head with the count and for each item, so that a cap leaves
some of the items whole, and says which. Which topic names contain which is the relation
`Within`. It writes the loops that skip items of a list as `Picked(list,
at)`, the items at some positions in the order `InOrder(at)`. Operators named `X_Y` with the
comment "Mutant" are changed forms of the definition below them; no specification uses them.
Each is what a plausible bug would make of the code, and makes the property that
`PROJECT.json` names fail.

## 3. Runs

| Run | Bounds | Shows |
|---|---|---|
| `producer` | 2 threads, 3 messages, queue of 2 | the properties below, and `ContractSpec`: the class implements `Publication` |
| `handle` | 2 threads, 3 clients created | no null or dead client used, none lost, a connected one stays, when the first connection is made alone |
| `consumer` | 2 threads, 1 partition, 2 messages a call, offsets to 2 | messages from the asked offset on, in log order, the fetch ends with the call |
| `stdio` | 2 ids, 2 lines of every kind, 2 messages, queue of 1 | the composition: each line settled, each call answered once and in order (`SessionSpec`: it implements `JsonRpcSession`), after its message is settled; answers that are true of the message; the end at the end of input |
| `server` | 3 workers, 2 signals | handler and logger outlive every call, no call cut off, a signal ends `main()` |
| `tools` | 2 topics, up to 2 items from Kafka, `Half32` = 8 and `Half64` = 128: integers of 4 and 8 bits | status and flag agree, limits hold, what becomes of arguments in both front ends, fitting or not, and what an answer shows of what Kafka told, filtered, cut or withheld |
| `queue_wedge` | queue of 1 | violated: a full queue of finished messages drains |
| `cold_connect` | 2 threads | violated: auto-connect does not crash |
| `stdio_dies` | 2 lines | violated: the process runs until stdin is closed |
| `shared_partition` | 2 threads on one partition | violated: messages come from the asked offset |
| `signal_in_log` | 2 signals | violated: a signal leads to a graceful exit |
| `all_partitions` | as `tools` | violated: partition -1 means all partitions |

The last six check what a comment, a test or a description of the repository says, and
find what the code does instead; `findings` in `PROJECT.json` quotes both.

More disagreements between code and words came up that need no run of their own; where a
property touches one, it states what the code does:

- Success of `produce_message` is reported when the message is queued, with offset -1
  (`kafka_producer.cpp:106,141`), although `tool_definitions.cpp:51-52` promises its partition and
  offset; `AnswersTellFate` states what an answer does tell.
- A message accepted by one of several overlapping first calls may be dropped without a flush
  (`kafka_producer.cpp:69`); `LossOnlyByTimeoutOrReset` names this as the second of two places.
- Messages without an id are answered unless their method is `notifications/initialized`, although
  `stdio_transport.cpp:63` says they need no response; `JsonRpcSession` leaves both open.
- `max_response_size_bytes` is called a cap on the response (`config_loader.hpp:41`, the
  repository's `README.md:145`): only the stdio front end applies it, and what it cuts is longer
  than the cap by the mark that says so; `WithinLimits` states both.
- `list_topics` filters by `find()` (`mcp_dispatcher.cpp:139-141`), where the schema says prefix
  (`stdio_transport.cpp:280`), and counts the topics before the filter; `ShowsTopics`.
- When Kafka does not answer, `describe_topic` reports a success with zeros
  (`kafka_admin.cpp:165-171`), and for an empty name numbers that were never set; `ShowsTopic`.
  The other metadata tools report a success with an empty list.
- The proto declares `error_message` for errors (`mcp_service.proto:30`), and the test
  `tests/test_response_builder.cpp:26` expects the message there, but `build_error_response()`
  sets `is_error` alone (`response_builder.cpp:95-108`). `StatusAgrees` states that the field is
  set when a message could not be produced and otherwise never.
- gRPC advertises `list_topics` (`tool_definitions.cpp:64`) and registers `listTopics`; the
  `kafka_*` names of the repository's `README.md:34-40` are registered in neither front end.

Why the bounds suffice. The races are between two threads, and a third would only repeat
one of them; three workers let the server drain while calls end in any order. Three messages
through a queue of two fill it, overflow it and leave one to be repeated. Three handles let
a failed and a repeated connection follow a destroyed object. Offsets 0 to 2 let a read begin
below, in and above a log that grows and is cut while it is read. Only the answers survive a
line in the transport, and only the fate of its message a call, so two lines show what any
kind of line does to the next. In `tools` widths of 4 and 8 bits give numbers that fit, that wrap
to zero, and that fit not even an `int64_t`; two items are the least with an order, a
duplicate and a cut between them; the limits of the configuration take each of these numbers,
and caps of 0, 3 and 7 leave nothing of a text, one item of two, and all of them. The name of one
topic is part of the name of the other (`MCWithin`), so a filter may let through both, one or none.
`Mark`, the size of the truncation mark, only has to differ from 0.
`MaxHandles`, `MaxOffset`, `MaxLines`, `MaxSignals` and `MaxItems` bound counters for TLC; the
code has no such bound. `MaxMessages` and `QueueMax` are limits of the program.

Deadlock is checked in the producer, handle, consumer and tools runs. The two processes end, so
their runs turn it off; `EveryLineSettled`, `ExitsAtEof` and `SignalEndsMain` say instead
that they end only where they should.

Fairness. Weak fairness of one thread's own steps, in each module, because every call into
librdkafka has a timeout (`consume` its `timeout_ms`, `flush` 5 s, `metadata` 5 s; `produce`
and `poll(0)` do not wait). The exception is a `timeout_ms` of -1, which a client may send and
which makes `consume()` wait without end: such a call is `endless`, gets no fairness, and the
liveness properties name what it holds up (`Starved` in `KafkaConsumer`, `Waiting` in
`StdioTransport`, `HeldBack` in `GrpcServer`). No fairness for clients, brokers, the network,
error events or signals. `BusySpec` of `KafkaProducer`, under which `FullQueueDrains` fails,
adds that clients keep calling: even then the queue stays full. `SignalEndsMain` needs no
fairness of new calls, which `Shutdown` refuses.

## 4. Proofs

Every safety property that a passing run checks, and every refinement, is also a theorem, for
every value of the constants that the `ASSUME` of the module admits: any finite set of
messages, any sets of threads, partitions, ids and topics, any bound. The assumptions say
what kind of value a constant is and that the special values are apart; some theorems
have a further one, `~ColdOverlap`, `~Shared` or a single caller, discussed below.

**`KafkaProducer_proofs`**: `TypeCorrect`; `ConsistencyHolds` (`Consistent`); `ErrorIsFinal`
(`ErrorMeansNotPublished`); `SilentLoss` (`LossOnlyByTimeoutOrReset`), with no condition on how
calls overlap, and `SilentLossAlone`: with one caller, as in stdio mode, the destructor's flush is
the only place; `ImplementsPublication`, the refinement of `Publication`. The inductive invariant
is `IInv == TypeOK /\ Consistent`. `TypeOK` alone is not enough for any of the others. That no
refused message is published needs `RecordsAgree`: an error answer goes with the fate "rejected",
and a message with an open fate is neither on the wire nor in the topic. That holds across
`EnqueueRefused` only because a call in "enqueue" holds a message whose fate is still open, and
that no other call holds (`CallsApart`). That nothing is held without a producer needs
`HandleLifetime`, which ties `connected`, `producer`, `phase` and the positions of the calls: a
producer that is not marked as connected belongs to a call between `reset()` and
`connected_ = true`, and held messages to a producer that is there and connected, which is what makes every loss
by a `reset()` one of overlapping first calls. `QueueBound` rests on the finiteness of `Messages`
and three lemmas on the cardinality of `Held`. For the refinement, `RefineStep` and `RefineKafka`
map each action: `Enqueue` to `Accept`, the error returns to `Refuse`, the broker's append to
`Publish`, serving reports and destruction to `Settle`, the rest to stutters.

**`ClientHandle_proofs`**: `TypeCorrect`, however operations overlap; and under `~ColdOverlap`
`HandleIsLive` (`LiveHandleInUse`), `NothingLeaks` (`NoHandleLeaked`) and `HandleStays`
(`ConnectedHandleStays`). Stdio mode guarantees `~ColdOverlap`, since it has one thread; gRPC
mode does not, and the run `cold_connect` shows that the theorem would be false without it. The
invariant `HInv` says that before the object is connected one thread at most is inside it
(`Alone`); that then what exists in librdkafka is what that thread's `connect()` has got so far,
position by position through the three steps of `reset` (`Cold`); that once it is connected
nobody is past the second test, and who dereferences the pointer holds the current one (`Warm`).

**`KafkaConsumer_proofs`**: `TypeCorrect` and `NothingFetchedInVain` (`FetchEndsWithCalls`),
however calls overlap, by `FInv`: `start()` is the only way into the loop and `stop()` the only
way out. Under `~Shared`, no two calls at once on one partition, `MessagesInOrder` (`InLogOrder`)
and `ReadsWhatWasAsked` (`ReadsFromAsked`); again gRPC clients may share one, and
`shared_partition` shows what follows. The invariant `KInv` ties the position of the partition
to the call that reads it: the position has passed every message taken, and stays within the
log once one was taken, so that librdkafka can reset it forward only (`Ordered`); while the
asked offset is still in the log, it is the asked offset plus the number of messages (`Exact`).

**`StdioTransport_proofs`**: `TransportTyped`, and `ImplementsSession`, the refinement of
`JsonRpcSession`. The invariant `TInv` adds to the types that what is about to be written, by
`run()` or by its catch clause, belongs to the line in hand, which was parsed and is no
notification (`InHand`). Without it the id of an answer could be that of another line.

**`StdioProduce_proofs`**, about the composition: `SettledFirst` (`SettledBeforeAnswer`) by
`SInv`: no `KafkaProducer` exists outside "dispatch" and "leave" (`ObjectInCall`), no librdkafka
producer without an object, no held message without a producer (`Lifetime`); answers are written
and lines read elsewhere. `AnswersAreTrue` (`AnswersTellFate`) by `AInv`, which follows the
message of a call from the tool to the answer: a result waits to be written only for a message
that was taken over, an error result only for one that was rejected (`ReplyTellsFate`), and a
message with an open fate is in no batch (`Unpublished`). `ImplementsTransport` maps every step
of the composition to a step of `StdioTransport` or a stutter; `ComposedTyped` and
`ComposedSession` follow from it and the theorems about the transport. (`ImplementsProducer`,
the same for `KafkaProducer`, holds almost by construction, because each step that touches the
producer is one of its steps under more guards, and is not listed.)

**`GrpcServer_proofs`**: `TypeCorrect`, `CallsAreOutlived` (`CallsOutlived`), `NoCallIsCutOff`
(`NoCallCutOff`), by `IInv`: the position of `main()` says what exists (`Phase`), and gRPC being
up implies that handler and logger are (`Objects`). A `main()` that is stuck in its signal
handler can be anywhere, so for it only `Objects` is left, which is why that part is needed.

**`ToolCall_proofs`**: `TypeCorrect`, `StatusAndFlag` (`StatusAgrees`), `LimitsHold`
(`WithinLimits`), `FrontEndsAgree` (`ArgumentsMeanTheSame`), `AnswersShowWhatKafkaSaid`
(`ShowsWhatKafkaSaid`). Each step of a call decides all that its answer shows, so beyond the types
the invariant `CInv` says only that a call that waits has asked for nothing and fetched nothing.
The work is in the lemmas on what a step computes: `WrapFits`, on the cast to a narrower integer
of any width; `NumberPassed` and `EmptyRead`, on what becomes of a number that does not fit and of
a read of a negative partition; `WholeFirst`, that what a cap leaves of a list is its first items;
`ResultForms`, the three ways a result reaches the client, whole, cut, or not at all;
`OrderExists` and `OrderComplete`, that the positions of a selection can be put in order and all
appear; `PickedContains`, `ListContains` and `FilterContains`, that a selection has exactly the
selected items. `OrderExists` needs no induction: each position goes where its rank says, and
ranks are a one-to-one map between two sets of the same size, hence onto.

Only model-checked: liveness under fairness (`EveryCallReturns`, `DestructionSettles`,
`EveryLineSettled`, `ExitsAtEof`, `SignalEndsMain`), which is out of the prover's reach. The six
violations are counterexamples of TLC, and need no proof.

## 5. Not modelled

- Payloads beyond text or not, keys, headers, the texts of names and errors, JSON layout, tool
  schemas, token estimates: no property is about them.
- `consume_group()`, `getMinMaxOffset()`: nothing calls them, so no state of the program
  reaches them. The stubs for groups and lag return nothing, and appear as that.
- The catch clause of `CallTool` (`mcp_handler.cpp:74-80`): no handler throws, because of the
  calls below them only `build_rdkafka_conf()` does and `connect()` catches that. Booleans and
  other types given for names are `Garbled`; only where a cast takes a boolean for a number is
  it told apart (`Truth`).
- A server process that is killed: nothing is persisted, and what the producer held is then
  lost with it.
- `HealthCheck`, which reads `connected_` of the shared admin client for a text, and the
  prefix filter of `ListTools`: they change nothing. Of a unary gRPC call that ends with an
  error status the response is built all the same; whether a client library shows it is
  outside this program.
- The settings other than the two limits: they are passed on unread. Their names in the
  example configuration and in the loader differ, a matter of constants.
- `is_controller`: `get_brokers()` marks the broker that answered. librdkafka's C++ metadata
  has no controller to compare it with.
- Stored and tail-relative offsets of librdkafka (`-1000` and below). What a client may ask
  for in `KafkaConsumer` is an offset, the beginning or the end.
- Sinks, levels and formats of the logger; `json_utils.cpp`; `tool_registry.cpp`, which is a
  comment; the stale copy of `mcp_grpc_server.cpp`; generated protobuf code.
- librdkafka, gRPC, the broker and `unique_ptr::reset` are external, modelled from how the
  code uses them: where librdkafka's own policy decides (an offset out of range, when a report
  arrives) every outcome is allowed.

## 6. Plan

1. Done: the producer with its promise and proofs, the lazy connection, the consumer's
   `consume()`, the stdio session, the gRPC process; the session composed with the producer
   of a call; the tools with their two front ends.
2. Done: theorems for every safety property and every refinement of the passing runs.
3. Next. What the two conditional theorems leave open: that `StdioProduce`, with its one thread,
   never overlaps operations of a client, as a theorem of the composition instead of the
   hypothesis `~ColdOverlap`; that in gRPC mode the handle is live once one operation has
   connected it, whatever overlaps later; and what a call of `consume()` still gets when it
   shares a partition (offsets of the log, each of them written). The numbers behind liveness
   that need no fairness: that a served report makes room in the queue, and that a draining
   server only loses calls.
