------------------------------ MODULE ToolCall ------------------------------
(***************************************************************************)
(* The seven tools behind their two front ends: MCPHandler (gRPC), with    *)
(* its ResponseBuilder and ToolDefinitions, and MCPDispatcher (stdio),     *)
(* over KafkaAdmin, KafkaConsumer and KafkaProducer, with the limits that  *)
(* ConfigLoader read. What is told apart here is the data of one call: how *)
(* arguments are converted, what the Kafka layer gave, what of it the      *)
(* answer shows and under which status. Calls at once are the subject of   *)
(* ClientHandle, KafkaConsumer and KafkaProducer.                          *)
(*                                                                         *)
(* An integer of w bits is given by half the number of its values, that is *)
(* 2^(w-1). A value of a call is a name, a number or Truth, JSON's true;   *)
(* Garbled stands for a JSON value of any other type (stdio) and for a     *)
(* text stoi() cannot read (gRPC, where all values are strings, and "true" *)
(* is one it cannot read). A size is counted in units of no particular     *)
(* width.                                                                  *)
(***************************************************************************)
EXTENDS Integers, SequencesExt

CONSTANTS
  Topics,                  \* topic names
  Within,                  \* the pairs of topic names whose first is part of the second
  Absent, Empty,           \* a parameter that is not given, ""
  Garbled, Truth,          \* a value of another type, true
  Numbers,                 \* the numbers clients and configuration files give
  Half32, Half64,          \* half the number of values of an int32_t, an int64_t
  DefaultMax,              \* max_messages_per_request by default, and max_messages in gRPC
  DefaultBytes,            \* max_response_size_bytes by default
  Mark,                    \* the size of "... [truncated for token efficiency]"
  MaxItems                 \* bound on what Kafka returns, for model checking

ASSUME ToolAssumption ==
  /\ Half32 \in Nat \ {0, 1} /\ Half64 \in Nat \ {0}
  /\ MaxItems \in Nat \ {0} /\ Mark \in Nat \ {0}
  /\ Numbers \subseteq Int
  /\ DefaultMax \in 0 .. Half32 - 1 /\ DefaultBytes \in 0 .. Half32 - 1
  /\ Within \subseteq Topics \X Topics /\ \A t \in Topics : <<t, t>> \in Within
  /\ Topics \cap {Absent, Empty, Garbled, Truth} = {} /\ Int \cap {Absent, Garbled, Truth} = {}
  /\ Absent \notin {Empty, Garbled, Truth} /\ Empty # Garbled /\ Garbled # Truth

VARIABLES
  mode,     \* the front end
  cfg,      \* the limits of the configuration
  pc,       \* idle, or handle: a call is being handled
  req,      \* the call
  asked,    \* the numbers consume() was called with: of no call, or of one
  got,      \* whether Kafka answered, whether start() refused, the items there are
  answer    \* the answer of the last call

vars == <<mode, cfg, pc, req, asked, got, answer>>

IntOf(half) == -half .. half - 1
Wrap(v, half) == ((v + half) % (2 * half)) - half
AtMost(a, b) == IF a < b THEN a ELSE b

-----------------------------------------------------------------------------
(* ConfigLoader. *)
Given == Numbers \cup {Absent, Garbled, Truth}

\* Mutant: the number is checked against nothing and has no width.
JInt_Wide(v, def) == IF v \in Numbers THEN v ELSE def

\* jint(): the default unless a number is there; get<int32_t>() does not check it.
JInt(v, def) == IF v \in Numbers THEN Wrap(v, Half32) ELSE def

\* load(): a file without the section "limits" leaves both defaults.
Load(max, bytes) == [max |-> JInt(max, DefaultMax), bytes |-> JInt(bytes, DefaultBytes)]

\* A configuration that sets one limit, or none.
Configurations ==
  {Load(v, Absent) : v \in Given} \cup {Load(Absent, v) : v \in Given}

-----------------------------------------------------------------------------
(* The tools. *)
Registry ==
  {"consume_messages", "produce_message", "listTopics", "describe_topic",
   "list_consumer_groups", "consumer_group_lag", "cluster_metadata"}

\* What ListTools (gRPC) and tools/list (stdio) tell the client.
Catalogue(m) ==
  {IF m = "grpc" THEN "list_topics" ELSE "listTopics",
   "consume_messages", "produce_message", "describe_topic",
   "list_consumer_groups", "consumer_group_lag", "cluster_metadata"}

\* Tools with a required parameter: a topic, topic and value, a group.
Needing == {"consume_messages", "produce_message", "describe_topic", "consumer_group_lag"}
ReadsName == Needing \cup {"listTopics"}

Asking(t, n, p, o, k) == [tool |-> t, name |-> n, partition |-> p, offset |-> o, max |-> k]
Plain(t, n) == Asking(t, n, Absent, Absent, Absent)

Requests ==
  {Plain(t, n) : t \in Registry \cup Catalogue("grpc") \cup {"other"},
                 n \in Topics \cup {Absent, Empty, Garbled}}
    \cup {Asking("consume_messages", n, p, o, Absent) :
            n \in Topics, p \in Given, o \in Given}
    \cup {Asking("consume_messages", n, p, Absent, k) :
            n \in Topics, p \in Given, k \in Given}

(***************************************************************************)
(* Arguments. get_param_int() and get_param_int64() take the default for   *)
(* what stoi() and stoll() do not read or find out of range; args.value()  *)
(* converts any number with a cast, and true as well, if to an int32_t.    *)
(***************************************************************************)
GrpcInt(v, def, half) == IF v \in Numbers /\ v \in IntOf(half) THEN v ELSE def
JsonInt(v, def, half) == IF v = Absent THEN def ELSE IF v = Truth THEN 1 ELSE Wrap(v, half)

\* Mutant: the default of the partition is the first one.
GrpcArguments_FirstPartition(r) ==
  [partition |-> GrpcInt(r.partition, 0, Half32),
   offset    |-> GrpcInt(r.offset, -1, Half64),
   max       |-> AtMost(GrpcInt(r.max, DefaultMax, Half32), cfg.max)]

GrpcArguments(r) ==
  [partition |-> GrpcInt(r.partition, -1, Half32),
   offset    |-> GrpcInt(r.offset, -1, Half64),
   max       |-> AtMost(GrpcInt(r.max, DefaultMax, Half32), cfg.max)]

StdioArguments(r) ==
  [partition |-> JsonInt(r.partition, -1, Half32),
   offset    |-> JsonInt(r.offset, -1, Half64),
   max       |-> AtMost(JsonInt(r.max, cfg.max, Half32), cfg.max)]

Arguments(r) == IF mode = "grpc" THEN GrpcArguments(r) ELSE StdioArguments(r)

-----------------------------------------------------------------------------
(* Answers. A text is a head that holds the count (nlohmann::json writes it *)
(* first), its items, of size 2, and an end.                               *)
Untold == -1
Size(list) == 2 + 2 * Len(list)

\* trim_to_token_limit(): substr() takes a negative cap for "all of it".
Cut(size) == size > cfg.bytes
Left(size) == IF Cut(size) /\ cfg.bytes >= 0 THEN cfg.bytes ELSE size

\* The items that are left whole, and the count if any of the head is left.
Whole(list, left) == [i \in 1 .. AtMost(Len(list), (left - 1) \div 2) |-> list[i]]
Told(count, left) == IF left > 0 THEN count ELSE Untold

\* Mutant: the cap leaves room for one more.
Ok_OneMore(list, count) ==
  LET size == Size(list)
      cut == size > cfg.bytes + 1
      left == IF cut /\ cfg.bytes >= 0 THEN cfg.bytes + 1 ELSE size
  IN [outcome |-> "result", is_error |-> FALSE, message |-> FALSE, shown |-> Whole(list, left),
      count |-> Told(count, left), kept |-> IF cut THEN left + Mark ELSE left, cut |-> cut]

\* MCPDispatcher::ok(). What is cut is followed by the mark.
Ok(list, count) ==
  LET cut == Cut(Size(list))
      left == Left(Size(list))
  IN [outcome |-> "result", is_error |-> FALSE, message |-> FALSE, shown |-> Whole(list, left),
      count |-> Told(count, left), kept |-> IF cut THEN left + Mark ELSE left, cut |-> cut]

\* The responses of ResponseBuilder and MCPHandler, which no cap applies to.
Built(list, count) ==
  [outcome |-> "OK", is_error |-> FALSE, message |-> FALSE, shown |-> list,
   count |-> count, kept |-> Size(list), cut |-> FALSE]

\* Mutant: build_error_response() leaves is_error as it was.
Refusal_Unflagged(outcome, message) ==
  [outcome |-> outcome, is_error |-> FALSE, message |-> message, shown |-> <<>>,
   count |-> 0, kept |-> 0, cut |-> FALSE]

\* build_error_response(), err(), and the error answers of the transport.
Refusal(outcome, message) ==
  [outcome |-> outcome, is_error |-> TRUE, message |-> message, shown |-> <<>>,
   count |-> 0, kept |-> 0, cut |-> FALSE]

\* substr() may cut within a character of the text a result repeats from the
\* call, or of a message, and then write_response() throws.
Split(size) ==
  IF req.tool \in Needing /\ Cut(size) /\ cfg.bytes > 0
    THEN {Refusal("INTERNAL_ERROR", FALSE)} ELSE {}

Results(list, count) ==
  IF mode = "grpc" THEN {Built(list, count)} ELSE {Ok(list, count)} \cup Split(Size(list))

NoAnswer == Refusal("none", FALSE)
Silent == [answered |-> FALSE, refused |-> FALSE, items |-> <<>>]
Refusing == [answered |-> FALSE, refused |-> TRUE, items |-> <<>>]
Items(list) == [answered |-> TRUE, refused |-> FALSE, items |-> list]

Init ==
  /\ mode \in {"grpc", "stdio"} /\ cfg \in Configurations
  /\ pc = "idle" /\ req = Plain("other", Absent)
  /\ asked = {} /\ got = Silent /\ answer = NoAnswer

-----------------------------------------------------------------------------
\* A call arrives. In gRPC a name is always a string.
Request(r) ==
  /\ pc = "idle"
  /\ mode = "grpc" => r.name # Garbled
  /\ pc' = "handle" /\ req' = r
  /\ asked' = {} /\ got' = Silent /\ answer' = NoAnswer
  /\ UNCHANGED <<mode, cfg>>

Handled == pc = "handle" /\ pc' = "idle" /\ UNCHANGED <<mode, cfg, req>>
Unasked == UNCHANGED <<asked, got>>

Registered(t) == t \in Registry

RejectTool ==
  /\ Handled /\ Unasked /\ ~Registered(req.tool)
  /\ answer' = Refusal(IF mode = "grpc" THEN "NOT_FOUND" ELSE "isError", FALSE)

\* A required parameter is not there; in gRPC an empty one counts as missing.
Missing ==
  /\ req.tool \in Needing
  /\ req.name \in (IF mode = "grpc" THEN {Absent, Empty} ELSE {Absent})

RejectMissing ==
  /\ Handled /\ Unasked /\ Missing
  /\ answer' = Refusal(IF mode = "grpc" THEN "INVALID_ARGUMENT" ELSE "isError", FALSE)

\* get<>() and value() throw, for true only where an int64_t is read; no tool
\* has its try around them.
Mistyped ==
  /\ mode = "stdio"
  /\ \/ req.tool \in ReadsName /\ req.name = Garbled
     \/ req.tool \in {"consume_messages", "produce_message"} /\ req.partition = Garbled
     \/ req.tool = "consume_messages" /\ req.max = Garbled
     \/ req.tool = "consume_messages" /\ req.offset \in {Garbled, Truth}

RejectMistyped ==
  /\ Handled /\ Unasked /\ ~Missing /\ Mistyped
  /\ answer' = Refusal("INTERNAL_ERROR", FALSE)

Serves(t) == Handled /\ req.tool = t /\ Registered(t) /\ ~Missing /\ ~Mistyped

-----------------------------------------------------------------------------
(***************************************************************************)
(* consume_messages. KafkaConsumer::consume() returns no message when it   *)
(* has no client, no topic handle, or start() refuses, as it does every    *)
(* negative partition. A message is text, or bytes that are not UTF-8.     *)
(***************************************************************************)
Consumed(a) ==
  {Silent} \cup
    IF a.partition < 0 THEN {Refusing}
    ELSE IF req.name = Empty THEN {Items(<<>>)}
    ELSE {Items(s) :
            s \in SeqOf({"text", "binary"}, IF a.max < 0 THEN 0 ELSE AtMost(a.max, MaxItems))}

\* compact() replaces what is not UTF-8.
Replaced(items) == [i \in DOMAIN items |-> IF items[i] = "binary" THEN "replaced" ELSE items[i]]

\* In ok(), dump() throws for what is not UTF-8, inside the tool's try.
ConsumeAnswers(items) ==
  IF mode = "stdio" /\ Contains(items, "binary") THEN {Refusal("isError", FALSE)}
  ELSE Results(Replaced(items), Len(items))

Consume ==
  /\ Serves("consume_messages")
  /\ asked' = {Arguments(req)}
  /\ got' \in Consumed(Arguments(req))
  /\ answer' \in ConsumeAnswers(got'.items)

\* produce_message. Module KafkaProducer has its details.
Produced == Serves("produce_message") /\ Unasked /\ answer' \in Results(<<>>, 0)

ProduceFailed ==
  /\ Serves("produce_message") /\ Unasked
  /\ answer' = IF mode = "grpc" THEN Refusal("INTERNAL", TRUE) ELSE Refusal("isError", FALSE)

-----------------------------------------------------------------------------
(***************************************************************************)
(* The metadata tools. fetch_metadata() returns nothing when connect() or  *)
(* the call fails, and the operations of KafkaAdmin return empty results.  *)
(***************************************************************************)
TopicLists ==
  {s \in SeqOf([name : Topics, err : BOOLEAN], MaxItems) :
     \A i, j \in DOMAIN s : s[i].name = s[j].name => i = j}
BrokerLists ==
  {s \in SeqOf([id : 1 .. MaxItems, replied : BOOLEAN], MaxItems) :
     \A i, j \in DOMAIN s :
       s[i].id = s[j].id \/ (s[i].replied /\ s[j].replied) => i = j}
Fetched(lists) == {Silent} \cup {Items(s) : s \in lists}

Names(items) == [i \in DOMAIN items |-> items[i].name]

\* The items of a list at some positions, in the order of the list.
InOrder(at) ==
  CHOOSE f \in [1 .. Cardinality(at) -> at] : \A i, j \in DOMAIN f : i < j => f[i] < f[j]
Picked(list, at) == [i \in 1 .. Cardinality(at) |-> list[InOrder(at)[i]]]

\* Mutant: a topic Kafka reports with an error is listed like the others.
ListTopics_Erring(items) == Names(items)

\* KafkaAdmin::listTopics(): topics in error are left out.
Healthy(items) == {i \in DOMAIN items : ~items[i].err}
ListTopics(items) == Names(Picked(items, Healthy(items)))

\* Only the dispatcher looks at the filter, which a name passes that contains it.
Passing(topics) == {i \in DOMAIN topics : <<req.name, topics[i]>> \in Within}
Filtered(topics) ==
  IF mode = "grpc" \/ req.name \in {Absent, Empty} THEN topics
  ELSE Picked(topics, Passing(topics))

ListTopicsCall ==
  /\ Serves("listTopics") /\ UNCHANGED asked
  /\ got' \in Fetched(TopicLists)
  /\ LET topics == ListTopics(got'.items) IN answer' \in Results(Filtered(topics), Len(topics))

(***************************************************************************)
(* KafkaAdmin::describe_topic(): {} has zeros; an empty name asks for all  *)
(* topics, matches none, and returns numbers that were never set. Asked    *)
(* for one topic, Kafka answers with it, in error if it does not exist.    *)
(***************************************************************************)
Described(answered) ==
  IF ~answered THEN [name |-> Empty, numbers |-> "zero"]
  ELSE IF req.name = Empty THEN [name |-> Empty, numbers |-> "unset"]
  ELSE [name |-> req.name, numbers |-> "as told"]

DescribeTopic ==
  /\ Serves("describe_topic") /\ UNCHANGED asked
  /\ got' \in Fetched({<<>>})
  /\ answer' \in Results(<<Described(got'.answered)>>, 1)

\* KafkaAdmin's two stubs, which ask nobody.
ListConsumerGroups == Serves("list_consumer_groups") /\ Unasked /\ answer' \in Results(<<>>, 0)
ConsumerGroupLag == Serves("consumer_group_lag") /\ Unasked /\ answer' \in Results(<<>>, 0)

\* KafkaAdmin::get_brokers() takes orig_broker_id(), who replied, for the controller.
GetBrokers(items) == [i \in DOMAIN items |-> [id |-> items[i].id, is_controller |-> items[i].replied]]

ClusterMetadata ==
  /\ Serves("cluster_metadata") /\ UNCHANGED asked
  /\ got' \in Fetched(BrokerLists)
  /\ answer' \in Results(GetBrokers(got'.items), Len(got'.items))

Handle ==
  \/ RejectTool \/ RejectMissing \/ RejectMistyped
  \/ Consume \/ Produced \/ ProduceFailed
  \/ ListTopicsCall \/ DescribeTopic \/ ListConsumerGroups \/ ConsumerGroupLag
  \/ ClusterMetadata

Next == Handle \/ \E r \in Requests : Request(r)

Spec == Init /\ [][Next]_vars

-----------------------------------------------------------------------------
Outcomes == {"OK", "NOT_FOUND", "INVALID_ARGUMENT", "INTERNAL",
             "result", "isError", "INTERNAL_ERROR", "none"}

TypeOK ==
  /\ mode \in {"grpc", "stdio"} /\ pc \in {"idle", "handle"}
  /\ cfg \in [max : IntOf(Half32), bytes : IntOf(Half32)]
  /\ req \in Requests
  /\ asked \subseteq [partition : IntOf(Half32), offset : IntOf(Half64), max : IntOf(Half32)]
  /\ got.answered \in BOOLEAN /\ got.refused \in BOOLEAN /\ Len(got.items) \in 0 .. MaxItems
  /\ answer.outcome \in Outcomes /\ answer.count \in Untold .. MaxItems

Answered == pc = "idle" /\ answer.outcome # "none"

(***************************************************************************)
(* The two ways an answer tells success agree: the status of the call and  *)
(* the flag inside the response (gRPC), the kind of answer and the flag    *)
(* (stdio). An error shows no data. The field error_message is set when a  *)
(* message could not be produced, and by no other error response.          *)
(***************************************************************************)
StatusAgrees ==
  Answered =>
    /\ answer.is_error <=> answer.outcome \notin {"OK", "result"}
    /\ answer.message <=> answer.outcome = "INTERNAL"
    /\ answer.is_error => answer.shown = <<>>

(***************************************************************************)
(* No call reads more messages than the configuration and the client       *)
(* allow, and no stdio result is longer than the configured size, unless   *)
(* that is negative or the result was cut: then the mark comes on top of   *)
(* it. (The answers of the gRPC front end have no such limit.)             *)
(***************************************************************************)
WithinLimits ==
  Answered =>
    /\ asked # {} /\ Len(got.items) > 0 =>
         /\ Len(got.items) <= cfg.max
         /\ req.max \in Numbers /\ req.max \in IntOf(Half32) => Len(got.items) <= req.max
    /\ answer.outcome = "result" /\ cfg.bytes >= 0 =>
         \/ answer.kept <= cfg.bytes /\ ~answer.cut
         \/ answer.kept = cfg.bytes + Mark /\ answer.cut

(***************************************************************************)
(* A read means the same through both front ends if its numbers fit: they  *)
(* are passed on as they are, and left out they have the same defaults but *)
(* for max_messages. What does not fit is -1 in gRPC, and in stdio what    *)
(* remains of its low bits. So a gRPC read of a partition whose number     *)
(* does not fit becomes a read of partition -1; and a read of a negative   *)
(* partition, the default included, is a read of none: the answer is a     *)
(* success without messages, unless stdio cannot write what it had to cut. *)
(***************************************************************************)
Fits(v, half) == v = Absent \/ v \in IntOf(half)
PassedOn(v, half, n) ==
  /\ v \in IntOf(half) => n = v
  /\ v = Absent => n = -1
  /\ mode = "grpc" /\ ~Fits(v, half) => n = -1
  /\ mode = "stdio" /\ v \in Numbers => (n - v) % (2 * half) = 0
ArgumentsMeanTheSame ==
  \A a \in asked :
    /\ Fits(req.partition, Half32) /\ Fits(req.offset, Half64) /\ req.max \in IntOf(Half32)
         => GrpcArguments(req) = StdioArguments(req)
    /\ PassedOn(req.partition, Half32, a.partition)
    /\ PassedOn(req.offset, Half64, a.offset)
    /\ a.partition < 0 =>
         /\ answer.outcome \in {"OK", "result"} \/ (answer.outcome = "INTERNAL_ERROR" /\ cfg.bytes > 0)
         /\ answer.shown = <<>> /\ answer.count \in {0, Untold}

\* The parts of ShowsWhatKafkaSaid: what each tool's answer has to do with got.
Counted(n) == answer.count = n \/ (answer.cut /\ answer.count = Untold)
ShowsMessages ==
  /\ Len(answer.shown) <= Len(got.items) /\ Counted(Len(got.items))
  /\ ~answer.cut => Len(answer.shown) = Len(got.items)
  /\ \A i \in DOMAIN answer.shown : answer.shown[i] = "text" <=> got.items[i] = "text"
Passes(t) == mode = "stdio" /\ req.name \in Topics => <<req.name, t>> \in Within
ShowsTopics ==
  /\ Counted(Cardinality(Healthy(got.items)))
  /\ \A t \in Topics :
       LET due == Passes(t) /\ \E i \in Healthy(got.items) : got.items[i].name = t IN
       /\ Contains(answer.shown, t) => due
       /\ ~answer.cut /\ due => Contains(answer.shown, t)
Ids(items) == {items[i].id : i \in DOMAIN items}
ShowsBrokers ==
  /\ Ids(answer.shown) \subseteq Ids(got.items) /\ Counted(Len(got.items))
  /\ ~answer.cut => Ids(answer.shown) = Ids(got.items)
ShowsTopic ==
  \A i \in DOMAIN answer.shown :
    /\ answer.shown[i].numbers = "as told" <=> got.answered /\ req.name # Empty
    /\ answer.shown[i].numbers = "zero" <=> ~got.answered
Withheld ==
  LET list == IF req.tool = "describe_topic" THEN <<req.name>> ELSE got.items IN
  /\ mode = "stdio" /\ req.tool \in Needing
  /\ \/ req.tool = "consume_messages" /\ Contains(list, "binary")
     \/ cfg.bytes > 0 /\ Size(list) > cfg.bytes

(***************************************************************************)
(* A success shows what Kafka told and nothing else: the messages, in      *)
(* order, with text unchanged; the topics that are not in error and that   *)
(* contain the filter, and how many there were before it; the brokers. It  *)
(* shows all of them unless it was cut, and then the first of them, with   *)
(* their full number or none. When Kafka did not answer it is a success    *)
(* all the same, without items, and describe_topic tells zeros; for an     *)
(* empty name, numbers that were never set. What Kafka told is withheld in *)
(* stdio only, for a message that is not UTF-8 or a result that was cut.   *)
(***************************************************************************)
ShowsWhatKafkaSaid ==
  Answered =>
    IF answer.is_error THEN got.answered => Withheld
    ELSE CASE req.tool = "consume_messages" -> ShowsMessages
           [] req.tool = "listTopics" -> ShowsTopics
           [] req.tool = "cluster_metadata" -> ShowsBrokers
           [] req.tool = "describe_topic" -> ShowsTopic
           [] OTHER -> answer.shown = <<>>

(***************************************************************************)
(* What the stdio schema of consume_messages and the proto of a consume    *)
(* request say of the partition: "-1 for all partitions". A read of        *)
(* partition -1 is not refused by librdkafka.                              *)
(***************************************************************************)
AllPartitionsRead == asked # {} /\ req.partition \in {Absent, -1} => ~got.refused
=============================================================================
