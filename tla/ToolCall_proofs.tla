-------------------------- MODULE ToolCall_proofs --------------------------
(***************************************************************************)
(* What holds of a tool call for all topics, numbers, widths and limits,   *)
(* through both front ends. Each step of a call decides everything that    *)
(* its answer shows, so the properties are preserved one by one, under a   *)
(* small invariant: the types, and that a call which still waits has       *)
(* fetched nothing. The work is in what the steps compute: conversions of  *)
(* numbers, selections from lists, and the forms of an answer.             *)
(***************************************************************************)
EXTENDS ToolCall, SequenceTheorems, FiniteSetTheorems, TLAPS

-----------------------------------------------------------------------------
(* Conversions of numbers. *)
\* Quotient and remainder.
LEMMA Division ==
  ASSUME NEW a \in Int, NEW w \in Nat \ {0}
  PROVE  /\ a % w \in 0 .. w - 1 /\ a \div w \in Int
         /\ a % w = a - w * (a \div w)
         /\ (a * w) % w = 0
OBVIOUS

\* A cast gives a number of the width, the same one if it fits, and in any case
\* one that differs by a multiple of 2^w.
LEMMA WrapFits ==
  ASSUME NEW v \in Int, NEW half \in Nat \ {0}
  PROVE  /\ Wrap(v, half) \in IntOf(half)
         /\ v \in IntOf(half) => Wrap(v, half) = v
         /\ (Wrap(v, half) - v) % (2 * half) = 0
<1> DEFINE w == 2 * half
           q == (v + half) \div w
<1>1. w \in Nat \ {0} /\ w = 2 * half
  OBVIOUS
<1>2. (v + half) % w \in 0 .. w - 1 /\ q \in Int /\ (v + half) % w = (v + half) - w * q
  <2> HIDE DEF w
  <2>1. v + half \in Int /\ w \in Nat \ {0}
    BY <1>1
  <2>2. (v + half) % w = (v + half) - w * ((v + half) \div w)
    BY <2>1, Division
  <2>3. (v + half) % w \in 0 .. w - 1 /\ (v + half) \div w \in Int
    BY <2>1, Division
  <2>4. QED
    BY <2>2, <2>3
<1>3. Wrap(v, half) = ((v + half) % w) - half
  BY DEF Wrap
<1> HIDE DEF w, q
<1>4. Wrap(v, half) \in IntOf(half)
  BY <1>1, <1>2, <1>3 DEF IntOf
<1>5. ASSUME v \in IntOf(half) PROVE Wrap(v, half) = v
  <2>1. v + half \in 0 .. w - 1
    BY <1>1, <1>5 DEF IntOf
  <2>2. (v + half) % w = v + half
    BY <1>1, <2>1
  <2>3. QED
    BY <1>3, <2>2
<1>6. (Wrap(v, half) - v) % w = 0
  <2>1. Wrap(v, half) - v = (-q) * w
    BY <1>1, <1>2, <1>3
  <2>2. -q \in Int
    BY <1>2
  <2>3. ((-q) * w) % w = 0
    BY <1>1, <2>2, Division
  <2>4. QED
    BY <2>1, <2>3
<1>7. QED
  BY <1>1, <1>4, <1>5, <1>6

\* The limits of the configuration are numbers of an int32_t.
LEMMA LimitsFit ==
  ASSUME NEW c \in Configurations
  PROVE  c \in [max : IntOf(Half32), bytes : IntOf(Half32)]
<1>1. \A v \in Given, def \in 0 .. Half32 - 1 : JInt(v, def) \in IntOf(Half32)
  <2>1. \A v \in Numbers : Wrap(v, Half32) \in IntOf(Half32)
    BY ToolAssumption, WrapFits
  <2>2. \A def \in 0 .. Half32 - 1 : def \in IntOf(Half32)
    BY ToolAssumption DEF IntOf
  <2>3. QED
    BY <2>1, <2>2 DEF JInt
<1>2. Absent \in Given
  BY DEF Given
<1>3. \A v, u \in Given : Load(v, u) \in [max : IntOf(Half32), bytes : IntOf(Half32)]
  BY <1>1, ToolAssumption DEF Load
<1>4. QED
  BY <1>2, <1>3 DEF Configurations

\* What the arguments of a request are made of.
LEMMA RequestArguments ==
  ASSUME NEW r \in Requests
  PROVE  r.partition \in Given /\ r.offset \in Given /\ r.max \in Given
<1>1. Absent \in Given
  BY DEF Given
<1>2. QED
  BY <1>1 DEF Requests, Plain, Asking

\* Both front ends give the Kafka layer numbers that fit.
LEMMA ArgumentsFit ==
  ASSUME mode \in {"grpc", "stdio"}, cfg.max \in IntOf(Half32), req \in Requests,
         mode = "stdio" => /\ Garbled \notin {req.partition, req.offset, req.max}
                           /\ req.offset # Truth
  PROVE  Arguments(req) \in
           [partition : IntOf(Half32), offset : IntOf(Half64), max : IntOf(Half32)]
<1>1. req.partition \in Given /\ req.offset \in Given /\ req.max \in Given
  BY RequestArguments
<1>2. \A half \in Nat \ {0} : -1 \in IntOf(half)
  BY DEF IntOf
<1>3. DefaultMax \in IntOf(Half32)
  BY ToolAssumption DEF IntOf
<1>4. \A a, b \in IntOf(Half32) : AtMost(a, b) \in IntOf(Half32)
  BY DEF AtMost
<1>5. CASE mode = "grpc"
  <2>1. \A v, def, half : def \in IntOf(half) => GrpcInt(v, def, half) \in IntOf(half)
    BY DEF GrpcInt
  <2>2. QED
    BY <1>2, <1>3, <1>4, <1>5, <2>1, ToolAssumption DEF Arguments, GrpcArguments
<1>6. CASE mode # "grpc" /\ mode = "stdio"
  <2>1. \A v \in Given \ {Garbled, Truth}, half \in Nat \ {0} :
          \A def \in IntOf(half) : JsonInt(v, def, half) \in IntOf(half)
    BY WrapFits, ToolAssumption DEF JsonInt, Given
  <2>2. 1 \in IntOf(Half32) /\ \A def : JsonInt(Truth, def, Half32) = 1
    BY ToolAssumption DEF JsonInt, IntOf
  <2>3. \A v \in Given \ {Garbled} :
          \A def \in IntOf(Half32) : JsonInt(v, def, Half32) \in IntOf(Half32)
    BY <2>1, <2>2, ToolAssumption
  <2>4. QED
    BY <1>1, <1>2, <1>4, <1>6, <2>1, <2>3, ToolAssumption DEF Arguments, StdioArguments
<1>7. QED
  BY <1>5, <1>6

-----------------------------------------------------------------------------
(* Lists. *)
\* A function on 1..n is a sequence of length n.
LEMMA FunctionLen ==
  ASSUME NEW n \in Nat, NEW f, f = [i \in 1 .. n |-> f[i]]
  PROVE  Len(f) = n /\ f \in Seq({f[i] : i \in 1 .. n})
<1>1. f \in [1 .. n -> {f[i] : i \in 1 .. n}]
  OBVIOUS
<1>2. QED
  BY <1>1

\* The sequences up to a length.
LEMMA Bounded ==
  ASSUME NEW S, NEW n \in Nat, NEW s \in SeqOf(S, n)
  PROVE  s \in Seq(S) /\ Len(s) \in 0 .. n /\ DOMAIN s = 1 .. Len(s)
<1>1. PICK m \in 0 .. n : s \in [1 .. m -> S]
  BY DEF SeqOf
<1>2. s \in Seq(S) /\ Len(s) = m
  BY <1>1
<1>3. QED
  BY <1>2

\* A selection is as long as there are positions selected.
LEMMA PickedLen ==
  ASSUME NEW list, Len(list) \in Nat, DOMAIN list = 1 .. Len(list),
         NEW at \in SUBSET DOMAIN list
  PROVE  /\ Cardinality(at) \in 0 .. Len(list) /\ IsFiniteSet(at)
         /\ Len(Picked(list, at)) = Cardinality(at)
         /\ DOMAIN Picked(list, at) = 1 .. Cardinality(at)
<1>1. IsFiniteSet(1 .. Len(list)) /\ Cardinality(1 .. Len(list)) = Len(list)
  BY FS_Interval
<1>2. IsFiniteSet(at) /\ Cardinality(at) <= Cardinality(1 .. Len(list))
  BY <1>1, FS_Subset
<1>3. Cardinality(at) \in Nat
  BY <1>2, FS_CardinalityType
<1>4. Len(Picked(list, at)) = Cardinality(at)
  BY <1>3, FunctionLen DEF Picked
<1>5. QED
  BY <1>1, <1>2, <1>3, <1>4 DEF Picked

\* What fetch_metadata() gives is a list of what was asked for.
LEMMA FetchedItems ==
  /\ got' \in Fetched(TopicLists) =>
       /\ got'.items \in Seq([name : Topics, err : BOOLEAN])
       /\ Len(got'.items) \in 0 .. MaxItems
  /\ got' \in Fetched(BrokerLists) =>
       /\ got'.items \in Seq([id : 1 .. MaxItems, replied : BOOLEAN])
       /\ Len(got'.items) \in 0 .. MaxItems
  /\ \A L : got' \in Fetched(L) =>
       /\ got'.answered \in BOOLEAN /\ got'.refused = FALSE
       /\ got'.answered => got'.items \in L
       /\ ~got'.answered => got'.items = <<>>
<1>1. ASSUME NEW L, got' \in Fetched(L)
      PROVE  /\ got'.answered \in BOOLEAN /\ got'.refused = FALSE
             /\ got'.answered => got'.items \in L
             /\ ~got'.answered => got'.items = <<>>
  <2>1. CASE got' = Silent
    <3>1. got'.answered = FALSE /\ got'.refused = FALSE /\ got'.items = <<>>
      BY <2>1 DEF Silent
    <3>2. QED
      BY <3>1
  <2>2. ASSUME NEW s \in L, got' = Items(s)
        PROVE  got'.answered = TRUE /\ got'.refused = FALSE /\ got'.items \in L
    BY <2>2 DEF Items
  <2>3. QED
    BY <1>1, <2>1, <2>2 DEF Fetched
<1>2. \A s \in TopicLists : s \in Seq([name : Topics, err : BOOLEAN]) /\ Len(s) \in 0 .. MaxItems
  BY Bounded, ToolAssumption DEF TopicLists
<1>3. \A s \in BrokerLists :
        s \in Seq([id : 1 .. MaxItems, replied : BOOLEAN]) /\ Len(s) \in 0 .. MaxItems
  BY Bounded, ToolAssumption DEF BrokerLists
<1>4. \A S : <<>> \in Seq(S) /\ Len(<<>>) \in 0 .. MaxItems
  BY ToolAssumption
<1>5. QED
  BY <1>1, <1>2, <1>3, <1>4

\* What consume() gives: text and binary messages, as many as it was asked for, and
\* none of a negative partition.
LEMMA ConsumedItems ==
  ASSUME NEW a, a.max \in Int, got' \in Consumed(a)
  PROVE  /\ got'.answered \in BOOLEAN /\ got'.refused \in BOOLEAN
         /\ got'.items \in Seq({"text", "binary"}) /\ Len(got'.items) \in 0 .. MaxItems
         /\ Len(got'.items) > 0 => Len(got'.items) <= a.max
         /\ ~got'.answered => got'.items = <<>>
         /\ a.partition < 0 => got'.items = <<>>
<1> DEFINE n == IF a.max < 0 THEN 0 ELSE AtMost(a.max, MaxItems)
<1>1. n \in 0 .. MaxItems /\ (n > 0 => n <= a.max)
  BY ToolAssumption DEF AtMost
<1>2. <<>> \in Seq({"text", "binary"}) /\ Len(<<>>) = 0 /\ 0 \in 0 .. MaxItems
  BY ToolAssumption
<1>3. \/ got' = Silent \/ got' = Refusing \/ got' = Items(<<>>)
      \/ ~(a.partition < 0) /\ \E s \in SeqOf({"text", "binary"}, n) : got' = Items(s)
  BY DEF Consumed
<1> HIDE DEF n
<1>4. CASE got' = Silent \/ got' = Refusing \/ got' = Items(<<>>)
  <2>1. got'.items = <<>>
    BY <1>4 DEF Silent, Refusing, Items
  <2>2. got'.answered = FALSE \/ got'.answered = TRUE
    BY <1>4 DEF Silent, Refusing, Items
  <2>3. got'.refused = FALSE \/ got'.refused = TRUE
    BY <1>4 DEF Silent, Refusing, Items
  <2>4. got'.answered \in BOOLEAN /\ got'.refused \in BOOLEAN
    BY <2>2, <2>3
  <2>5. got'.items \in Seq({"text", "binary"}) /\ Len(got'.items) = 0
    BY <1>2, <2>1
  <2>6. Len(got'.items) \in 0 .. MaxItems /\ ~(Len(got'.items) > 0)
    BY <1>2, <2>5
  <2>7. QED
    BY <2>1, <2>4, <2>5, <2>6
<1>5. ASSUME NEW s \in SeqOf({"text", "binary"}, n), got' = Items(s)
      PROVE  /\ got'.answered = TRUE /\ got'.refused = FALSE
             /\ got'.items \in Seq({"text", "binary"}) /\ Len(got'.items) \in 0 .. MaxItems
             /\ Len(got'.items) > 0 => Len(got'.items) <= a.max
  <2>1. s \in Seq({"text", "binary"}) /\ Len(s) \in 0 .. n
    BY <1>1, Bounded
  <2>2. got'.answered = TRUE /\ got'.refused = FALSE /\ got'.items = s
    BY <1>5 DEF Items
  <2>3. QED
    BY <1>1, <2>1, <2>2, ToolAssumption
<1>6. QED
  BY <1>3, <1>4, <1>5

-----------------------------------------------------------------------------
(* The steps of a call. *)
\* A call that waits has asked for nothing, fetched nothing, and has no answer.
Waiting == pc = "handle" => asked = {} /\ got = Silent /\ answer = NoAnswer

CInv == TypeOK /\ Waiting

\* What consume_messages does, with arguments that fit.
LEMMA ConsumeStep ==
  ASSUME TypeOK, Consume
  PROVE  /\ asked' = {Arguments(req)}
         /\ Arguments(req) \in
              [partition : IntOf(Half32), offset : IntOf(Half64), max : IntOf(Half32)]
         /\ got'.answered \in BOOLEAN /\ got'.refused \in BOOLEAN
         /\ got'.items \in Seq({"text", "binary"}) /\ Len(got'.items) \in 0 .. MaxItems
         /\ Len(got'.items) > 0 => Len(got'.items) <= Arguments(req).max
         /\ ~got'.answered => got'.items = <<>>
         /\ Arguments(req).partition < 0 => got'.items = <<>>
<1>1. req.tool = "consume_messages" /\ ~Mistyped /\ asked' = {Arguments(req)}
  BY DEF Consume, Serves
<1>2. mode = "stdio" => /\ Garbled \notin {req.partition, req.offset, req.max}
                        /\ req.offset # Truth
  BY <1>1 DEF Mistyped
<1> DEFINE a == Arguments(req)
<1>3. a \in [partition : IntOf(Half32), offset : IntOf(Half64), max : IntOf(Half32)]
  BY <1>1, <1>2, ArgumentsFit DEF TypeOK
<1>4. got' \in Consumed(a)
  BY DEF Consume
<1> HIDE DEF a
<1>5. a.max \in Int
  BY <1>3, ToolAssumption DEF IntOf
<1>6. QED
  BY <1>1, <1>3, <1>4, <1>5, ConsumedItems DEF a

\* What every step of a handled call leaves alone.
LEMMA HandleLeaves ==
  ASSUME Handle
  PROVE  pc = "handle" /\ pc' = "idle" /\ UNCHANGED <<mode, cfg, req>>
BY DEF Handle, Handled, RejectTool, RejectMissing, RejectMistyped, Serves, Consume, Produced,
       ProduceFailed, ListTopicsCall, DescribeTopic, ListConsumerGroups, ConsumerGroupLag,
       ClusterMetadata

\* Where every other tool leaves asked and got.
LEMMA OtherSteps ==
  ASSUME TypeOK, Handle, ~Consume
  PROVE  /\ UNCHANGED asked
         /\ got'.answered \in BOOLEAN /\ got'.refused \in BOOLEAN
         /\ Len(got'.items) \in 0 .. MaxItems
<1>1. CASE UNCHANGED <<asked, got>>
  BY <1>1 DEF TypeOK
<1>2. CASE ListTopicsCall
  BY <1>2, FetchedItems, ToolAssumption DEF ListTopicsCall
<1>3. CASE DescribeTopic
  <2>1. got' \in Fetched({<<>>}) /\ UNCHANGED asked
    BY <1>3 DEF DescribeTopic
  <2>2. got'.answered \in BOOLEAN /\ got'.refused = FALSE /\ got'.items = <<>>
    BY <2>1, FetchedItems
  <2>3. Len(<<>>) = 0 /\ 0 \in 0 .. MaxItems
    BY ToolAssumption
  <2>4. QED
    BY <2>1, <2>2, <2>3
<1>4. CASE ClusterMetadata
  BY <1>4, FetchedItems, ToolAssumption DEF ClusterMetadata
<1>5. QED
  BY <1>1, <1>2, <1>3, <1>4
     DEF Handle, RejectTool, RejectMissing, RejectMistyped, Produced, ProduceFailed,
         ListConsumerGroups, ConsumerGroupLag, Unasked

-----------------------------------------------------------------------------
(* The forms of an answer. *)
Refused(a) ==
  \E o \in Outcomes \ {"OK", "result"} : a = Refusal(o, o = "INTERNAL")

\* The first items of a list, all of them unless cut, and their number unless cut.
ShowsFirst(a, list, count) ==
  /\ a.cut \in BOOLEAN /\ Len(a.shown) \in 0 .. Len(list)
  /\ DOMAIN a.shown = 1 .. Len(a.shown)
  /\ \A i \in DOMAIN a.shown : a.shown[i] = list[i]
  /\ ~a.cut => Len(a.shown) = Len(list)
  /\ a.count = count \/ (a.cut /\ a.count = Untold)
  /\ Len(list) = 0 => a.shown = <<>>

Success(a) ==
  /\ a.is_error = FALSE /\ a.message = FALSE
  /\ a.outcome = IF mode = "grpc" THEN "OK" ELSE "result"
  /\ mode = "stdio" /\ cfg.bytes >= 0 =>
       \/ a.kept <= cfg.bytes /\ ~a.cut
       \/ a.kept = cfg.bytes + Mark /\ a.cut

Resulted(a) ==
  \E list, count : count \in 0 .. MaxItems /\ ShowsFirst(a, list, count) /\ Success(a)

\* A result that could not be written, because it was cut.
SplitOff(a, list) ==
  /\ mode = "stdio" /\ req.tool \in Needing /\ cfg.bytes > 0 /\ Size(list) > cfg.bytes
  /\ a = Refusal("INTERNAL_ERROR", FALSE)

\* Half of an odd number.
LEMMA Half ==
  ASSUME NEW n \in Nat
  PROVE  (2 * n + 1) \div 2 = n
OBVIOUS

\* What is left whole of a list is its first items.
LEMMA WholeFirst ==
  ASSUME NEW list, Len(list) \in Nat, DOMAIN list = 1 .. Len(list), NEW left \in Nat
  PROVE  LET w == Whole(list, left) IN
         /\ Len(w) \in 0 .. Len(list) /\ DOMAIN w = 1 .. Len(w)
         /\ \A i \in DOMAIN w : w[i] = list[i]
         /\ left = Size(list) => Len(w) = Len(list)
         /\ Len(list) = 0 => w = <<>>
<1> DEFINE n == Len(list)
           k == AtMost(n, (left - 1) \div 2)
           m == IF k < 0 THEN 0 ELSE k
           w == Whole(list, left)
<1>1. (left - 1) \div 2 \in Int
  OBVIOUS
<1>2. k \in Int /\ m \in 0 .. n /\ (k < 0 => m = 0) /\ (k >= 0 => m = k)
  BY <1>1 DEF AtMost
<1>3. ASSUME left = Size(list) PROVE m = n
  <2>1. left - 1 = 2 * n + 1
    BY <1>3 DEF Size
  <2>2. (left - 1) \div 2 = n
    BY <2>1, Half
  <2>3. k = n
    <3> HIDE DEF n
    <3>1. n \in Int
      BY DEF n
    <3>2. QED
      BY <2>2, <3>1 DEF AtMost
  <2>4. QED
    BY <2>3
<1>4. w = [i \in 1 .. k |-> list[i]]
  BY DEF Whole
<1> HIDE DEF k, m, w
<1>5. 1 .. k = 1 .. m
  BY <1>2
<1>6. w = [i \in 1 .. m |-> list[i]]
  BY <1>4, <1>5
<1>7. Len(w) = m /\ DOMAIN w = 1 .. m
  BY <1>2, <1>6, FunctionLen
<1>8. ASSUME n = 0 PROVE w = <<>>
  <2>1. m = 0
    BY <1>2, <1>8
  <2>2. w \in Seq({w[i] : i \in 1 .. m}) /\ Len(w) = 0
    BY <1>2, <1>6, <1>7, <2>1, FunctionLen
  <2>3. QED
    BY <2>2, EmptySeq
<1>9. QED
  BY <1>2, <1>3, <1>6, <1>7, <1>8 DEF w

\* The two ways a result reaches the client.
LEMMA ResultForms ==
  ASSUME mode \in {"grpc", "stdio"}, cfg.bytes \in Int,
         NEW list, Len(list) \in Nat, DOMAIN list = 1 .. Len(list),
         Len(list) = 0 => list = <<>>,
         NEW count, NEW a \in Results(list, count)
  PROVE  (ShowsFirst(a, list, count) /\ Success(a)) \/ SplitOff(a, list)
<1>1. Size(list) \in Nat /\ Size(list) > 0
  BY DEF Size
<1>2. CASE mode = "grpc"
  <2>1. a = Built(list, count)
    BY <1>2 DEF Results
  <2>2. /\ a.is_error = FALSE /\ a.message = FALSE /\ a.outcome = "OK" /\ a.shown = list
        /\ a.count = count /\ a.cut = FALSE
    BY <2>1 DEF Built
  <2>3. Len(list) \in 0 .. Len(list)
    OBVIOUS
  <2>4. ShowsFirst(a, list, count)
    BY <2>2, <2>3 DEF ShowsFirst
  <2>5. QED
    BY <1>2, <2>2, <2>4 DEF Success
<1>3. CASE mode = "stdio" /\ a = Ok(list, count)
  <2> DEFINE left == Left(Size(list))
             cut == Cut(Size(list))
  <2>1. /\ a.is_error = FALSE /\ a.message = FALSE /\ a.outcome = "result"
        /\ a.shown = Whole(list, left) /\ a.count = Told(count, left) /\ a.cut = cut
        /\ a.kept = IF cut THEN left + Mark ELSE left
    BY <1>3 DEF Ok
  <2>2. /\ cut \in BOOLEAN /\ left \in Nat /\ (~cut => left = Size(list))
        /\ cfg.bytes >= 0 => IF cut THEN left = cfg.bytes ELSE left <= cfg.bytes
    BY <1>1 DEF Left, Cut
  <2>3. left = 0 => cut
    BY <1>1, <2>2
  <2> HIDE DEF left, cut
  <2>4. a.count = count \/ (a.cut /\ a.count = Untold)
    BY <2>1, <2>2, <2>3 DEF Told
  <2>5. ShowsFirst(a, list, count)
    <3>1. /\ Len(a.shown) \in 0 .. Len(list) /\ DOMAIN a.shown = 1 .. Len(a.shown)
          /\ \A i \in DOMAIN a.shown : a.shown[i] = list[i]
          /\ ~a.cut => Len(a.shown) = Len(list)
          /\ Len(list) = 0 => a.shown = <<>>
      BY <2>1, <2>2, WholeFirst
    <3>2. QED
      BY <2>1, <2>2, <2>4, <3>1 DEF ShowsFirst
  <2>6. Success(a)
    <3>1. cfg.bytes >= 0 => \/ a.kept <= cfg.bytes /\ ~a.cut
                            \/ a.kept = cfg.bytes + Mark /\ a.cut
      BY <2>1, <2>2
    <3>2. QED
      BY <1>3, <2>1, <3>1 DEF Success
  <2>7. QED
    BY <2>5, <2>6
<1>4. CASE mode = "stdio" /\ a \in Split(Size(list))
  <2>1. /\ req.tool \in Needing /\ Cut(Size(list)) /\ cfg.bytes > 0
        /\ a = Refusal("INTERNAL_ERROR", FALSE)
    BY <1>4 DEF Split
  <2>2. QED
    BY <1>4, <2>1 DEF SplitOff, Cut
<1>5. QED
  BY <1>2, <1>3, <1>4 DEF Results

\* So a result of a list is a result, or else a refusal.
LEMMA ResultAnswers ==
  ASSUME TypeOK, NEW list, Len(list) \in Nat, DOMAIN list = 1 .. Len(list),
         Len(list) = 0 => list = <<>>,
         NEW count \in 0 .. MaxItems, NEW a \in Results(list, count)
  PROVE  Refused(a) \/ Resulted(a)
<1>1. mode \in {"grpc", "stdio"} /\ cfg.bytes \in Int
  BY ToolAssumption DEF TypeOK, IntOf
<1>2. (ShowsFirst(a, list, count) /\ Success(a)) \/ SplitOff(a, list)
  BY <1>1, ResultForms
<1>3. SplitOff(a, list) => Refused(a)
  BY DEF SplitOff, Refused, Refusal, Outcomes
<1>4. QED
  BY <1>2, <1>3 DEF Resulted

\* The lists of no item and of one.
LEMMA ShortLists ==
  /\ Len(<<>>) = 0 /\ DOMAIN <<>> = 1 .. Len(<<>>) /\ Len(<<>>) \in Nat
  /\ \A x : Len(<<x>>) = 1 /\ DOMAIN <<x>> = 1 .. Len(<<x>>) /\ <<x>>[1] = x
  /\ 0 \in 0 .. MaxItems /\ 1 \in 0 .. MaxItems
<1>1. \A x : Len(<<x>>) = 1 /\ DOMAIN <<x>> = 1 .. 1 /\ <<x>>[1] = x
  OBVIOUS
<1>2. QED
  BY <1>1, ToolAssumption

\* An item by item image of a sequence has its length.
LEMMA ImageLists ==
  ASSUME NEW S, NEW s \in Seq(S), NEW f, f = [i \in DOMAIN s |-> f[i]]
  PROVE  /\ Len(s) \in Nat /\ DOMAIN s = 1 .. Len(s)
         /\ Len(f) = Len(s) /\ DOMAIN f = 1 .. Len(s)
         /\ Len(f) = 0 => f = <<>>
<1>1. Len(s) \in Nat /\ DOMAIN s = 1 .. Len(s)
  OBVIOUS
<1>2. Len(f) = Len(s) /\ f \in Seq({f[i] : i \in 1 .. Len(s)})
  BY <1>1, FunctionLen
<1>3. Len(f) = 0 => f = <<>>
  BY <1>2, EmptySeq
<1>4. QED
  BY <1>1, <1>2, <1>3

\* A selection is a list, empty if nothing is selected.
LEMMA PickedList ==
  ASSUME NEW list, Len(list) \in Nat, DOMAIN list = 1 .. Len(list),
         NEW at \in SUBSET DOMAIN list
  PROVE  LET p == Picked(list, at) IN
         Len(p) \in Nat /\ DOMAIN p = 1 .. Len(p) /\ (Len(p) = 0 => p = <<>>)
<1> DEFINE p == Picked(list, at)
           n == Cardinality(at)
<1>1. n \in Nat /\ Len(p) = n /\ DOMAIN p = 1 .. n
  BY PickedLen
<1>2. p = [i \in 1 .. n |-> p[i]]
  BY DEF Picked
<1> HIDE DEF p, n
<1>3. p \in Seq({p[i] : i \in 1 .. n})
  BY <1>1, <1>2, FunctionLen
<1>4. Len(p) = 0 => p = <<>>
  BY <1>3, EmptySeq
<1>5. QED
  BY <1>1, <1>4 DEF p

\* The number of topics that are not in error, and what the filter lets through.
LEMMA ListedTopics ==
  ASSUME NEW items \in Seq([name : Topics, err : BOOLEAN]), Len(items) \in 0 .. MaxItems
  PROVE  LET topics == ListTopics(items)
             through == Filtered(topics)
         IN
         /\ Len(topics) = Cardinality(Healthy(items))
         /\ DOMAIN topics = 1 .. Len(topics) /\ Len(topics) \in 0 .. MaxItems
         /\ Len(through) \in Nat /\ DOMAIN through = 1 .. Len(through)
         /\ Len(through) = 0 => through = <<>>
<1> DEFINE at == Healthy(items)
           list == Picked(items, at)
           topics == ListTopics(items)
<1>1. Len(items) \in Nat /\ DOMAIN items = 1 .. Len(items)
  OBVIOUS
<1>2. at \in SUBSET DOMAIN items
  BY DEF Healthy
<1>3. /\ Cardinality(at) \in 0 .. Len(items) /\ DOMAIN list = 1 .. Cardinality(at)
  <2> HIDE DEF at
  <2>1. QED
    BY <1>1, <1>2, PickedLen
<1>4. topics = [i \in 1 .. Cardinality(at) |-> list[i].name]
  BY <1>3 DEF ListTopics, Names
<1> HIDE DEF topics, list, at
<1>5. /\ Len(topics) = Cardinality(at) /\ DOMAIN topics = 1 .. Len(topics)
      /\ topics \in Seq({topics[i] : i \in 1 .. Cardinality(at)})
  BY <1>3, <1>4, FunctionLen
<1>6. Len(topics) \in 0 .. MaxItems /\ Len(topics) \in Nat
  BY <1>3, <1>5, ToolAssumption
<1>7. Len(topics) = 0 => topics = <<>>
  BY <1>5, EmptySeq
<1>8. Passing(topics) \in SUBSET DOMAIN topics
  BY DEF Passing
<1>9. LET p == Picked(topics, Passing(topics)) IN
      Len(p) \in Nat /\ DOMAIN p = 1 .. Len(p) /\ (Len(p) = 0 => p = <<>>)
  BY <1>5, <1>6, <1>8, PickedList
<1>10. Filtered(topics) = topics \/ Filtered(topics) = Picked(topics, Passing(topics))
  BY DEF Filtered
<1>11. QED
  BY <1>5, <1>6, <1>7, <1>9, <1>10 DEF topics, at

\* Every handled call answers with a refusal or with a result.
LEMMA HandleAnswers ==
  ASSUME TypeOK, Handle
  PROVE  Refused(answer') \/ Resulted(answer')
<1>1. \A o \in Outcomes \ {"OK", "result"} : Refused(Refusal(o, o = "INTERNAL"))
  BY DEF Refused
<1>2. \A o \in {"NOT_FOUND", "INVALID_ARGUMENT", "isError", "INTERNAL_ERROR"} :
        Refused(Refusal(o, FALSE))
  <2>1. \A o \in {"NOT_FOUND", "INVALID_ARGUMENT", "isError", "INTERNAL_ERROR"} :
          o \in Outcomes \ {"OK", "result"} /\ (o = "INTERNAL") = FALSE
    BY DEF Outcomes
  <2>2. QED
    BY <1>1, <2>1
<1>3. Refused(Refusal("INTERNAL", TRUE))
  <2>1. "INTERNAL" \in Outcomes \ {"OK", "result"} /\ ("INTERNAL" = "INTERNAL") = TRUE
    BY DEF Outcomes
  <2>2. QED
    BY <1>1, <2>1
<1>4. CASE RejectTool \/ RejectMissing \/ RejectMistyped
  BY <1>2, <1>4 DEF RejectTool, RejectMissing, RejectMistyped
<1>5. CASE Consume
  <2> DEFINE items == got'.items
  <2>1. items \in Seq({"text", "binary"}) /\ Len(items) \in 0 .. MaxItems
    BY <1>5, ConsumeStep
  <2>2. /\ Len(Replaced(items)) \in Nat /\ DOMAIN Replaced(items) = 1 .. Len(Replaced(items))
        /\ Len(Replaced(items)) = 0 => Replaced(items) = <<>>
    BY <2>1, ImageLists DEF Replaced
  <2>3. answer' \in ConsumeAnswers(items)
    BY <1>5 DEF Consume
  <2> HIDE DEF items
  <2>4. CASE answer' = Refusal("isError", FALSE)
    BY <1>2, <2>4
  <2>5. CASE answer' \in Results(Replaced(items), Len(items))
    BY <2>1, <2>2, <2>5, ResultAnswers
  <2>6. QED
    BY <2>3, <2>4, <2>5 DEF ConsumeAnswers
<1>6. CASE Produced \/ ListConsumerGroups \/ ConsumerGroupLag
  <2>1. answer' \in Results(<<>>, 0)
    BY <1>6 DEF Produced, ListConsumerGroups, ConsumerGroupLag
  <2>2. QED
    BY <2>1, ShortLists, ResultAnswers
<1>7. CASE ProduceFailed
  BY <1>2, <1>3, <1>7 DEF ProduceFailed
<1>8. CASE ListTopicsCall
  <2>1. /\ got'.items \in Seq([name : Topics, err : BOOLEAN])
        /\ Len(got'.items) \in 0 .. MaxItems
    BY <1>8, FetchedItems DEF ListTopicsCall
  <2> DEFINE topics == ListTopics(got'.items)
  <2>2. /\ Len(topics) \in 0 .. MaxItems
        /\ Len(Filtered(topics)) \in Nat /\ DOMAIN Filtered(topics) = 1 .. Len(Filtered(topics))
        /\ Len(Filtered(topics)) = 0 => Filtered(topics) = <<>>
    BY <2>1, ListedTopics
  <2>3. answer' \in Results(Filtered(topics), Len(topics))
    BY <1>8 DEF ListTopicsCall
  <2> HIDE DEF topics
  <2>4. QED
    BY <2>2, <2>3, ResultAnswers
<1>9. CASE DescribeTopic
  <2>1. answer' \in Results(<<Described(got'.answered)>>, 1)
    BY <1>9 DEF DescribeTopic
  <2>2. \A x : Len(<<x>>) \in Nat /\ DOMAIN <<x>> = 1 .. Len(<<x>>) /\ Len(<<x>>) # 0
    BY ShortLists
  <2>3. QED
    BY <2>1, <2>2, ShortLists, ResultAnswers
<1>10. CASE ClusterMetadata
  <2> DEFINE items == got'.items
  <2>1. /\ items \in Seq([id : 1 .. MaxItems, replied : BOOLEAN])
        /\ Len(items) \in 0 .. MaxItems
    BY <1>10, FetchedItems DEF ClusterMetadata
  <2>2. /\ Len(GetBrokers(items)) \in Nat
        /\ DOMAIN GetBrokers(items) = 1 .. Len(GetBrokers(items))
        /\ Len(GetBrokers(items)) = 0 => GetBrokers(items) = <<>>
    BY <2>1, ImageLists DEF GetBrokers
  <2>3. answer' \in Results(GetBrokers(items), Len(items))
    BY <1>10 DEF ClusterMetadata
  <2> HIDE DEF items
  <2>4. QED
    BY <2>1, <2>2, <2>3, ResultAnswers
<1>11. QED
  BY <1>4, <1>5, <1>6, <1>7, <1>8, <1>9, <1>10 DEF Handle

\* A refusal carries the flag and no data.
LEMMA RefusedHas ==
  ASSUME NEW a, Refused(a)
  PROVE  /\ a.is_error = TRUE /\ a.outcome \in Outcomes \ {"OK", "result"}
         /\ a.message = (a.outcome = "INTERNAL")
         /\ a.shown = <<>> /\ a.count = 0
BY DEF Refused, Refusal

\* A result has the one outcome of success, and a count or none.
LEMMA ResultedHas ==
  ASSUME NEW a, Resulted(a)
  PROVE  /\ Success(a) /\ a.outcome \in {"OK", "result"}
         /\ a.count \in Untold .. MaxItems
<1>1. PICK list, count : count \in 0 .. MaxItems /\ ShowsFirst(a, list, count) /\ Success(a)
  BY DEF Resulted
<1>2. a.count \in Untold .. MaxItems
  BY <1>1, ToolAssumption DEF ShowsFirst, Untold
<1>3. QED
  BY <1>1, <1>2 DEF Success

-----------------------------------------------------------------------------
(* Types. *)
\* The initial states are typed.
LEMMA StartTyped == Init => CInv
<1> SUFFICES ASSUME Init PROVE CInv
  OBVIOUS
<1>1. cfg \in [max : IntOf(Half32), bytes : IntOf(Half32)]
  BY LimitsFit DEF Init
<1>2. req \in Requests
  BY DEF Init, Requests
<1>3. asked = {} /\ mode \in {"grpc", "stdio"} /\ pc = "idle"
  BY DEF Init
<1>4. got.answered \in BOOLEAN /\ got.refused \in BOOLEAN /\ Len(got.items) \in 0 .. MaxItems
  BY ToolAssumption DEF Init, Silent
<1>5. answer.outcome \in Outcomes /\ answer.count \in Untold .. MaxItems
  BY ToolAssumption DEF Init, NoAnswer, Refusal, Outcomes, Untold
<1>6. QED
  BY <1>1, <1>2, <1>3, <1>4, <1>5 DEF CInv, TypeOK, Waiting

\* A call that arrives keeps the types.
LEMMA RequestTyped ==
  ASSUME CInv, NEW r \in Requests, Request(r)
  PROVE  CInv'
<1>1. got'.answered \in BOOLEAN /\ got'.refused \in BOOLEAN /\ Len(got'.items) \in 0 .. MaxItems
  BY ToolAssumption DEF Request, Silent
<1>2. answer'.outcome \in Outcomes /\ answer'.count \in Untold .. MaxItems
  BY ToolAssumption DEF Request, NoAnswer, Refusal, Outcomes, Untold
<1>3. Waiting' /\ asked' = {}
  BY DEF Request, Waiting, Silent, NoAnswer, Refusal
<1>4. QED
  BY <1>1, <1>2, <1>3 DEF CInv, TypeOK, Request

\* A call that is handled keeps the types.
LEMMA HandleTyped ==
  ASSUME CInv, Handle
  PROVE  CInv'
<1>1. pc = "handle" /\ pc' = "idle" /\ UNCHANGED <<mode, cfg, req>>
  BY HandleLeaves
<1>2. /\ asked' \subseteq [partition : IntOf(Half32), offset : IntOf(Half64), max : IntOf(Half32)]
      /\ got'.answered \in BOOLEAN /\ got'.refused \in BOOLEAN
      /\ Len(got'.items) \in 0 .. MaxItems
  <2>1. CASE Consume
    BY <2>1, ConsumeStep DEF CInv
  <2>2. CASE ~Consume
    BY <2>2, OtherSteps DEF CInv, TypeOK
  <2>3. QED
    BY <2>1, <2>2
<1>3. answer'.outcome \in Outcomes /\ answer'.count \in Untold .. MaxItems
  <2>1. CASE Refused(answer')
    <3>1. 0 \in Untold .. MaxItems
      BY ToolAssumption DEF Untold
    <3>2. QED
      BY <2>1, <3>1, RefusedHas
  <2>2. CASE Resulted(answer')
    BY <2>2, ResultedHas DEF Outcomes
  <2>3. QED
    BY <2>1, <2>2, HandleAnswers DEF CInv
<1>4. QED
  BY <1>1, <1>2, <1>3 DEF CInv, TypeOK, Waiting

\* The invariant the other theorems use.
LEMMA CallInvariant == Spec => []CInv
<1>1. CInv /\ [Next]_vars => CInv'
  <2>1. CInv /\ UNCHANGED vars => CInv'
    BY DEF CInv, TypeOK, Waiting, vars
  <2>2. QED
    BY <2>1, RequestTyped, HandleTyped DEF Next
<1>2. QED
  BY <1>1, StartTyped, PTL DEF Spec

(***************************************************************************)
(* Whatever numbers a client or a configuration file gives, and whatever   *)
(* the widths, the Kafka layer is called with numbers of those widths, and *)
(* every answer has one of the statuses of its front end.                  *)
(***************************************************************************)
THEOREM TypeCorrect == Spec => []TypeOK
<1>1. CInv => TypeOK
  BY DEF CInv
<1>2. QED
  BY <1>1, CallInvariant, PTL

-----------------------------------------------------------------------------
(* Status, limits, arguments. *)
(***************************************************************************)
(* The status of a call, or the kind of its answer, and the flag in the    *)
(* response never tell the client different things, through neither front  *)
(* end, for no tool; an error shows no data; and error_message is set for  *)
(* a message that could not be produced and nothing else.                  *)
(***************************************************************************)
THEOREM StatusAndFlag == Spec => []StatusAgrees
<1>1. Init => StatusAgrees
  BY DEF Init, StatusAgrees, Answered, NoAnswer, Refusal
<1>2. CInv /\ StatusAgrees /\ [Next]_vars => StatusAgrees'
  <2> SUFFICES ASSUME CInv, StatusAgrees, [Next]_vars PROVE StatusAgrees'
    OBVIOUS
  <2>1. CASE Handle
    <3>1. CASE Refused(answer')
      BY <3>1, RefusedHas DEF StatusAgrees
    <3>2. CASE Resulted(answer')
      <4>1. Success(answer')
        BY <3>2, ResultedHas
      <4>2. QED
        BY <4>1 DEF StatusAgrees, Success
    <3>3. QED
      BY <2>1, <3>1, <3>2, HandleAnswers DEF CInv
  <2>2. ASSUME NEW r \in Requests, Request(r) PROVE StatusAgrees'
    BY <2>2 DEF Request, StatusAgrees, Answered
  <2>3. CASE UNCHANGED vars
    BY <2>3 DEF vars, StatusAgrees, Answered
  <2>4. QED
    BY <2>1, <2>2, <2>3 DEF Next
<1>3. QED
  BY <1>1, <1>2, CallInvariant, PTL DEF Spec

\* A number that fits is read alike by both front ends, and by stdio any number up
\* to a multiple of 2^w.
LEMMA ReadAlike ==
  ASSUME NEW half \in Nat \ {0}, NEW v \in Given, NEW def
  PROVE  /\ v \in IntOf(half) => GrpcInt(v, def, half) = v /\ JsonInt(v, def, half) = v
         /\ v = Absent => GrpcInt(v, def, half) = def /\ JsonInt(v, def, half) = def
         /\ v \in Numbers => /\ JsonInt(v, def, half) \in IntOf(half)
                            /\ (JsonInt(v, def, half) - v) % (2 * half) = 0
         /\ v \notin IntOf(half) => GrpcInt(v, def, half) = def
<1>1. v \in IntOf(half) => v \in Numbers
  BY ToolAssumption DEF Given, IntOf
<1>2. v \in Numbers => v \in Int /\ v # Absent /\ v # Truth
  BY ToolAssumption
<1>3. v \in Numbers => /\ Wrap(v, half) \in IntOf(half)
                       /\ v \in IntOf(half) => Wrap(v, half) = v
                       /\ (Wrap(v, half) - v) % (2 * half) = 0
  BY <1>2, WrapFits
<1>4. v = Absent => v \notin Numbers
  BY <1>2
<1>5. v \in Numbers => JsonInt(v, def, half) = Wrap(v, half)
  BY <1>2 DEF JsonInt
<1>6. v = Absent => JsonInt(v, def, half) = def
  BY DEF JsonInt
<1>7. QED
  BY <1>1, <1>2, <1>3, <1>4, <1>5, <1>6 DEF GrpcInt

\* The number of messages asked for is at most what the configuration allows, and
\* at most what the client asked for, if that number fits.
LEMMA MaxWithin ==
  ASSUME CInv, Consume
  PROVE  /\ Arguments(req).max <= cfg.max
         /\ req.max \in Numbers /\ req.max \in IntOf(Half32) => Arguments(req).max <= req.max
<1>1. /\ cfg.max \in Int /\ mode \in {"grpc", "stdio"}
      /\ mode = "stdio" => req.max # Garbled
  <2>1. cfg.max \in Int
    BY ToolAssumption DEF CInv, TypeOK, IntOf
  <2>2. QED
    BY <2>1 DEF CInv, TypeOK, Consume, Serves, Mistyped
<1>2. \A a \in Int : AtMost(a, cfg.max) <= cfg.max /\ AtMost(a, cfg.max) <= a
  BY <1>1 DEF AtMost
<1>3. req.max \in Given
  BY RequestArguments DEF CInv, TypeOK
<1>4. IntOf(Half32) \subseteq Int /\ DefaultMax \in Int
  BY ToolAssumption DEF IntOf
<1>5. CASE mode = "grpc"
  <2> DEFINE k == GrpcInt(req.max, DefaultMax, Half32)
  <2>1. k \in Int /\ (req.max \in Numbers /\ req.max \in IntOf(Half32) => k = req.max)
    BY <1>4 DEF GrpcInt
  <2>2. Arguments(req).max = AtMost(k, cfg.max)
    BY <1>5 DEF Arguments, GrpcArguments
  <2> HIDE DEF k
  <2>3. QED
    BY <1>2, <2>1, <2>2
<1>6. CASE mode = "stdio"
  <2> DEFINE k == JsonInt(req.max, cfg.max, Half32)
  <2>1. req.max \in Numbers => k \in IntOf(Half32)
    BY <1>3, ReadAlike, ToolAssumption
  <2>2. req.max \in IntOf(Half32) => k = req.max
    BY <1>3, ReadAlike, ToolAssumption
  <2>3. req.max \notin Numbers => k = cfg.max \/ k = 1
    BY <1>1, <1>3, <1>6 DEF JsonInt, Given
  <2>4. Arguments(req).max = AtMost(k, cfg.max)
    BY <1>1, <1>6 DEF Arguments, StdioArguments
  <2> HIDE DEF k
  <2>5. k \in Int
    BY <1>1, <1>4, <2>1, <2>3
  <2>6. QED
    BY <1>2, <2>2, <2>4, <2>5
<1>7. QED
  BY <1>1, <1>5, <1>6

(***************************************************************************)
(* No number a client or the configuration gives, whatever is left of it   *)
(* after conversion, makes a call read more messages than both allow, or   *)
(* makes a stdio result longer than the configured size and the mark, or   *)
(* longer than that size without the mark.                                 *)
(***************************************************************************)
THEOREM LimitsHold == Spec => []WithinLimits
<1>1. Init => WithinLimits
  BY DEF Init, WithinLimits, Answered, NoAnswer, Refusal
<1>2. CInv /\ WithinLimits /\ [Next]_vars => WithinLimits'
  <2> SUFFICES ASSUME CInv, WithinLimits, [Next]_vars PROVE WithinLimits'
    OBVIOUS
  <2>1. CASE Handle
    <3>1. pc = "handle" /\ UNCHANGED <<mode, cfg, req>> /\ mode \in {"grpc", "stdio"}
      BY <2>1, HandleLeaves DEF CInv, TypeOK
    <3>2. ASSUME asked' # {}, Len(got'.items) > 0
          PROVE  /\ Len(got'.items) <= cfg.max
                 /\ req.max \in Numbers /\ req.max \in IntOf(Half32)
                      => Len(got'.items) <= req.max
      <4>1. Consume
        BY <2>1, <3>1, <3>2, OtherSteps DEF CInv, Waiting
      <4>2. /\ Len(got'.items) \in 0 .. MaxItems /\ Len(got'.items) <= Arguments(req).max
            /\ Arguments(req).max \in IntOf(Half32)
        BY <3>2, <4>1, ConsumeStep DEF CInv
      <4>3. /\ Len(got'.items) \in Int /\ Arguments(req).max \in Int /\ cfg.max \in Int
            /\ IntOf(Half32) \subseteq Int
        BY <4>2, ToolAssumption DEF CInv, TypeOK, IntOf
      <4>4. QED
        BY <4>1, <4>2, <4>3, MaxWithin
    <3>3. ASSUME answer'.outcome = "result", cfg.bytes >= 0
          PROVE  \/ answer'.kept <= cfg.bytes /\ ~answer'.cut
                 \/ answer'.kept = cfg.bytes + Mark /\ answer'.cut
      <4>1. Success(answer')
        BY <2>1, <3>3, HandleAnswers, RefusedHas, ResultedHas DEF CInv
      <4>2. mode = "stdio"
        BY <3>1, <3>3, <4>1 DEF Success
      <4>3. QED
        BY <3>3, <4>1, <4>2 DEF Success
    <3>4. QED
      BY <3>1, <3>2, <3>3 DEF WithinLimits
  <2>2. ASSUME NEW r \in Requests, Request(r) PROVE WithinLimits'
    BY <2>2 DEF Request, WithinLimits, Answered
  <2>3. CASE UNCHANGED vars
    BY <2>3 DEF vars, WithinLimits, Answered
  <2>4. QED
    BY <2>1, <2>2, <2>3 DEF Next
<1>3. QED
  BY <1>1, <1>2, CallInvariant, PTL DEF Spec

\* A number of a request that consume() was called with is the one PassedOn tells.
LEMMA NumberPassed ==
  ASSUME mode \in {"grpc", "stdio"}, NEW half \in Nat \ {0}, NEW v \in Given, NEW n,
         n = IF mode = "grpc" THEN GrpcInt(v, -1, half) ELSE JsonInt(v, -1, half)
  PROVE  PassedOn(v, half, n)
<1>1. v \in IntOf(half) => n = v
  BY ReadAlike
<1>2. v = Absent => n = -1
  BY ReadAlike
<1>3. mode = "grpc" /\ ~Fits(v, half) => n = -1
  BY ReadAlike DEF Fits
<1>4. mode = "stdio" /\ v \in Numbers => (n - v) % (2 * half) = 0
  BY ReadAlike
<1>5. QED
  BY <1>1, <1>2, <1>3, <1>4 DEF PassedOn

\* A read of no message is answered as a success, if the answer can be written.
LEMMA EmptyRead ==
  ASSUME CInv, Consume, got'.items = <<>>
  PROVE  /\ \/ answer'.outcome \in {"OK", "result"}
            \/ answer'.outcome = "INTERNAL_ERROR" /\ cfg.bytes > 0
         /\ answer'.shown = <<>> /\ answer'.count \in {0, Untold}
<1>1. mode \in {"grpc", "stdio"} /\ cfg.bytes \in Int
  BY ToolAssumption DEF CInv, TypeOK, IntOf
<1>2. answer' \in ConsumeAnswers(<<>>)
  BY DEF Consume
<1>3. ~Contains(<<>>, "binary") /\ Len(<<>>) = 0
  BY DEF Contains
<1>4. Replaced(<<>>) = <<>>
  <2>1. \A S : <<>> \in Seq(S)
    OBVIOUS
  <2>2. Len(Replaced(<<>>)) = 0 => Replaced(<<>>) = <<>>
    BY <2>1, ImageLists DEF Replaced
  <2>3. Len(Replaced(<<>>)) = Len(<<>>)
    BY <2>1, ImageLists DEF Replaced
  <2>4. QED
    BY <1>3, <2>2, <2>3
<1>5. answer' \in Results(<<>>, 0)
  BY <1>2, <1>3, <1>4 DEF ConsumeAnswers
<1>6. (ShowsFirst(answer', <<>>, 0) /\ Success(answer')) \/ SplitOff(answer', <<>>)
  BY <1>1, <1>5, ShortLists, ResultForms
<1>7. CASE ShowsFirst(answer', <<>>, 0) /\ Success(answer')
  BY <1>3, <1>7 DEF ShowsFirst, Success
<1>8. CASE SplitOff(answer', <<>>)
  BY <1>8 DEF SplitOff, Refusal
<1>9. QED
  BY <1>6, <1>7, <1>8

\* What consume_messages gives the Kafka layer of the numbers of a request.
LEMMA ConsumeReads ==
  ASSUME CInv, Consume
  PROVE  ArgumentsMeanTheSame'
<1> DEFINE a == Arguments(req)
<1>1. /\ mode \in {"grpc", "stdio"} /\ UNCHANGED <<mode, cfg, req>> /\ asked' = {a}
  BY DEF CInv, TypeOK, Consume, Serves, Handled
<1>2. req.partition \in Given /\ req.offset \in Given /\ req.max \in Given
  BY RequestArguments DEF CInv, TypeOK
<1>3. Half32 \in Nat \ {0} /\ Half64 \in Nat \ {0}
  BY ToolAssumption
<1>4. ASSUME Fits(req.partition, Half32), Fits(req.offset, Half64), req.max \in IntOf(Half32)
      PROVE  GrpcArguments(req) = StdioArguments(req)
  <2>1. GrpcInt(req.partition, -1, Half32) = JsonInt(req.partition, -1, Half32)
    BY <1>2, <1>3, <1>4, ReadAlike DEF Fits
  <2>2. GrpcInt(req.offset, -1, Half64) = JsonInt(req.offset, -1, Half64)
    BY <1>2, <1>3, <1>4, ReadAlike DEF Fits
  <2>3. GrpcInt(req.max, DefaultMax, Half32) = JsonInt(req.max, cfg.max, Half32)
    BY <1>2, <1>3, <1>4, ReadAlike
  <2>4. QED
    BY <2>1, <2>2, <2>3 DEF GrpcArguments, StdioArguments
<1>5. /\ a.partition = IF mode = "grpc" THEN GrpcInt(req.partition, -1, Half32)
                                        ELSE JsonInt(req.partition, -1, Half32)
      /\ a.offset = IF mode = "grpc" THEN GrpcInt(req.offset, -1, Half64)
                                     ELSE JsonInt(req.offset, -1, Half64)
  BY <1>1 DEF Arguments, GrpcArguments, StdioArguments
<1>6. a.partition < 0 => got'.items = <<>>
  BY ConsumeStep DEF CInv
<1> HIDE DEF a
<1>7. PassedOn(req.partition, Half32, a.partition)
  BY <1>1, <1>2, <1>3, <1>5, NumberPassed
<1>8. PassedOn(req.offset, Half64, a.offset)
  BY <1>1, <1>2, <1>3, <1>5, NumberPassed
<1>9. a.partition < 0 =>
        /\ \/ answer'.outcome \in {"OK", "result"}
           \/ answer'.outcome = "INTERNAL_ERROR" /\ cfg.bytes > 0
        /\ answer'.shown = <<>> /\ answer'.count \in {0, Untold}
  BY <1>6, EmptyRead
<1>10. /\ GrpcArguments(req)' = GrpcArguments(req) /\ StdioArguments(req)' = StdioArguments(req)
       /\ \A n : PassedOn(req.partition, Half32, n)' <=> PassedOn(req.partition, Half32, n)
       /\ \A n : PassedOn(req.offset, Half64, n)' <=> PassedOn(req.offset, Half64, n)
  BY <1>1 DEF GrpcArguments, StdioArguments, PassedOn
<1>11. QED
  BY <1>1, <1>4, <1>7, <1>8, <1>9, <1>10 DEF ArgumentsMeanTheSame

(***************************************************************************)
(* For any widths and any numbers, the partition, the offset and the limit *)
(* of a read mean the same through both front ends if they fit or are left *)
(* out (the limit if it is given); one that does not fit is -1 in gRPC and *)
(* in stdio the number itself up to a multiple of 2^w; and a read of a     *)
(* negative partition, whichever way the number came about, tells the      *)
(* client that there is no message, and not that it was refused.           *)
(***************************************************************************)
THEOREM FrontEndsAgree == Spec => []ArgumentsMeanTheSame
<1>1. Init => ArgumentsMeanTheSame
  BY DEF Init, ArgumentsMeanTheSame
<1>2. CInv /\ ArgumentsMeanTheSame /\ [Next]_vars => ArgumentsMeanTheSame'
  <2> SUFFICES ASSUME CInv, ArgumentsMeanTheSame, [Next]_vars PROVE ArgumentsMeanTheSame'
    OBVIOUS
  <2>1. CASE Consume
    BY <2>1, ConsumeReads
  <2>2. ASSUME Handle, ~Consume PROVE ArgumentsMeanTheSame'
    <3>1. asked' = {}
      BY <2>2, HandleLeaves, OtherSteps DEF CInv, Waiting
    <3>2. QED
      BY <3>1 DEF ArgumentsMeanTheSame
  <2>3. ASSUME NEW r \in Requests, Request(r) PROVE ArgumentsMeanTheSame'
    BY <2>3 DEF Request, ArgumentsMeanTheSame
  <2>4. CASE UNCHANGED vars
    BY <2>4 DEF vars, ArgumentsMeanTheSame, GrpcArguments, StdioArguments, PassedOn
  <2>5. QED
    BY <2>1, <2>2, <2>3, <2>4 DEF Next
<1>3. QED
  BY <1>1, <1>2, CallInvariant, PTL DEF Spec

-----------------------------------------------------------------------------
(* What an answer shows. *)
\* A finite set of positions can be put in order: each goes where its rank says.
LEMMA OrderExists ==
  ASSUME NEW K \in SUBSET Nat, IsFiniteSet(K)
  PROVE  \E f \in [1 .. Cardinality(K) -> K] : \A i, j \in DOMAIN f : i < j => f[i] < f[j]
<1> DEFINE n == Cardinality(K)
           Upto(k) == {j \in K : j <= k}
           rank == [k \in K |-> Cardinality(Upto(k))]
<1>1. n \in Nat
  BY FS_CardinalityType
<1>2. ASSUME NEW k \in K
      PROVE  IsFiniteSet(Upto(k)) /\ Cardinality(Upto(k)) \in 1 .. n
  <2>1. IsFiniteSet(Upto(k)) /\ Cardinality(Upto(k)) <= n
    BY FS_Subset
  <2>2. Cardinality(Upto(k)) \in Nat
    BY <2>1, FS_CardinalityType
  <2>3. k \in Upto(k)
    OBVIOUS
  <2>4. Cardinality(Upto(k)) # 0
    <3> HIDE DEF Upto
    <3>1. QED
      BY <2>1, <2>3, FS_EmptySet
  <2>5. QED
    BY <1>1, <2>1, <2>2, <2>4
<1>3. ASSUME NEW k \in K, NEW l \in K, k < l
      PROVE  rank[k] < rank[l]
  <2>1. Upto(k) \subseteq Upto(l) /\ l \in Upto(l) /\ l \notin Upto(k)
    <3>1. \A j \in K : j \in Int
      OBVIOUS
    <3>2. \A j \in K : j <= k => j <= l
      BY <1>3, <3>1
    <3>3. l <= l /\ ~(l <= k)
      BY <1>3, <3>1
    <3>4. QED
      BY <3>2, <3>3
  <2> HIDE DEF Upto
  <2>2. Upto(k) # Upto(l)
    BY <2>1
  <2>3. Cardinality(Upto(k)) <= Cardinality(Upto(l)) /\ Cardinality(Upto(k)) # Cardinality(Upto(l))
    BY <1>2, <2>1, <2>2, FS_Subset
  <2>4. Cardinality(Upto(k)) \in Int /\ Cardinality(Upto(l)) \in Int
    BY <1>1, <1>2
  <2>5. QED
    BY <2>3, <2>4
<1>4. rank \in [K -> 1 .. n]
  BY <1>2
<1> HIDE DEF rank
<1>5. ASSUME NEW k \in K, NEW l \in K, rank[k] = rank[l]
      PROVE  k = l
  BY <1>1, <1>3, <1>4, <1>5
<1>6. rank \in Injection(K, 1 .. n)
  BY <1>4, <1>5 DEF Injection, IsInjective
<1>7. rank \in Surjection(K, 1 .. n)
  <2>1. IsFiniteSet(1 .. n) /\ Cardinality(1 .. n) = n
    BY <1>1, FS_Interval
  <2>2. QED
    BY <1>6, <2>1, FS_Injection
<1>8. \A i \in 1 .. n : \E k \in K : rank[k] = i
  BY <1>7 DEF Surjection
<1> DEFINE f == [i \in 1 .. n |-> CHOOSE k \in K : rank[k] = i]
<1>9. \A i \in 1 .. n : f[i] \in K /\ rank[f[i]] = i
  BY <1>8
<1>10. f \in [1 .. n -> K]
  BY <1>9
<1> HIDE DEF f
<1>11. ASSUME NEW i \in 1 .. n, NEW j \in 1 .. n, i < j
       PROVE  f[i] < f[j]
  <2>1. f[i] \in K /\ f[j] \in K /\ rank[f[i]] = i /\ rank[f[j]] = j
    BY <1>9
  <2>2. i \in Int /\ j \in Int /\ f[i] \in Int /\ f[j] \in Int
    <3> HIDE DEF n
    <3>1. i \in Int /\ j \in Int
      BY <1>1
    <3>2. f[i] \in Nat /\ f[j] \in Nat
      BY <2>1
    <3>3. QED
      BY <3>1, <3>2
  <2>3. f[j] < f[i] => rank[f[j]] < rank[f[i]]
    BY <1>3, <2>1
  <2>4. QED
    BY <1>11, <2>1, <2>2, <2>3
<1>12. QED
  BY <1>10, <1>11

\* InOrder() reaches every position.
LEMMA OrderComplete ==
  ASSUME NEW K \in SUBSET Nat, IsFiniteSet(K)
  PROVE  /\ InOrder(K) \in [1 .. Cardinality(K) -> K]
         /\ \A k \in K : \E i \in 1 .. Cardinality(K) : InOrder(K)[i] = k
<1> DEFINE n == Cardinality(K)
           f == InOrder(K)
<1>1. n \in Nat
  BY FS_CardinalityType
<1>2. f \in [1 .. n -> K] /\ \A i, j \in DOMAIN f : i < j => f[i] < f[j]
  BY OrderExists DEF InOrder
<1> HIDE DEF f
<1>3. ASSUME NEW i \in 1 .. n, NEW j \in 1 .. n, f[i] = f[j]
      PROVE  i = j
  <2>1. f[i] \in Nat /\ f[j] \in Nat
    BY <1>2
  <2>2. ~(i < j) /\ ~(j < i)
    BY <1>2, <1>3, <2>1
  <2>3. QED
    BY <1>1, <2>2
<1>4. f \in Injection(1 .. n, K)
  BY <1>2, <1>3 DEF Injection, IsInjective
<1>5. IsFiniteSet(1 .. n) /\ Cardinality(1 .. n) = n
  BY <1>1, FS_Interval
<1>6. f \in Surjection(1 .. n, K)
  BY <1>4, <1>5, FS_Injection
<1>7. QED
  BY <1>2, <1>6 DEF f, Surjection

\* A selection has the selected items and no others.
LEMMA PickedContains ==
  ASSUME NEW list, Len(list) \in Nat, DOMAIN list = 1 .. Len(list),
         NEW at \in SUBSET DOMAIN list
  PROVE  \A x : (\E i \in DOMAIN Picked(list, at) : Picked(list, at)[i] = x)
                <=> \E k \in at : list[k] = x
<1>1. at \in SUBSET Nat /\ IsFiniteSet(at)
  BY PickedLen
<1>2. /\ InOrder(at) \in [1 .. Cardinality(at) -> at]
      /\ \A k \in at : \E i \in 1 .. Cardinality(at) : InOrder(at)[i] = k
  BY <1>1, OrderComplete
<1>3. /\ DOMAIN Picked(list, at) = 1 .. Cardinality(at)
      /\ \A i \in 1 .. Cardinality(at) : Picked(list, at)[i] = list[InOrder(at)[i]]
  BY DEF Picked
<1>4. QED
  BY <1>2, <1>3

\* The names of a request that a handler is given.
LEMMA RequestName ==
  ASSUME NEW r \in Requests
  PROVE  r.name \in Topics \cup {Absent, Empty, Garbled}
BY DEF Requests, Plain, Asking

\* ShowsWhatKafkaSaid after a step, taken apart.
LEMMA ShownByTool ==
  /\ answer'.is_error = TRUE /\ (got'.answered => Withheld') => ShowsWhatKafkaSaid'
  /\ answer'.is_error = FALSE =>
       /\ req'.tool = "consume_messages" /\ ShowsMessages' => ShowsWhatKafkaSaid'
       /\ req'.tool = "listTopics" /\ ShowsTopics' => ShowsWhatKafkaSaid'
       /\ req'.tool = "cluster_metadata" /\ ShowsBrokers' => ShowsWhatKafkaSaid'
       /\ req'.tool = "describe_topic" /\ ShowsTopic' => ShowsWhatKafkaSaid'
       /\ /\ req'.tool \notin {"consume_messages", "listTopics", "cluster_metadata",
                               "describe_topic"}
          /\ answer'.shown = <<>>
          => ShowsWhatKafkaSaid'
BY DEF ShowsWhatKafkaSaid, ShowsMessages, ShowsTopics, ShowsBrokers, ShowsTopic, Withheld

\* The two forms of a result, in a state of the specification.
LEMMA CallResult ==
  ASSUME CInv, NEW list, Len(list) \in Nat, DOMAIN list = 1 .. Len(list),
         Len(list) = 0 => list = <<>>,
         NEW count, answer' \in Results(list, count)
  PROVE  \/ ShowsFirst(answer', list, count) /\ answer'.is_error = FALSE
         \/ SplitOff(answer', list) /\ answer'.is_error = TRUE
<1>1. mode \in {"grpc", "stdio"} /\ cfg.bytes \in Int
  BY ToolAssumption DEF CInv, TypeOK, IntOf
<1>2. (ShowsFirst(answer', list, count) /\ Success(answer')) \/ SplitOff(answer', list)
  BY <1>1, ResultForms
<1>3. QED
  BY <1>2 DEF Success, SplitOff, Refusal

\* consume_messages.
LEMMA ConsumeShowsAll ==
  ASSUME CInv, Consume
  PROVE  ShowsWhatKafkaSaid'
<1> DEFINE items == got'.items
           list == Replaced(items)
<1>1. items \in Seq({"text", "binary"})
  BY ConsumeStep DEF CInv
<1>2. /\ req.tool = "consume_messages" /\ UNCHANGED <<mode, cfg, req>>
      /\ answer' \in ConsumeAnswers(items)
  BY DEF Consume, Serves, Handled
<1> HIDE DEF items
<1>3. /\ Len(items) \in Nat /\ DOMAIN items = 1 .. Len(items)
      /\ Len(list) = Len(items) /\ DOMAIN list = 1 .. Len(list) /\ (Len(list) = 0 => list = <<>>)
  BY <1>1, ImageLists DEF Replaced
<1>4. \A i \in DOMAIN items : list[i] = "text" <=> items[i] = "text"
  BY DEF Replaced
<1>5. CASE mode = "stdio" /\ Contains(items, "binary") /\ answer' = Refusal("isError", FALSE)
  <2>1. answer'.is_error = TRUE
    BY <1>5 DEF Refusal
  <2>2. Withheld'
    BY <1>2, <1>5 DEF Withheld, Contains, items, Needing
  <2>3. QED
    BY <2>1, <2>2, ShownByTool
<1> HIDE DEF list
<1>6. CASE ShowsFirst(answer', list, Len(items)) /\ answer'.is_error = FALSE
  <2>1. /\ Len(answer'.shown) \in 0 .. Len(items) /\ DOMAIN answer'.shown = 1 .. Len(answer'.shown)
        /\ \A i \in DOMAIN answer'.shown : answer'.shown[i] = list[i]
        /\ ~answer'.cut => Len(answer'.shown) = Len(items)
        /\ answer'.count = Len(items) \/ (answer'.cut /\ answer'.count = Untold)
    BY <1>3, <1>6 DEF ShowsFirst
  <2>2. Len(answer'.shown) <= Len(items)
    BY <1>3, <2>1
  <2>3. \A i \in DOMAIN answer'.shown : i \in DOMAIN items
    BY <1>3, <2>1
  <2>4. \A i \in DOMAIN answer'.shown : answer'.shown[i] = "text" <=> items[i] = "text"
    BY <1>4, <2>1, <2>3
  <2>5. ShowsMessages'
    BY <2>1, <2>2, <2>4 DEF ShowsMessages, Counted, items
  <2>6. QED
    BY <1>2, <1>6, <2>5, ShownByTool
<1>7. CASE SplitOff(answer', list) /\ answer'.is_error = TRUE
  <2>1. /\ mode = "stdio" /\ req.tool \in Needing /\ cfg.bytes > 0 /\ 2 + 2 * Len(items) > cfg.bytes
    BY <1>3, <1>7 DEF SplitOff, Size
  <2>2. Withheld'
    BY <1>2, <2>1 DEF Withheld, Size, items
  <2>3. QED
    BY <1>7, <2>2, ShownByTool
<1>8. QED
  <2>1. CASE answer' \in Results(list, Len(items))
    BY <1>3, <1>6, <1>7, <2>1, CallResult
  <2>2. QED
    BY <1>2, <1>5, <2>1 DEF ConsumeAnswers, list

\* listTopics() lists the topics that are not in error, by name.
LEMMA ListContains ==
  ASSUME NEW items \in Seq([name : Topics, err : BOOLEAN]), NEW t \in Topics
  PROVE  (\E i \in DOMAIN ListTopics(items) : ListTopics(items)[i] = t)
         <=> \E k \in Healthy(items) : items[k].name = t
<1> DEFINE at == Healthy(items)
           list == Picked(items, at)
<1>1. Len(items) \in Nat /\ DOMAIN items = 1 .. Len(items)
  OBVIOUS
<1>2. at \in SUBSET DOMAIN items
  BY DEF Healthy
<1>3. \A x : (\E i \in DOMAIN list : list[i] = x) <=> \E k \in at : items[k] = x
  <2> HIDE DEF at
  <2>1. QED
    BY <1>1, <1>2, PickedContains
<1>4. ListTopics(items) = [i \in DOMAIN list |-> list[i].name]
  BY DEF ListTopics, Names
<1> HIDE DEF list
<1>5. (\E i \in DOMAIN ListTopics(items) : ListTopics(items)[i] = t)
      <=> \E i \in DOMAIN list : list[i].name = t
  BY <1>4
<1>6. ASSUME NEW i \in DOMAIN list, list[i].name = t
      PROVE  \E k \in at : items[k].name = t
  <2>1. PICK k \in at : items[k] = list[i]
    BY <1>3
  <2>2. QED
    BY <1>6, <2>1
<1>7. ASSUME NEW k \in at, items[k].name = t
      PROVE  \E i \in DOMAIN list : list[i].name = t
  <2>1. PICK i \in DOMAIN list : list[i] = items[k]
    BY <1>3
  <2>2. QED
    BY <1>7, <2>1
<1>8. QED
  BY <1>5, <1>6, <1>7

\* The dispatcher's filter lets through the names that contain it, if it is given.
LEMMA FilterContains ==
  ASSUME NEW topics, Len(topics) \in Nat, DOMAIN topics = 1 .. Len(topics),
         mode \in {"grpc", "stdio"}, req.name \in Topics \cup {Absent, Empty, Garbled},
         mode = "stdio" => req.name # Garbled,
         NEW t \in Topics
  PROVE  (\E i \in DOMAIN Filtered(topics) : Filtered(topics)[i] = t)
         <=> (\E i \in DOMAIN topics : topics[i] = t) /\ Passes(t)
<1>1. CASE mode = "grpc" \/ req.name \in {Absent, Empty}
  <2>1. Filtered(topics) = topics
    BY <1>1 DEF Filtered
  <2>2. Passes(t)
    BY <1>1, ToolAssumption DEF Passes
  <2>3. QED
    BY <2>1, <2>2
<1>2. CASE ~(mode = "grpc" \/ req.name \in {Absent, Empty})
  <2> DEFINE at == Passing(topics)
             list == Picked(topics, at)
  <2>1. Filtered(topics) = list
    BY <1>2 DEF Filtered
  <2>2. at \in SUBSET DOMAIN topics
    BY DEF Passing
  <2>3. (\E i \in DOMAIN list : list[i] = t) <=> \E k \in at : topics[k] = t
    <3> HIDE DEF at
    <3>1. \A x : (\E i \in DOMAIN list : list[i] = x) <=> \E k \in at : topics[k] = x
      BY <2>2, PickedContains
    <3>2. QED
      BY <3>1
  <2>4. (\E k \in at : topics[k] = t)
        <=> (\E k \in DOMAIN topics : topics[k] = t) /\ <<req.name, t>> \in Within
    BY DEF Passing
  <2>5. Passes(t) <=> <<req.name, t>> \in Within
    BY <1>2 DEF Passes
  <2> HIDE DEF list
  <2>6. QED
    BY <2>1, <2>3, <2>4, <2>5
<1>3. QED
  BY <1>1, <1>2

\* list_topics.
LEMMA ListShowsAll ==
  ASSUME CInv, ListTopicsCall
  PROVE  ShowsWhatKafkaSaid'
<1> DEFINE items == got'.items
           topics == ListTopics(items)
           through == Filtered(topics)
<1>1. items \in Seq([name : Topics, err : BOOLEAN]) /\ Len(items) \in 0 .. MaxItems
  BY FetchedItems DEF ListTopicsCall
<1>2. /\ req.tool = "listTopics" /\ UNCHANGED <<mode, cfg, req>> /\ mode \in {"grpc", "stdio"}
      /\ answer' \in Results(through, Len(topics))
      /\ mode = "stdio" => req.name # Garbled
  BY DEF CInv, TypeOK, ListTopicsCall, Serves, Handled, Mistyped, ReadsName
<1>3. req.name \in Topics \cup {Absent, Empty, Garbled}
  BY RequestName DEF CInv, TypeOK
<1> HIDE DEF items
<1>4. /\ Len(topics) = Cardinality(Healthy(items))
      /\ DOMAIN topics = 1 .. Len(topics) /\ Len(topics) \in Nat
      /\ Len(through) \in Nat /\ DOMAIN through = 1 .. Len(through)
      /\ Len(through) = 0 => through = <<>>
  <2>1. Len(topics) \in 0 .. MaxItems => Len(topics) \in Nat
    OBVIOUS
  <2>2. QED
    BY <1>1, <2>1, ListedTopics
<1>5. \A t \in Topics : (\E i \in DOMAIN topics : topics[i] = t)
                        <=> \E k \in Healthy(items) : items[k].name = t
  BY <1>1, ListContains
<1> HIDE DEF topics
<1>6. \A t \in Topics : (\E i \in DOMAIN through : through[i] = t)
                        <=> (\E i \in DOMAIN topics : topics[i] = t) /\ Passes(t)
  BY <1>2, <1>3, <1>4, FilterContains
<1> HIDE DEF through
<1>7. req.tool \notin Needing
  BY <1>2 DEF Needing
<1>8. ShowsFirst(answer', through, Len(topics)) /\ answer'.is_error = FALSE
  BY <1>2, <1>4, <1>7, CallResult DEF SplitOff
<1>9. /\ answer'.cut \in BOOLEAN /\ Len(answer'.shown) \in 0 .. Len(through)
      /\ DOMAIN answer'.shown = 1 .. Len(answer'.shown)
      /\ \A i \in DOMAIN answer'.shown : answer'.shown[i] = through[i]
      /\ ~answer'.cut => Len(answer'.shown) = Len(through)
      /\ answer'.count = Len(topics) \/ (answer'.cut /\ answer'.count = Untold)
  BY <1>8 DEF ShowsFirst
<1>10. \A i \in DOMAIN answer'.shown : i \in DOMAIN through
  BY <1>4, <1>9
<1>11. ASSUME NEW t \in Topics
       PROVE  LET due == Passes(t) /\ \E k \in Healthy(items) : items[k].name = t IN
              /\ Contains(answer'.shown, t) => due
              /\ ~answer'.cut /\ due => Contains(answer'.shown, t)
  <2>1. (\E i \in DOMAIN through : through[i] = t)
        <=> (\E k \in Healthy(items) : items[k].name = t) /\ Passes(t)
    BY <1>5, <1>6
  <2>2. Contains(answer'.shown, t) <=> \E i \in DOMAIN answer'.shown : answer'.shown[i] = t
    BY <1>9 DEF Contains
  <2>3. (\E i \in DOMAIN answer'.shown : answer'.shown[i] = t)
        => \E i \in DOMAIN through : through[i] = t
    BY <1>9, <1>10
  <2>4. ~answer'.cut => DOMAIN answer'.shown = DOMAIN through
    BY <1>4, <1>9
  <2>5. ~answer'.cut /\ (\E i \in DOMAIN through : through[i] = t)
        => \E i \in DOMAIN answer'.shown : answer'.shown[i] = t
    BY <1>9, <2>4
  <2>6. QED
    BY <2>1, <2>2, <2>3, <2>5
<1>12. ShowsTopics'
  <2>1. /\ (Healthy(got.items))' = Healthy(items)
        /\ \A t : Passes(t)' <=> Passes(t)
    BY <1>2 DEF Healthy, Passes, items
  <2>2. Counted(Cardinality(Healthy(got.items)))'
    BY <1>4, <1>9, <2>1 DEF Counted
  <2>3. ASSUME NEW t \in Topics
        PROVE  LET due == Passes(t)' /\ \E k \in (Healthy(got.items))' : got'.items[k].name = t IN
               /\ Contains(answer'.shown, t) => due
               /\ ~answer'.cut /\ due => Contains(answer'.shown, t)
    BY <1>11, <2>1 DEF items
  <2>4. QED
    BY <2>2, <2>3 DEF ShowsTopics, Contains
<1>13. QED
  BY <1>2, <1>8, <1>12, ShownByTool

\* cluster_metadata.
LEMMA BrokersShowAll ==
  ASSUME CInv, ClusterMetadata
  PROVE  ShowsWhatKafkaSaid'
<1> DEFINE items == got'.items
           list == GetBrokers(items)
<1>1. /\ req.tool = "cluster_metadata" /\ UNCHANGED <<mode, cfg, req>>
      /\ answer' \in Results(list, Len(items))
  BY DEF ClusterMetadata, Serves, Handled
<1>2. items \in Seq([id : 1 .. MaxItems, replied : BOOLEAN])
  BY FetchedItems DEF ClusterMetadata
<1> HIDE DEF items
<1>3. /\ Len(items) \in Nat /\ DOMAIN items = 1 .. Len(items)
      /\ Len(list) = Len(items) /\ DOMAIN list = 1 .. Len(list) /\ (Len(list) = 0 => list = <<>>)
  BY <1>2, ImageLists DEF GetBrokers
<1>4. \A i \in DOMAIN items : list[i].id = items[i].id
  BY DEF GetBrokers
<1> HIDE DEF list
<1>5. ShowsFirst(answer', list, Len(items)) /\ answer'.is_error = FALSE
  <2>1. req.tool \notin Needing
    BY <1>1 DEF Needing
  <2>2. QED
    BY <1>1, <1>3, <2>1, CallResult DEF SplitOff
<1>6. /\ Len(answer'.shown) \in 0 .. Len(items) /\ DOMAIN answer'.shown = 1 .. Len(answer'.shown)
      /\ \A i \in DOMAIN answer'.shown : answer'.shown[i] = list[i]
      /\ ~answer'.cut => Len(answer'.shown) = Len(items)
      /\ answer'.count = Len(items) \/ (answer'.cut /\ answer'.count = Untold)
  BY <1>3, <1>5 DEF ShowsFirst
<1>7. \A i \in DOMAIN answer'.shown : i \in DOMAIN items /\ answer'.shown[i].id = items[i].id
  <2>1. \A i \in DOMAIN answer'.shown : i \in DOMAIN items
    BY <1>3, <1>6
  <2>2. QED
    BY <1>4, <1>6, <2>1
<1>8. Ids(answer'.shown) \subseteq Ids(items)
  BY <1>7 DEF Ids
<1>9. ASSUME ~answer'.cut PROVE Ids(answer'.shown) = Ids(items)
  <2>1. DOMAIN answer'.shown = DOMAIN items
    BY <1>3, <1>6, <1>9
  <2>2. QED
    BY <1>7, <2>1 DEF Ids
<1>10. ShowsBrokers'
  BY <1>6, <1>8, <1>9 DEF ShowsBrokers, Counted, Ids, items
<1>11. QED
  BY <1>1, <1>5, <1>10, ShownByTool

\* describe_topic.
LEMMA DescribeShowsAll ==
  ASSUME CInv, DescribeTopic
  PROVE  ShowsWhatKafkaSaid'
<1> DEFINE d == Described(got'.answered)
<1>1. /\ req.tool = "describe_topic" /\ UNCHANGED <<mode, cfg, req>>
      /\ got' \in Fetched({<<>>}) /\ answer' \in Results(<<d>>, 1)
  BY DEF DescribeTopic, Serves, Handled
<1>2. got'.answered \in BOOLEAN
  BY <1>1, FetchedItems
<1>3. /\ d.numbers = "as told" <=> got'.answered /\ req.name # Empty
      /\ d.numbers = "zero" <=> ~got'.answered
  BY <1>2 DEF Described
<1> HIDE DEF d
<1>4. Len(<<d>>) = 1 /\ DOMAIN <<d>> = 1 .. 1 /\ <<d>>[1] = d
  OBVIOUS
<1>5. CASE ShowsFirst(answer', <<d>>, 1) /\ answer'.is_error = FALSE
  <2>1. \A i \in DOMAIN answer'.shown : answer'.shown[i] = d
    BY <1>4, <1>5 DEF ShowsFirst
  <2>2. ShowsTopic'
    BY <1>1, <1>3, <2>1 DEF ShowsTopic
  <2>3. QED
    BY <1>1, <1>5, <2>2, ShownByTool
<1>6. CASE SplitOff(answer', <<d>>) /\ answer'.is_error = TRUE
  <2>1. mode = "stdio" /\ req.tool \in Needing /\ cfg.bytes > 0 /\ 4 > cfg.bytes
    BY <1>4, <1>6 DEF SplitOff, Size
  <2>2. Len(<<req.name>>) = 1
    OBVIOUS
  <2>3. Withheld'
    BY <1>1, <2>1, <2>2 DEF Withheld, Size
  <2>4. QED
    BY <1>6, <2>3, ShownByTool
<1>7. QED
  <2>1. Len(<<d>>) \in Nat /\ DOMAIN <<d>> = 1 .. Len(<<d>>) /\ Len(<<d>>) # 0
    BY <1>4
  <2>2. QED
    BY <1>1, <1>5, <1>6, <2>1, CallResult

\* The tools that ask nobody, or only tell that it was done.
LEMMA EmptyShowsAll ==
  ASSUME CInv, Produced \/ ListConsumerGroups \/ ConsumerGroupLag
  PROVE  ShowsWhatKafkaSaid'
<1>1. /\ req.tool \in {"produce_message", "list_consumer_groups", "consumer_group_lag"}
      /\ UNCHANGED <<req, got>> /\ pc = "handle" /\ answer' \in Results(<<>>, 0)
  BY DEF Produced, ListConsumerGroups, ConsumerGroupLag, Serves, Handled, Unasked
<1>2. ~got'.answered
  BY <1>1 DEF CInv, Waiting, Silent
<1>3. CASE ShowsFirst(answer', <<>>, 0) /\ answer'.is_error = FALSE
  <2>1. answer'.shown = <<>>
    BY <1>3, ShortLists DEF ShowsFirst
  <2>2. QED
    BY <1>1, <1>3, <2>1, ShownByTool
<1>4. CASE SplitOff(answer', <<>>) /\ answer'.is_error = TRUE
  BY <1>2, <1>4, ShownByTool
<1>5. QED
  BY <1>1, <1>3, <1>4, ShortLists, CallResult

\* A call that is refused before anything was fetched.
LEMMA RefusedShowsAll ==
  ASSUME CInv, RejectTool \/ RejectMissing \/ RejectMistyped \/ ProduceFailed
  PROVE  ShowsWhatKafkaSaid'
<1>1. got' = Silent
  BY DEF CInv, Waiting, RejectTool, RejectMissing, RejectMistyped, ProduceFailed, Serves,
         Handled, Unasked
<1>2. answer'.is_error = TRUE
  BY DEF RejectTool, RejectMissing, RejectMistyped, ProduceFailed, Refusal
<1>3. ~got'.answered
  BY <1>1 DEF Silent
<1>4. QED
  BY <1>2, <1>3, ShownByTool

(***************************************************************************)
(* Whatever Kafka tells, and wherever the cap cuts, a success shows it in  *)
(* its order and nothing else: messages, the topics that are not in error  *)
(* and contain the filter, brokers, each with the full number or none; all *)
(* of them if it was not cut. What was read is withheld in stdio only, for *)
(* bytes that are not UTF-8 or for a cut inside a character; describe_topic *)
(* has zeros exactly when Kafka did not answer. It takes Waiting: a        *)
(* refusal comes before anything was fetched.                              *)
(***************************************************************************)
THEOREM AnswersShowWhatKafkaSaid == Spec => []ShowsWhatKafkaSaid
<1>1. Init => ShowsWhatKafkaSaid
  BY DEF Init, ShowsWhatKafkaSaid, Answered, NoAnswer, Refusal
<1>2. CInv /\ ShowsWhatKafkaSaid /\ [Next]_vars => ShowsWhatKafkaSaid'
  <2> SUFFICES ASSUME CInv, ShowsWhatKafkaSaid, [Next]_vars PROVE ShowsWhatKafkaSaid'
    OBVIOUS
  <2>1. CASE Handle
    BY <2>1, RefusedShowsAll, ConsumeShowsAll, EmptyShowsAll, ListShowsAll,
       DescribeShowsAll, BrokersShowAll DEF Handle
  <2>2. ASSUME NEW r \in Requests, Request(r) PROVE ShowsWhatKafkaSaid'
    BY <2>2 DEF Request, ShowsWhatKafkaSaid, Answered
  <2>3. CASE UNCHANGED vars
    <3>1. /\ ShowsMessages' = ShowsMessages /\ ShowsTopics' = ShowsTopics
          /\ ShowsBrokers' = ShowsBrokers /\ ShowsTopic' = ShowsTopic /\ Withheld' = Withheld
      <4>1. ShowsMessages' = ShowsMessages
        BY <2>3 DEF vars, ShowsMessages, Counted
      <4>2. ShowsTopics' = ShowsTopics
        BY <2>3 DEF vars, ShowsTopics, Counted, Contains, Healthy, Passes
      <4>3. ShowsBrokers' = ShowsBrokers
        BY <2>3 DEF vars, ShowsBrokers, Counted
      <4>4. ShowsTopic' = ShowsTopic
        BY <2>3 DEF vars, ShowsTopic
      <4>5. Withheld' = Withheld
        BY <2>3 DEF vars, Withheld, Contains, Size
      <4>6. QED
        BY <4>1, <4>2, <4>3, <4>4, <4>5
    <3>2. QED
      BY <2>3, <3>1 DEF vars, ShowsWhatKafkaSaid, Answered
  <2>4. QED
    BY <2>1, <2>2, <2>3 DEF Next
<1>3. QED
  BY <1>1, <1>2, CallInvariant, PTL DEF Spec

=============================================================================
