------------------------ MODULE ClientHandle_proofs ------------------------
(***************************************************************************)
(* The lazy connection, for every set of threads and any number of         *)
(* librdkafka clients. Its types hold whoever calls; the safety of the     *)
(* handle is proved for the use that stdio mode makes of the object, where *)
(* no two operations overlap before it is connected. (That gRPC mode may   *)
(* overlap them, and what happens then, is the run cold_connect.)          *)
(***************************************************************************)
EXTENDS ClientHandle, TLAPS

(***************************************************************************)
(* Why: before the object is connected one thread at most is inside it, so *)
(* what exists in librdkafka is what that thread's connect() has got so    *)
(* far. Once it is connected nobody enters connect() past its first test:  *)
(* the pointer stays, and whoever dereferences it holds that pointer.      *)
(***************************************************************************)
OnlyPtr == alive = {ptr} \ {null}

Alone ==
  ~connected => \A c, d \in Callers : pc[c] # "idle" /\ pc[d] # "idle" => c = d

Cold ==
  ~connected =>
    /\ AllIdle => ptr = null
    /\ \A c \in Callers :
         /\ pc[c] \notin {"load", "use"}
         /\ pc[c] \in {"check", "recheck", "create", "reset", "store"} => ptr = null
         /\ pc[c] \in {"reset", "store"} => alive = {fresh[c]} \ {null}
         /\ pc[c] \notin {"reset", "store"} => pc[c] = "idle" \/ OnlyPtr
         /\ pc[c] = "store" => old[c] = null
         /\ pc[c] = "delete" => ptr = fresh[c] /\ old[c] = null
         /\ pc[c] = "set" => ptr # null
    /\ AllIdle => OnlyPtr

Warm ==
  connected =>
    /\ exists /\ ptr # null /\ OnlyPtr
    /\ \A c \in Callers :
         /\ pc[c] \in {"idle", "check", "recheck", "load", "use"}
         /\ pc[c] = "use" => held[c] = ptr

Gone == ~exists => ~connected /\ AllIdle

HInv == TypeOK /\ Alone /\ Cold /\ Warm /\ Gone

-----------------------------------------------------------------------------
\* The object starts within its types.
LEMMA InitTyped == Init => TypeOK
<1> SUFFICES ASSUME Init PROVE TypeOK
  OBVIOUS
<1>1. created \in 0 .. MaxHandles
  BY HandleAssumption DEF Init
<1> QED
  BY <1>1 DEF Init, TypeOK, Positions, null

\* What a thread does inside connect() keeps the types.
LEMMA ConnectingTyped ==
  ASSUME TypeOK, NEW c \in Callers, Connecting(c)
  PROVE  TypeOK'
<1> USE HandleAssumption DEF TypeOK, Positions, Handles, null, Goto
<1>1. CASE Recheck(c)
  BY <1>1 DEF Recheck, Resume
<1>2. CASE BadConf(c)
  BY <1>2 DEF BadConf
<1>3. CASE Create(c)
  <2>1. created' \in Handles
    BY <1>3 DEF Create
  <2> QED
    BY <1>3, <2>1 DEF Create
<1>4. CASE CreateFails(c)
  BY <1>4 DEF CreateFails
<1>5. CASE LoadOld(c)
  BY <1>5 DEF LoadOld
<1>6. CASE StoreNew(c)
  BY <1>6 DEF StoreNew
<1>7. CASE DeleteOld(c)
  BY <1>7 DEF DeleteOld
<1>8. CASE Test(c)
  BY <1>8 DEF Test
<1>9. CASE SetConnected(c)
  BY <1>9 DEF SetConnected, Resume
<1> QED
  BY <1>1, <1>2, <1>3, <1>4, <1>5, <1>6, <1>7, <1>8, <1>9 DEF Connecting

\* So does every other step.
LEMMA NextTyped == TypeOK /\ [Next]_vars => TypeOK'
<1> SUFFICES ASSUME TypeOK, [Next]_vars PROVE TypeOK'
  OBVIOUS
<1> USE DEF TypeOK, Positions, Handles, null, Goto
<1>1. ASSUME NEW c \in Callers, NEW g \in {"operate", "connect"}, Call(c, g)
      PROVE  TypeOK'
  BY <1>1 DEF Call
<1>2. ASSUME NEW c \in Callers, Operating(c) PROVE TypeOK'
  <2>1. CASE Check(c)
    BY <2>1 DEF Check
  <2>2. CASE Load(c)
    BY <2>2 DEF Load
  <2>3. CASE Used(c)
    BY <2>3 DEF Used
  <2> QED
    BY <1>2, <2>1, <2>2, <2>3 DEF Operating
<1>3. CASE Destroy
  BY <1>3 DEF Destroy
<1>4. CASE Construct
  BY <1>4 DEF Construct
<1>5. CASE UNCHANGED vars
  BY <1>5 DEF vars
<1> QED
  BY <1>1, <1>2, <1>3, <1>4, <1>5, ConnectingTyped DEF Next

(***************************************************************************)
(* The types hold in either mode, however the operations overlap.          *)
(***************************************************************************)
THEOREM TypeCorrect == Spec => []TypeOK
BY InitTyped, NextTyped, PTL DEF Spec

-----------------------------------------------------------------------------
\* At the start nothing exists and nobody is inside the object.
LEMMA InitHInv == Init => HInv
<1> SUFFICES ASSUME Init PROVE HInv
  OBVIOUS
<1> QED
  BY InitTyped DEF Init, HInv, OnlyPtr, Alone, Cold, Warm, Gone, AllIdle, null, TypeOK

\* An operation begins: on a cold object, only when nobody else is inside.
LEMMA CallStep ==
  ASSUME ~ColdOverlap, HInv, TypeOK', NEW c \in Callers,
         NEW g \in {"operate", "connect"}, Call(c, g)
  PROVE  HInv'
<1> USE DEF HInv, TypeOK, Call, Goto, AllIdle, OnlyPtr, null
<1>1. Alone'
  BY DEF Alone
<1>2. Cold'
  BY DEF Alone, Cold
<1>3. Warm'
  BY DEF Warm
<1>4. Gone'
  BY DEF Gone
<1> QED
  BY <1>1, <1>2, <1>3, <1>4

\* Inside connect(): on a connected object it only finds that out.
LEMMA ConnectingStep ==
  ASSUME HInv, TypeOK', NEW c \in Callers, Connecting(c)
  PROVE  HInv'
<1> USE DEF HInv, TypeOK, Goto, AllIdle, OnlyPtr, null, Alone, Cold, Warm, Gone
<1>1. CASE Recheck(c)
  BY <1>1 DEF Recheck, Resume
<1>2. CASE BadConf(c)
  BY <1>2 DEF BadConf
<1>3. CASE Create(c)
  BY <1>3 DEF Create
<1>4. CASE CreateFails(c)
  BY <1>4 DEF CreateFails
<1>5. CASE LoadOld(c)
  BY <1>5 DEF LoadOld
<1>6. CASE StoreNew(c)
  BY <1>6 DEF StoreNew
<1>7. CASE DeleteOld(c)
  BY <1>7 DEF DeleteOld
<1>8. CASE Test(c)
  BY <1>8 DEF Test
<1>9. CASE SetConnected(c)
  BY <1>9 DEF SetConnected, Resume
<1> QED
  BY <1>1, <1>2, <1>3, <1>4, <1>5, <1>6, <1>7, <1>8, <1>9 DEF Connecting

\* An operation dereferences the pointer only once the object is connected.
LEMMA OperatingStep ==
  ASSUME HInv, TypeOK', NEW c \in Callers, Operating(c)
  PROVE  HInv'
<1> USE DEF HInv, TypeOK, Goto, AllIdle, OnlyPtr, null, Alone, Cold, Warm, Gone
<1>1. CASE Check(c)
  BY <1>1 DEF Check
<1>2. CASE Load(c)
  BY <1>2 DEF Load
<1>3. CASE Used(c)
  BY <1>3 DEF Used
<1> QED
  BY <1>1, <1>2, <1>3 DEF Operating

\* The object is destroyed when nobody is inside, and built anew.
LEMMA LifetimeStep ==
  ASSUME HInv, TypeOK', Destroy \/ Construct
  PROVE  HInv'
<1> USE DEF HInv, AllIdle, OnlyPtr, null, Alone, Cold, Warm, Gone
<1>1. CASE Destroy
  BY <1>1 DEF Destroy
<1>2. CASE Construct
  BY <1>2 DEF Construct
<1> QED
  BY <1>1, <1>2

\* Every step keeps the invariant, if no two operations overlap on a cold object.
LEMMA NextHInv ==
  ASSUME ~ColdOverlap
  PROVE  HInv /\ [Next]_vars => HInv'
<1> SUFFICES ASSUME HInv, [Next]_vars PROVE HInv'
  OBVIOUS
<1>1. TypeOK'
  BY NextTyped DEF HInv
<1>2. CASE UNCHANGED vars
  BY <1>1, <1>2 DEF vars, HInv, AllIdle, OnlyPtr, Alone, Cold, Warm, Gone
<1>3. CASE Next
  BY <1>1, <1>3, CallStep, ConnectingStep, OperatingStep, LifetimeStep DEF Next
<1> QED
  BY <1>2, <1>3

\* The invariant holds in every reachable state.
LEMMA Invariance ==
  ASSUME ~ColdOverlap
  PROVE  Spec => []HInv
BY InitHInv, NextHInv, PTL DEF Spec

-----------------------------------------------------------------------------
(***************************************************************************)
(* Nobody is inside librdkafka on a null pointer or on a destroyed client, *)
(* once operations do not overlap before the first connection.             *)
(***************************************************************************)
THEOREM HandleIsLive ==
  ASSUME ~ColdOverlap
  PROVE  Spec => []LiveHandleInUse
<1>1. HInv => LiveHandleInUse
  BY DEF HInv, Warm, Cold, OnlyPtr, LiveHandleInUse
<1> QED
  BY <1>1, Invariance, PTL

(***************************************************************************)
(* Whether connect() succeeded, failed or threw, and after disconnect(),   *)
(* the client that the object owns is the only one that exists.            *)
(***************************************************************************)
THEOREM NothingLeaks ==
  ASSUME ~ColdOverlap
  PROVE  Spec => []NoHandleLeaked
<1>1. HInv => NoHandleLeaked
  BY DEF HInv, Warm, Cold, OnlyPtr, NoHandleLeaked
<1> QED
  BY <1>1, Invariance, PTL

(***************************************************************************)
(* connect() never replaces the client of a connected object: reset() is   *)
(* reached only by a thread that found connected_ false, alone.            *)
(***************************************************************************)
THEOREM HandleStays ==
  ASSUME ~ColdOverlap
  PROVE  Spec => ConnectedHandleStays
<1>1. HInv /\ [Next]_vars => [connected /\ exists' => ptr' = ptr]_vars
  <2> SUFFICES ASSUME HInv, Next, connected, exists', ptr' # ptr PROVE FALSE
    OBVIOUS
  <2>1. PICK c \in Callers : StoreNew(c)
    BY DEF Next, Connecting, Operating, Call, Check, Recheck, BadConf, Create,
           CreateFails, LoadOld, DeleteOld, Test, SetConnected, Load, Used, Destroy,
           Construct
  <2> QED
    BY <2>1 DEF HInv, Warm, StoreNew
<1> QED
  BY <1>1, Invariance, PTL DEF Spec, ConnectedHandleStays
=============================================================================
