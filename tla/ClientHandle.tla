---------------------------- MODULE ClientHandle ----------------------------
(***************************************************************************)
(* The lazy connection that KafkaConsumer, KafkaProducer and KafkaAdmin    *)
(* share: a plain bool connected_, a unique_ptr to the librdkafka client,  *)
(* and no lock. Every operation starts with                                *)
(*                                                                         *)
(*     if (!connected_ && !connect()) return ...;                          *)
(*                                                                         *)
(* and then dereferences the pointer, possibly several times. connect() is *)
(* also called directly, by the constructor of MCPDispatcher.              *)
(*                                                                         *)
(* In gRPC mode one MCPHandler, with one client of each kind, serves all   *)
(* worker threads, and nothing connects before the first operation: the    *)
(* operations that find the client unconnected may overlap. In stdio mode  *)
(* there is one thread, and it connects before it operates.                *)
(*                                                                         *)
(* unique_ptr::reset(p) loads the old pointer, stores p, and deletes what  *)
(* it loaded: three steps here. An aligned pointer or bool is read and     *)
(* written whole, so the races of this code are the interleavings of those *)
(* steps.                                                                  *)
(***************************************************************************)
EXTENDS Naturals, FiniteSets

CONSTANTS
  Callers,      \* threads that use the object
  MaxHandles,   \* bound on the librdkafka clients created, for model checking
  ColdOverlap   \* whether operations may overlap on an object not yet connected

ASSUME HandleAssumption == MaxHandles \in Nat /\ ColdOverlap \in BOOLEAN

VARIABLES
  connected,  \* connected_
  ptr,        \* the unique_ptr: 0 or a handle
  alive,      \* the handles that exist in librdkafka
  created,    \* how many were created: the last one's number
  exists,     \* whether the object is constructed
  pc,         \* where each caller is
  goal,       \* whether it operates, or only connects
  fresh,      \* what its create() returned
  old,        \* what its reset() loaded
  held        \* the pointer it dereferences

vars == <<connected, ptr, alive, created, exists, pc, goal, fresh, old, held>>

null == 0
Handles == 1 .. MaxHandles
Positions == {"idle", "check", "recheck", "create", "reset", "store", "delete",
              "test", "set", "load", "use"}
AllIdle == \A c \in Callers : pc[c] = "idle"
Goto(c, where) == pc' = [pc EXCEPT ![c] = where]

Init ==
  /\ connected = FALSE /\ ptr = null /\ exists = TRUE
  /\ alive = {} /\ created = 0
  /\ pc = [c \in Callers |-> "idle"]
  /\ goal = [c \in Callers |-> "operate"]
  /\ fresh = [c \in Callers |-> null]
  /\ old = [c \in Callers |-> null]
  /\ held = [c \in Callers |-> null]

-----------------------------------------------------------------------------
(***************************************************************************)
(* An operation, or connect() alone, is called. Only an MCPDispatcher, on  *)
(* its one thread, calls connect() alone.                                  *)
(***************************************************************************)
Call(c, g) ==
  /\ exists /\ pc[c] = "idle"
  /\ ColdOverlap \/ connected \/ AllIdle
  /\ g = "connect" => AllIdle /\ ~ColdOverlap
  /\ goal' = [goal EXCEPT ![c] = g]
  /\ Goto(c, IF g = "operate" THEN "check" ELSE "recheck")
  /\ UNCHANGED <<connected, ptr, alive, created, exists, fresh, old, held>>

\* if (!connected_ && ...) of the operation.
Check(c) ==
  /\ pc[c] = "check"
  /\ Goto(c, IF connected THEN "load" ELSE "recheck")
  /\ UNCHANGED <<connected, ptr, alive, created, exists, goal, fresh, old, held>>

Resume(c) == IF goal[c] = "operate" THEN "load" ELSE "idle"

\* Mutant: connect() connects whenever it is called.
Recheck_Missing(c) ==
  /\ pc[c] = "recheck"
  /\ Goto(c, "create")
  /\ UNCHANGED <<connected, ptr, alive, created, exists, goal, fresh, old, held>>

\* if (connected_) return true; of connect().
Recheck(c) ==
  /\ pc[c] = "recheck"
  /\ Goto(c, IF connected THEN Resume(c) ELSE "create")
  /\ UNCHANGED <<connected, ptr, alive, created, exists, goal, fresh, old, held>>

\* build_rdkafka_conf() throws; connect() catches it and returns false.
BadConf(c) ==
  /\ pc[c] = "create"
  /\ Goto(c, "idle")
  /\ UNCHANGED <<connected, ptr, alive, created, exists, goal, fresh, old, held>>

\* create() returns a new client, or nullptr.
Create(c) ==
  /\ pc[c] = "create" /\ created < MaxHandles
  /\ created' = created + 1
  /\ alive' = alive \cup {created'}
  /\ fresh' = [fresh EXCEPT ![c] = created']
  /\ Goto(c, "reset")
  /\ UNCHANGED <<connected, ptr, exists, goal, old, held>>

\* Mutant: create() leaves something else than nullptr when it fails.
CreateFails_Garbage(c) ==
  /\ pc[c] = "create"
  /\ fresh' = [fresh EXCEPT ![c] = MaxHandles + 1]
  /\ Goto(c, "reset")
  /\ UNCHANGED <<connected, ptr, alive, created, exists, goal, old, held>>

CreateFails(c) ==
  /\ pc[c] = "create"
  /\ fresh' = [fresh EXCEPT ![c] = null]
  /\ Goto(c, "reset")
  /\ UNCHANGED <<connected, ptr, alive, created, exists, goal, old, held>>

\* The three steps of reset().
LoadOld(c) ==
  /\ pc[c] = "reset"
  /\ old' = [old EXCEPT ![c] = ptr]
  /\ Goto(c, "store")
  /\ UNCHANGED <<connected, ptr, alive, created, exists, goal, fresh, held>>

StoreNew(c) ==
  /\ pc[c] = "store"
  /\ ptr' = fresh[c]
  /\ Goto(c, "delete")
  /\ UNCHANGED <<connected, alive, created, exists, goal, fresh, old, held>>

DeleteOld(c) ==
  /\ pc[c] = "delete"
  /\ alive' = alive \ {old[c]}
  /\ old' = [old EXCEPT ![c] = null]
  /\ fresh' = [fresh EXCEPT ![c] = null]
  /\ Goto(c, "test")
  /\ UNCHANGED <<connected, ptr, created, exists, goal, held>>

\* Mutant: the result of create() is not tested.
Test_Missing(c) ==
  /\ pc[c] = "test"
  /\ Goto(c, "set")
  /\ UNCHANGED <<connected, ptr, alive, created, exists, goal, fresh, old, held>>

\* if (!producer_) return false;
Test(c) ==
  /\ pc[c] = "test"
  /\ Goto(c, IF ptr = null THEN "idle" ELSE "set")
  /\ UNCHANGED <<connected, ptr, alive, created, exists, goal, fresh, old, held>>

\* connected_ = true;
SetConnected(c) ==
  /\ pc[c] = "set"
  /\ connected' = TRUE
  /\ Goto(c, Resume(c))
  /\ UNCHANGED <<ptr, alive, created, exists, goal, fresh, old, held>>

\* The pointer is loaded for a call into librdkafka, which may take seconds.
Load(c) ==
  /\ pc[c] = "load"
  /\ held' = [held EXCEPT ![c] = ptr]
  /\ Goto(c, "use")
  /\ UNCHANGED <<connected, ptr, alive, created, exists, goal, fresh, old>>

\* The call returned; the operation goes on to its next call, or returns.
Used(c) ==
  /\ pc[c] = "use"
  /\ held' = [held EXCEPT ![c] = null]
  /\ \E where \in {"load", "idle"} : Goto(c, where)
  /\ UNCHANGED <<connected, ptr, alive, created, exists, goal, fresh, old>>

-----------------------------------------------------------------------------
\* Mutant: the pointer is released, not reset.
Destroy_Releases ==
  /\ exists /\ AllIdle
  /\ exists' = FALSE
  /\ ptr' = null /\ connected' = FALSE
  /\ UNCHANGED <<alive, created, pc, goal, fresh, old, held>>

(* The destructor: disconnect(), once no operation runs. *)
Destroy ==
  /\ exists /\ AllIdle
  /\ exists' = FALSE
  /\ alive' = alive \ {ptr}
  /\ ptr' = null /\ connected' = FALSE
  /\ UNCHANGED <<created, pc, goal, fresh, old, held>>

\* The next object: a new MCPDispatcher, for the next tools/call.
Construct ==
  /\ ~exists
  /\ exists' = TRUE
  /\ UNCHANGED <<connected, ptr, alive, created, pc, goal, fresh, old, held>>

Connecting(c) ==
  \/ Recheck(c) \/ BadConf(c) \/ Create(c) \/ CreateFails(c)
  \/ LoadOld(c) \/ StoreNew(c) \/ DeleteOld(c) \/ Test(c) \/ SetConnected(c)
Operating(c) == Check(c) \/ Load(c) \/ Used(c)

Next ==
  \/ \E c \in Callers :
       (\E g \in {"operate", "connect"} : Call(c, g)) \/ Connecting(c) \/ Operating(c)
  \/ Destroy \/ Construct

Spec == Init /\ [][Next]_vars

-----------------------------------------------------------------------------
TypeOK ==
  /\ connected \in BOOLEAN /\ exists \in BOOLEAN
  /\ ptr \in Handles \cup {null}
  /\ alive \subseteq Handles /\ created \in 0 .. MaxHandles
  /\ pc \in [Callers -> Positions] /\ goal \in [Callers -> {"operate", "connect"}]
  /\ fresh \in [Callers -> Handles \cup {null}]
  /\ old \in [Callers -> Handles \cup {null}]
  /\ held \in [Callers -> Handles \cup {null}]

(***************************************************************************)
(* Nobody is inside a librdkafka call on a null pointer, or on a client    *)
(* that was destroyed under it. (The tests: auto-connect never crashes.)   *)
(***************************************************************************)
LiveHandleInUse == \A c \in Callers : pc[c] = "use" => held[c] \in alive

(***************************************************************************)
(* A librdkafka client, with its threads and connections, is never lost:   *)
(* between operations only the one that the object owns exists.            *)
(***************************************************************************)
NoHandleLeaked == AllIdle => alive = {ptr} \ {null}

(***************************************************************************)
(* Once connected_ is set, the client behind it is never replaced: the     *)
(* partitions being fetched and the messages queued stay with it.          *)
(***************************************************************************)
ConnectedHandleStays == [][connected /\ exists' => ptr' = ptr]_vars
=============================================================================
