------------------------ MODULE WorkerDatabaseProofs ------------------------
(***************************************************************************)
(* Proofs about WorkerDatabase, for every set of workers and host          *)
(* operations and every bound.                                             *)
(***************************************************************************)
EXTENDS WorkerDatabase, TLAPS, FiniteSetTheorems

\* The kinds of host steps that may wait inside SQLite
Steps == {"request", "operation", "resumption", "store"}

\* The parts of TypeOK that a posted message changes.
LEMMA SendType ==
    ASSUME TypeOK, NEW w \in Workers, NEW operation \in Operations,
           NEW c \in 0 .. MaxConnection, NEW g \in 0 .. MaxGeneration, Send(w, operation, c, g)
    PROVE  /\ phase' \in [Workers -> {"idle", "waiting", "exited"}]
           /\ request' \in [Workers -> Requests]
           /\ sent' \in [Workers -> Nat]
           /\ buffer' \in [Workers -> Buffers]
           /\ inbox' \in [Workers -> Seq(Requests)]
<1> DEFINE m == [kind |-> "worker", worker |-> w, id |-> sent[w] + 1, operation |-> operation,
                 connection |-> c, generation |-> g]
<1>1. m \in Requests
  BY DEF Requests, TypeOK
<1>2. ResetBuffer(buffer[w], g) \in Buffers
  <2>1. EmptyBuffer(g) \in Buffers
    BY WorkerDatabaseAssumption DEF EmptyBuffer, Buffers
  <2>2. buffer[w] \in Buffers
    BY DEF TypeOK
  <2>3. [buffer[w] EXCEPT !.full = FALSE] \in Buffers
    BY <2>2 DEF Buffers
  <2> QED BY <2>1, <2>3 DEF ResetBuffer
<1>3. Append(inbox[w], m) \in Seq(Requests)
  BY <1>1 DEF TypeOK
<1>4. phase' \in [Workers -> {"idle", "waiting", "exited"}] /\ sent' \in [Workers -> Nat]
  BY DEF Send, TypeOK
<1>5. request' \in [Workers -> Requests]
  BY <1>1 DEF Send, TypeOK
<1>6. buffer' \in [Workers -> Buffers]
  BY <1>2 DEF Send, TypeOK
<1>7. inbox' \in [Workers -> Seq(Requests)]
  BY <1>3 DEF Send, TypeOK
<1> QED BY <1>4, <1>5, <1>6, <1>7

\* An answer keeps the buffers' type.
LEMMA RespondType ==
    ASSUME TypeOK, NEW m \in Requests, NEW ok \in BOOLEAN, Respond(m, ok),
           ok /\ m.operation = "open" => nextConnection[m.worker] <= MaxConnection
    PROVE  buffer' \in [Workers -> Buffers]
<1> DEFINE value == IF ok /\ m.operation = "open" THEN nextConnection[m.worker] ELSE 0
<1>1. m.worker \in Workers /\ m.id \in Nat
  BY DEF Requests
<1>2. value \in 0 .. MaxConnection
  BY <1>1, WorkerDatabaseAssumption DEF TypeOK
<1>3. PICK result \in {"ok", "error", "tooSmall"} :
        buffer' = [buffer EXCEPT ![m.worker] =
                     IF @.generation # m.generation THEN @
                     ELSE [@ EXCEPT !.full = TRUE, !.answers = m.id, !.result = result,
                                    !.value = value]]
  BY DEF Respond
<1>4. [buffer[m.worker] EXCEPT !.full = TRUE, !.answers = m.id, !.result = result,
                               !.value = value] \in Buffers
  <2>1. buffer[m.worker] \in Buffers
    BY <1>1 DEF TypeOK
  <2> QED BY <1>1, <1>2, <2>1 DEF Buffers
<1>5. buffer \in [Workers -> Buffers]
  BY DEF TypeOK
<1> QED BY <1>1, <1>3, <1>4, <1>5

\* What an executed statement does to the broker's connections and to SQLite.
LEMMA SqliteType ==
    ASSUME TypeOK, NEW m \in Requests, NEW ok \in BOOLEAN, Sqlite(m, ok),
           owner = {} \/ owner = {Handle(m)}
    PROVE  /\ connections' \in [Workers -> SUBSET Connections]
           /\ nextConnection' \in [Workers -> 1 .. MaxConnection + 1]
           /\ inTransaction' \in SUBSET Handles
           /\ stalled' \subseteq Steps
           /\ ok /\ m.operation = "open" => nextConnection[m.worker] <= MaxConnection
           /\ ok /\ m.operation = "begin" => Handle(m) \in Handles
<1>1. m.worker \in Workers /\ m.connection \in 0 .. MaxConnection /\ m.operation \in Operations
  BY DEF Requests
<1>2. CASE SqliteOpen(m, ok)
  <2>1. nextConnection[m.worker] \in 1 .. MaxConnection + 1
    BY <1>1 DEF TypeOK
  <2>2. ok => nextConnection[m.worker] \in Connections
    BY <1>2, <2>1, WorkerDatabaseAssumption DEF SqliteOpen, Connections
  <2>3. connections' \in [Workers -> SUBSET Connections]
    BY <1>1, <1>2, <2>2 DEF SqliteOpen, TypeOK
  <2>4. nextConnection' \in [Workers -> 1 .. MaxConnection + 1]
    BY <1>1, <1>2 DEF SqliteOpen, TypeOK
  <2> QED BY <1>2, <2>1, <2>2, <2>3, <2>4, WorkerDatabaseAssumption DEF SqliteOpen, TypeOK, Connections, Steps
<1>3. CASE SqliteClose(m, ok)
  <2>1. connections' \in [Workers -> SUBSET Connections]
    BY <1>1, <1>3 DEF SqliteClose, TypeOK
  <2> QED BY <1>3, <2>1 DEF SqliteClose, TypeOK, Others, Steps
<1>4. CASE SqliteStatement(m, ok)
  <2>1. ok => m.connection \in Connections
    BY <1>1, <1>4 DEF SqliteStatement, TypeOK
  <2>2. ok => Handle(m) \in Handles
    BY <1>1, <2>1 DEF Handle, Handles
  <2>3. inTransaction' \in SUBSET Handles
    BY <1>4, <2>2 DEF SqliteStatement, Others, TypeOK
  <2>4. stalled' \subseteq Steps
    BY <1>4 DEF SqliteStatement, Stalls, Steps, TypeOK
  <2> QED BY <1>4, <2>2, <2>3, <2>4 DEF SqliteStatement, TypeOK
<1> QED BY <1>2, <1>3, <1>4 DEF Sqlite

\* Executing a request keeps the types of everything it writes.
LEMMA ExecuteType ==
    ASSUME TypeOK, NEW m \in Requests, Execute(m), owner = {} \/ owner = {Handle(m)}
    PROVE  /\ buffer' \in [Workers -> Buffers]
           /\ connections' \in [Workers -> SUBSET Connections]
           /\ nextConnection' \in [Workers -> 1 .. MaxConnection + 1]
           /\ inTransaction' \in SUBSET Handles
           /\ stalled' \subseteq Steps
           /\ owner' \in SUBSET Handles
           /\ \A g, h \in owner' : g = h
           /\ draining' \in BOOLEAN
<1>1. PICK ok \in BOOLEAN :
        /\ Sqlite(m, ok)
        /\ Respond(m, ok)
        /\ CASE ok /\ Boundary(m) = "begin" -> owner' = {Handle(m)} /\ UNCHANGED draining
             [] ok /\ Boundary(m) = "end" /\ owner = {Handle(m)} -> ReleaseLease
             [] OTHER -> UNCHANGED <<owner, draining>>
  BY DEF Execute
<1>2. Boundary(m) = "begin" => m.operation = "begin"
  BY DEF Boundary, BoundaryIgnoringBegin
<1>3. /\ owner' \in SUBSET Handles
      /\ \A g, h \in owner' : g = h
      /\ draining' \in BOOLEAN
  BY <1>1, <1>2, SqliteType DEF ReleaseLease, TypeOK
<1> QED BY <1>1, <1>3, SqliteType, RespondType

-----------------------------------------------------------------------------
(* Type correctness, one lemma for each side.                              *)

LEMMA ClientType ==
    ASSUME TypeOK, NEW w \in Workers, Client(w)
    PROVE  TypeOK'
<1>1. ASSUME NEW operation \in Operations, NEW c \in 0 .. MaxConnection, Ask(w, operation, c)
      PROVE  TypeOK'
  <2>1. buffer[w].generation \in 0 .. MaxGeneration
    BY DEF TypeOK, Buffers
  <2>2. Send(w, operation, c, buffer[w].generation)
    BY <1>1 DEF Ask
  <2>3. /\ phase' \in [Workers -> {"idle", "waiting", "exited"}]
        /\ request' \in [Workers -> Requests]
        /\ sent' \in [Workers -> Nat]
        /\ buffer' \in [Workers -> Buffers]
        /\ inbox' \in [Workers -> Seq(Requests)]
    BY <2>1, <2>2, SendType
  <2> QED BY <1>1, <2>3 DEF Ask, TypeOK, brokerVars, sqliteVars
<1>2. CASE Receive(w)
  <2>1. buffer[w].value \in 0 .. MaxConnection
    BY DEF TypeOK, Buffers
  <2>2. request[w].connection \in 0 .. MaxConnection
    BY DEF TypeOK, Requests
  <2>3. /\ opened' \in [Workers -> SUBSET Connections]
        /\ transaction' \in [Workers -> 0 .. MaxConnection]
        /\ doomed' \in [Workers -> BOOLEAN]
    <3>1. CASE Returns(w)
      <4>1. opened' \in [Workers -> SUBSET Connections]
        BY <2>1, <3>1, WorkerDatabaseAssumption DEF Returns, TypeOK, Connections
      <4>2. transaction' \in [Workers -> 0 .. MaxConnection]
        BY <2>2, <3>1, WorkerDatabaseAssumption DEF Returns, TypeOK
      <4>3. doomed' \in [Workers -> BOOLEAN]
        BY <3>1 DEF Returns, TypeOK
      <4> QED BY <4>1, <4>2, <4>3
    <3>2. CASE Throws(w)
      BY <3>2, WorkerDatabaseAssumption DEF Throws, TypeOK
    <3> QED BY <1>2, <3>1, <3>2 DEF Receive
  <2> QED BY <1>2, <2>3 DEF Receive, TypeOK, brokerVars, sqliteVars
<1>3. CASE Retry(w)
  <2>1. buffer[w].generation + 1 \in 0 .. MaxGeneration
    BY <1>3, WorkerDatabaseAssumption DEF Retry, MayRetry, TypeOK, Buffers
  <2>2. request[w].connection \in 0 .. MaxConnection
    BY DEF TypeOK, Requests
  <2>3. "read" \in Operations
    BY DEF Operations
  <2>4. Send(w, "read", request[w].connection, buffer[w].generation + 1)
    BY <1>3 DEF Retry
  <2>5. /\ phase' \in [Workers -> {"idle", "waiting", "exited"}]
        /\ request' \in [Workers -> Requests]
        /\ sent' \in [Workers -> Nat]
        /\ buffer' \in [Workers -> Buffers]
        /\ inbox' \in [Workers -> Seq(Requests)]
    BY <2>1, <2>2, <2>3, <2>4, SendType
  <2> QED BY <1>3, <2>5 DEF Retry, TypeOK, brokerVars, sqliteVars
<1>4. CASE TimeOut(w)
  BY <1>4, WorkerDatabaseAssumption DEF TimeOut, Throws, TypeOK, brokerVars, sqliteVars
<1>5. CASE Exit(w)
  BY <1>5 DEF Exit, TypeOK, brokerVars, sqliteVars
<1> QED BY <1>1, <1>2, <1>3, <1>4, <1>5 DEF Client

\* What coordinator.unregister leaves of the queue was in the queue before.
LEMMA RetainedFromQueue ==
    ASSUME TypeOK, NEW K \in SUBSET DOMAIN pending, Retain(K)
    PROVE  /\ pending' \in Seq(Requests \union HostRequests)
           /\ \A i \in DOMAIN pending' : \E k \in K : pending'[i] = pending[k]
<1>1. DOMAIN pending = 1 .. Len(pending) /\ Len(pending) \in Nat
  BY DEF TypeOK
<1>2. IsFiniteSet(1 .. Len(pending))
  BY <1>1, FS_Interval
<1>3. Cardinality(K) \in Nat
  BY <1>1, <1>2, FS_Subset, FS_CardinalityType
<1>4. PICK f \in [1 .. Cardinality(K) -> K] : pending' = [i \in DOMAIN f |-> pending[f[i]]]
  BY DEF Retain
<1>5. \A i \in 1 .. Cardinality(K) : f[i] \in K /\ pending[f[i]] \in Requests \union HostRequests
  <2>1. pending \in Seq(Requests \union HostRequests)
    BY DEF TypeOK
  <2> QED BY <1>1, <1>4, <2>1
<1>6. pending' \in [1 .. Cardinality(K) -> Requests \union HostRequests]
  BY <1>4, <1>5
<1> QED BY <1>3, <1>4, <1>5, <1>6

LEMMA HostType ==
    ASSUME TypeOK, Host
    PROVE  TypeOK'
<1>1. CASE Drain
  <2>1. CASE owner # {} \/ pending = << >>
    BY <1>1, <2>1 DEF Drain, TypeOK, clientVars, sqliteVars
  <2>2. CASE owner = {} /\ pending # << >>
    <3> DEFINE next == Head(pending)
    <3>1. next \in Requests \union HostRequests /\ Tail(pending) \in Seq(Requests \union HostRequests)
      BY <2>2 DEF TypeOK
    <3>2. /\ next.kind = "worker" => next \in Requests
          /\ next.kind = "host" => next \in HostRequests
      BY <3>1 DEF Requests, HostRequests
    <3>3. CASE next.kind = "host" /\ RunHostOp(next.operation)
               /\ UNCHANGED <<buffer, owner, draining, connections, nextConnection, inTransaction>>
      <4>1. next.operation \in HostOps
        BY <3>2, <3>3 DEF HostRequests
      <4> QED BY <1>1, <2>2, <3>1, <3>3, <4>1 DEF Drain, RunHostOp, Stalls, TypeOK, clientVars
    <3>4. CASE next.kind = "worker" /\ Execute(next) /\ UNCHANGED hostOp
      <4>1. next \in Requests
        BY <3>2, <3>4
      <4>2. /\ buffer' \in [Workers -> Buffers]
            /\ connections' \in [Workers -> SUBSET Connections]
            /\ nextConnection' \in [Workers -> 1 .. MaxConnection + 1]
            /\ inTransaction' \in SUBSET Handles
            /\ stalled' \subseteq Steps
            /\ owner' \in SUBSET Handles
            /\ \A g, h \in owner' : g = h
            /\ draining' \in BOOLEAN
        BY <2>2, <3>4, <4>1, ExecuteType
      <4> QED BY <1>1, <2>2, <3>1, <3>4, <4>2 DEF Drain, TypeOK, clientVars, Steps
    <3> QED BY <1>1, <2>2, <3>3, <3>4 DEF Drain
  <2> QED BY <2>1, <2>2
<1>2. ASSUME NEW w \in Workers, Deliver(w)
      PROVE  TypeOK'
  <2> DEFINE m == Head(inbox[w])
  <2>1. inbox[w] \in Seq(Requests) /\ inbox[w] # << >>
    BY <1>2 DEF Deliver, TypeOK
  <2>2. m \in Requests /\ Tail(inbox[w]) \in Seq(Requests)
    BY <2>1
  <2>3. inbox' \in [Workers -> Seq(Requests)]
    BY <1>2, <2>2 DEF Deliver, TypeOK
  <2>4. CASE closed[w] /\ Respond(m, FALSE)
             /\ UNCHANGED <<owner, pending, draining, connections, nextConnection, sqliteVars>>
    <3>1. buffer' \in [Workers -> Buffers]
      BY <2>2, <2>4, RespondType
    <3> QED BY <1>2, <2>3, <2>4, <3>1 DEF Deliver, TypeOK, clientVars, sqliteVars
  <2>5. CASE ~closed[w] /\ owner # {} /\ owner # {Handle(m)} /\ pending' = Append(pending, m)
             /\ UNCHANGED <<buffer, owner, draining, connections, nextConnection, sqliteVars>>
    <3>1. pending' \in Seq(Requests \union HostRequests)
      BY <2>2, <2>5 DEF TypeOK
    <3> QED BY <1>2, <2>3, <2>5, <3>1 DEF Deliver, TypeOK, clientVars, sqliteVars
  <2>6. CASE ~closed[w] /\ (owner = {} \/ owner = {Handle(m)}) /\ Execute(m) /\ UNCHANGED pending
    <3>1. /\ buffer' \in [Workers -> Buffers]
          /\ connections' \in [Workers -> SUBSET Connections]
          /\ nextConnection' \in [Workers -> 1 .. MaxConnection + 1]
          /\ inTransaction' \in SUBSET Handles
          /\ stalled' \subseteq Steps
          /\ owner' \in SUBSET Handles
          /\ \A g, h \in owner' : g = h
          /\ draining' \in BOOLEAN
      BY <2>2, <2>6, ExecuteType
    <3> QED BY <1>2, <2>3, <2>6, <3>1 DEF Deliver, TypeOK, clientVars, Steps
  <2> QED BY <1>2, <2>4, <2>5, <2>6 DEF Deliver
<1>3. ASSUME NEW w \in Workers, CloseBroker(w)
      PROVE  TypeOK'
  <2>1. OfOthers(w) \in SUBSET DOMAIN pending /\ Retain(OfOthers(w))
    BY <1>3 DEF CloseBroker, Unregister, OfOthers
  <2>2. pending' \in Seq(Requests \union HostRequests)
    BY <2>1, RetainedFromQueue
  <2> QED BY <1>3, <2>2 DEF CloseBroker, Unregister, TypeOK, clientVars
<1>4. ASSUME NEW h \in HostOps, Submit(h)
      PROVE  TypeOK'
  <2>1. [kind |-> "host", operation |-> h] \in Requests \union HostRequests
    BY DEF HostRequests
  <2>2. CASE pending' = Append(pending, [kind |-> "host", operation |-> h])
             /\ hostOp' = [hostOp EXCEPT ![h] = "queued"] /\ UNCHANGED stalled
    <3>1. pending' \in Seq(Requests \union HostRequests)
      BY <2>1, <2>2 DEF TypeOK
    <3> QED BY <1>4, <2>2, <3>1 DEF Submit, TypeOK, clientVars, brokerVars
  <2>3. CASE RunHostOp(h) /\ UNCHANGED pending
    BY <1>4, <2>3 DEF Submit, RunHostOp, Stalls, TypeOK, clientVars, brokerVars
  <2> QED BY <1>4, <2>2, <2>3 DEF Submit
<1>5. ASSUME NEW h \in HostOps, Resume(h)
      PROVE  TypeOK'
  BY <1>5 DEF Resume, Stalls, TypeOK, clientVars, brokerVars
<1>6. CASE UseStore
  BY <1>6 DEF UseStore, Stalls, TypeOK, clientVars, brokerVars
<1> QED BY <1>1, <1>2, <1>3, <1>4, <1>5, <1>6 DEF Host

LEMMA InitType == Init => TypeOK
<1> SUFFICES ASSUME Init PROVE TypeOK
  OBVIOUS
<1>1. [w \in Workers |-> EmptyBuffer(0)] \in [Workers -> Buffers]
  BY WorkerDatabaseAssumption DEF EmptyBuffer, Buffers
<1>2. \A w \in Workers : [kind |-> "worker", worker |-> w, id |-> 0, operation |-> "open",
                          connection |-> 0, generation |-> 0] \in Requests
  BY WorkerDatabaseAssumption DEF Requests, Operations
<1>3. /\ buffer \in [Workers -> Buffers]
      /\ request \in [Workers -> Requests]
  BY <1>1, <1>2 DEF Init
<1>4. /\ nextConnection \in [Workers -> 1 .. MaxConnection + 1]
      /\ transaction \in [Workers -> 0 .. MaxConnection]
      /\ timeouts \in 0 .. MaxTimeouts
      /\ inbox \in [Workers -> Seq(Requests)]
      /\ pending \in Seq(Requests \union HostRequests)
  BY WorkerDatabaseAssumption DEF Init
<1> QED BY <1>3, <1>4 DEF Init, TypeOK

\* Every reachable state is well typed and has at most one leaseholder.
THEOREM TypeCorrect == Spec => []TypeOK
<1>1. TypeOK /\ [Next]_vars => TypeOK'
  <2>1. TypeOK /\ Next => TypeOK'
    BY ClientType, HostType DEF Next
  <2>2. TypeOK /\ UNCHANGED vars => TypeOK'
    BY DEF TypeOK, vars, clientVars, brokerVars, sqliteVars
  <2> QED BY <2>1, <2>2
<1> QED BY InitType, <1>1, PTL DEF Spec

-----------------------------------------------------------------------------
(* The lease.                                                              *)

\* A request reaches the coordinator only from its own broker, and no queued
\* request outlives its broker.
InboxIsOwn == \A w \in Workers : \A i \in DOMAIN inbox[w] : inbox[w][i].worker = w
QueueIsOpen == \A i \in DOMAIN pending : pending[i].kind = "worker" => ~closed[pending[i].worker]

\* The inductive invariant.
LeaseInvariant ==
    /\ LeaseCoversTransactions
    /\ LeaseHolderIsOpen
    /\ NoStrandedRequest
    /\ InboxIsOwn
    /\ QueueIsOpen
    /\ CoordinatedStepsNeverStall

\* A client step neither touches the lease nor SQLite.
LEMMA ClientLease ==
    ASSUME TypeOK, LeaseInvariant, NEW w \in Workers, Client(w)
    PROVE  LeaseInvariant'
<1>1. UNCHANGED <<owner, pending, draining, closed, connections, hostOp, inTransaction, stalled>>
  BY DEF Client, Ask, Receive, Retry, TimeOut, Exit, brokerVars, sqliteVars
<1>2. ASSUME NEW operation, NEW c, NEW g, Send(w, operation, c, g)
      PROVE  InboxIsOwn'
  <2> DEFINE m == [kind |-> "worker", worker |-> w, id |-> sent[w] + 1, operation |-> operation,
                   connection |-> c, generation |-> g]
  <2>1. inbox' = [inbox EXCEPT ![w] = Append(inbox[w], m)] /\ m.worker = w
    BY <1>2 DEF Send
  <2>2. SUFFICES ASSUME NEW v \in Workers, NEW i \in DOMAIN inbox'[v]
                 PROVE  inbox'[v][i].worker = v
    BY DEF InboxIsOwn
  <2>3. CASE v # w
    BY <2>1, <2>3 DEF TypeOK, LeaseInvariant, InboxIsOwn
  <2>4. CASE v = w
    <3>1. inbox[w] \in Seq(Requests) /\ inbox'[w] = Append(inbox[w], m)
      BY <2>1 DEF TypeOK
    <3>2. \A j \in DOMAIN inbox[w] : inbox[w][j].worker = w
      BY DEF LeaseInvariant, InboxIsOwn
    <3>3. CASE i \in DOMAIN inbox[w]
      <4>1. inbox'[w][i] = inbox[w][i]
        BY <3>1, <3>3
      <4> QED BY <2>4, <3>2, <3>3, <4>1
    <3>4. CASE i \notin DOMAIN inbox[w]
      <4>1. i = Len(inbox[w]) + 1
        BY <2>4, <3>1, <3>4
      <4>2. inbox'[w][i] = m
        BY <3>1, <4>1
      <4> QED BY <2>1, <2>4, <4>2
    <3> QED BY <3>3, <3>4
  <2> QED BY <2>3, <2>4
<1>3. UNCHANGED inbox \/ \E operation, c, g : Send(w, operation, c, g)
  BY DEF Client, Ask, Receive, Retry, TimeOut, Exit
<1>4. InboxIsOwn'
  BY <1>2, <1>3 DEF LeaseInvariant, InboxIsOwn
<1> QED BY <1>1, <1>4 DEF LeaseInvariant, LeaseCoversTransactions, LeaseHolderIsOpen,
             NoStrandedRequest, QueueIsOpen, CoordinatedStepsNeverStall

\* A request that runs while nobody else holds the lease leaves the lease over
\* the transactions, and does not wait inside SQLite.
LEMMA ExecuteLease ==
    ASSUME TypeOK, LeaseCoversTransactions, LeaseHolderIsOpen,
           NEW m \in Requests, ~closed[m.worker], UNCHANGED closed,
           owner = {} \/ owner = {Handle(m)}, Execute(m)
    PROVE  /\ LeaseCoversTransactions'
           /\ LeaseHolderIsOpen'
           /\ stalled' = stalled
           /\ draining => draining'
           /\ ~draining' /\ owner' = {} => owner = {}
<1>1. Others(m) = {}
  BY DEF Others, LeaseCoversTransactions
<1>2. PICK ok \in BOOLEAN :
        /\ Sqlite(m, ok)
        /\ CASE ok /\ Boundary(m) = "begin" -> owner' = {Handle(m)} /\ UNCHANGED draining
             [] ok /\ Boundary(m) = "end" /\ owner = {Handle(m)} -> ReleaseLease
             [] OTHER -> UNCHANGED <<owner, draining>>
  BY DEF Execute
<1>3. stalled' = stalled
  BY <1>1, <1>2 DEF Sqlite, SqliteOpen, SqliteClose, SqliteStatement, Stalls
<1>4. /\ Boundary(m) = "begin" => m.operation = "begin"
      /\ Boundary(m) = "end" => m.operation \in {"commit", "rollback", "close"}
      /\ m.operation = "begin" => Boundary(m) = "begin"
  BY DEF Boundary, BoundaryIgnoringBegin
<1>5. CASE ok /\ m.operation = "begin"
  <2>1. inTransaction' = inTransaction \union {Handle(m)}
    BY <1>2, <1>5 DEF Sqlite, SqliteOpen, SqliteClose, SqliteStatement
  <2>2. owner' = {Handle(m)} /\ UNCHANGED draining
    BY <1>2, <1>4, <1>5
  <2>3. Handle(m)[1] = m.worker
    BY DEF Handle
  <2> QED BY <1>3, <2>1, <2>2, <2>3 DEF LeaseCoversTransactions, LeaseHolderIsOpen
<1>6. CASE ok /\ Boundary(m) = "end" /\ owner = {Handle(m)}
  <2>1. inTransaction' = Others(m)
    BY <1>2, <1>4, <1>6 DEF Sqlite, SqliteOpen, SqliteClose, SqliteStatement
  <2>2. owner' = {} /\ draining'
    BY <1>2, <1>6 DEF ReleaseLease
  <2> QED BY <1>1, <1>3, <2>1, <2>2 DEF LeaseCoversTransactions, LeaseHolderIsOpen
<1>7. CASE ~(ok /\ m.operation = "begin") /\ ~(ok /\ Boundary(m) = "end" /\ owner = {Handle(m)})
  <2>1. inTransaction' \in {inTransaction, Others(m)}
    BY <1>2, <1>7 DEF Sqlite, SqliteOpen, SqliteClose, SqliteStatement
  <2>2. UNCHANGED <<owner, draining>>
    BY <1>2, <1>4, <1>7
  <2> QED BY <1>1, <1>3, <2>1, <2>2 DEF LeaseCoversTransactions, LeaseHolderIsOpen
<1> QED BY <1>5, <1>6, <1>7

\* The rest of the invariant does not depend on which statement ran.
LEMMA DeliverLease ==
    ASSUME TypeOK, LeaseInvariant, NEW w \in Workers, Deliver(w)
    PROVE  LeaseInvariant'
<1> DEFINE m == Head(inbox[w])
<1>1. inbox[w] \in Seq(Requests) /\ inbox[w] # << >>
  BY DEF Deliver, TypeOK
<1>2. m \in Requests /\ m.worker = w
  <2>1. 1 \in DOMAIN inbox[w] /\ m = inbox[w][1]
    BY <1>1
  <2> QED BY <1>1, <2>1 DEF LeaseInvariant, InboxIsOwn
<1>3. InboxIsOwn'
  <2>1. SUFFICES ASSUME NEW v \in Workers, NEW i \in DOMAIN inbox'[v]
                 PROVE  inbox'[v][i].worker = v
    BY DEF InboxIsOwn
  <2>2. inbox' = [inbox EXCEPT ![w] = Tail(inbox[w])]
    BY DEF Deliver
  <2>3. CASE v # w
    BY <2>2, <2>3 DEF TypeOK, LeaseInvariant, InboxIsOwn
  <2>4. CASE v = w
    <3>1. inbox'[w] = Tail(inbox[w])
      BY <2>2 DEF TypeOK
    <3>2. i + 1 \in DOMAIN inbox[w] /\ inbox'[w][i] = inbox[w][i + 1]
      BY <1>1, <2>4, <3>1
    <3> QED BY <2>4, <3>2 DEF LeaseInvariant, InboxIsOwn
  <2> QED BY <2>3, <2>4
<1>4. UNCHANGED <<closed, hostOp>> /\ ~draining
  BY DEF Deliver
<1>5. CASE closed[w] /\ UNCHANGED <<owner, pending, draining, connections, nextConnection, sqliteVars>>
  BY <1>3, <1>4, <1>5 DEF LeaseInvariant, LeaseCoversTransactions, LeaseHolderIsOpen, sqliteVars,
       NoStrandedRequest, QueueIsOpen, CoordinatedStepsNeverStall
<1>6. CASE /\ ~closed[w] /\ owner # {} /\ pending' = Append(pending, m)
           /\ UNCHANGED <<owner, draining, sqliteVars>>
  <2>1. QueueIsOpen'
    <3>1. SUFFICES ASSUME NEW i \in DOMAIN pending', pending'[i].kind = "worker"
                   PROVE  ~closed[pending'[i].worker]
      BY <1>4 DEF QueueIsOpen
    <3>2. pending \in Seq(Requests \union HostRequests)
      BY DEF TypeOK
    <3>3. CASE i \in DOMAIN pending
      <4>1. pending'[i] = pending[i]
        BY <1>2, <1>6, <3>2, <3>3
      <4> QED BY <3>1, <3>3, <4>1 DEF LeaseInvariant, QueueIsOpen
    <3>4. CASE i \notin DOMAIN pending
      <4>1. i = Len(pending) + 1
        BY <1>6, <3>2, <3>4
      <4>2. pending'[i] = m
        BY <1>6, <3>2, <4>1
      <4> QED BY <1>2, <1>6, <4>2
    <3> QED BY <3>3, <3>4
  <2> QED BY <1>3, <1>4, <1>6, <2>1 DEF LeaseInvariant, LeaseCoversTransactions, LeaseHolderIsOpen,
           sqliteVars, NoStrandedRequest, CoordinatedStepsNeverStall
<1>7. CASE /\ ~closed[w] /\ (owner = {} \/ owner = {Handle(m)}) /\ Execute(m) /\ UNCHANGED pending
  <2>1. /\ LeaseCoversTransactions'
        /\ LeaseHolderIsOpen'
        /\ stalled' = stalled
        /\ ~draining' /\ owner' = {} => owner = {}
    BY <1>2, <1>4, <1>7, ExecuteLease DEF LeaseInvariant
  <2> QED BY <1>3, <1>4, <1>7, <2>1 DEF LeaseInvariant, NoStrandedRequest, QueueIsOpen,
           CoordinatedStepsNeverStall
<1> QED BY <1>5, <1>6, <1>7 DEF Deliver

LEMMA DrainLease ==
    ASSUME TypeOK, LeaseInvariant, Drain
    PROVE  LeaseInvariant'
<1>1. UNCHANGED <<inbox, closed>> /\ draining
  BY DEF Drain
<1>2. InboxIsOwn'
  BY <1>1 DEF LeaseInvariant, InboxIsOwn
<1>3. CASE owner # {} \/ pending = << >>
  <2>1. draining' = FALSE /\ UNCHANGED <<owner, pending, hostOp, sqliteVars>>
    BY <1>3 DEF Drain
  <2> QED BY <1>1, <1>2, <1>3, <2>1 DEF LeaseInvariant, LeaseCoversTransactions, LeaseHolderIsOpen,
           sqliteVars, NoStrandedRequest, QueueIsOpen, CoordinatedStepsNeverStall
<1>4. CASE owner = {} /\ pending # << >>
  <2> DEFINE next == Head(pending)
  <2>1. pending \in Seq(Requests \union HostRequests) /\ pending # << >>
    BY <1>4 DEF TypeOK
  <2>2. /\ 1 \in DOMAIN pending /\ next = pending[1]
        /\ pending' = Tail(pending)
        /\ \A i \in DOMAIN Tail(pending) : i + 1 \in DOMAIN pending /\ Tail(pending)[i] = pending[i + 1]
    BY <1>4, <2>1 DEF Drain
  <2>3. QueueIsOpen'
    BY <1>1, <2>2 DEF LeaseInvariant, QueueIsOpen
  <2>4. next \in Requests \union HostRequests
    BY <2>1, <2>2
  <2>5. inTransaction = {}
    BY <1>4 DEF LeaseInvariant, LeaseCoversTransactions
  <2>6. CASE /\ next.kind = "host" /\ RunHostOp(next.operation)
             /\ UNCHANGED <<owner, draining, inTransaction>>
    <3>1. stalled' = stalled
      BY <2>5, <2>6 DEF RunHostOp, Stalls
    <3> QED BY <1>1, <1>2, <2>3, <2>6, <3>1 DEF LeaseInvariant, LeaseCoversTransactions,
             LeaseHolderIsOpen, NoStrandedRequest, CoordinatedStepsNeverStall
  <2>7. CASE next.kind = "worker" /\ Execute(next) /\ UNCHANGED hostOp
    <3>1. next \in Requests /\ ~closed[next.worker]
      BY <2>2, <2>4, <2>7 DEF HostRequests, LeaseInvariant, QueueIsOpen
    <3>2. /\ LeaseCoversTransactions'
          /\ LeaseHolderIsOpen'
          /\ stalled' = stalled
          /\ draining'
      BY <1>1, <1>4, <2>7, <3>1, ExecuteLease DEF LeaseInvariant
    <3> QED BY <1>2, <2>3, <2>7, <3>2 DEF LeaseInvariant, NoStrandedRequest, CoordinatedStepsNeverStall
  <2> QED BY <1>4, <2>6, <2>7 DEF Drain
<1> QED BY <1>3, <1>4

LEMMA CloseLease ==
    ASSUME TypeOK, LeaseInvariant, NEW w \in Workers, CloseBroker(w)
    PROVE  LeaseInvariant'
<1>1. /\ closed' = [closed EXCEPT ![w] = TRUE]
      /\ inTransaction' = {h \in inTransaction : h[1] # w}
      /\ owner' = {h \in owner : h[1] # w}
      /\ draining' = TRUE
      /\ Retain(OfOthers(w))
      /\ UNCHANGED <<inbox, hostOp, stalled>>
  BY DEF CloseBroker, Unregister
<1>2. LeaseCoversTransactions' /\ LeaseHolderIsOpen'
  BY <1>1 DEF LeaseInvariant, LeaseCoversTransactions, LeaseHolderIsOpen, TypeOK
<1>3. QueueIsOpen'
  <2>1. SUFFICES ASSUME NEW i \in DOMAIN pending', pending'[i].kind = "worker"
                 PROVE  ~closed'[pending'[i].worker]
    BY DEF QueueIsOpen
  <2>2. OfOthers(w) \in SUBSET DOMAIN pending
    BY DEF OfOthers
  <2>3. PICK k \in OfOthers(w) : pending'[i] = pending[k]
    BY <1>1, <2>2, RetainedFromQueue
  <2>4. pending[k].worker # w /\ ~closed[pending[k].worker]
    BY <2>1, <2>3 DEF OfOthers, LeaseInvariant, QueueIsOpen
  <2> QED BY <1>1, <2>3, <2>4 DEF TypeOK
<1> QED BY <1>1, <1>2, <1>3 DEF LeaseInvariant, NoStrandedRequest, InboxIsOwn, CoordinatedStepsNeverStall

LEMMA HostOpLease ==
    ASSUME TypeOK, LeaseInvariant, NEW h \in HostOps, Submit(h) \/ Resume(h)
    PROVE  LeaseInvariant'
<1>1. UNCHANGED <<inbox, owner, draining, closed, inTransaction>> /\ ~draining
  BY DEF Submit, Resume, brokerVars
<1>2. CASE /\ owner # {} /\ pending' = Append(pending, [kind |-> "host", operation |-> h])
           /\ hostOp' = [hostOp EXCEPT ![h] = "queued"] /\ UNCHANGED stalled
  <2>1. QueueIsOpen'
    <3>1. pending \in Seq(Requests \union HostRequests)
      BY DEF TypeOK
    <3>2. \A i \in DOMAIN pending' : pending'[i].kind = "worker" => i \in DOMAIN pending /\ pending'[i] = pending[i]
      BY <1>2, <3>1
    <3> QED BY <1>1, <3>2 DEF LeaseInvariant, QueueIsOpen
  <2> QED BY <1>1, <1>2, <2>1 DEF LeaseInvariant, LeaseCoversTransactions, LeaseHolderIsOpen,
           NoStrandedRequest, InboxIsOwn, CoordinatedStepsNeverStall
<1>3. CASE owner = {} /\ RunHostOp(h) /\ UNCHANGED pending
  <2>1. stalled' = stalled
    BY <1>3 DEF RunHostOp, Stalls, LeaseInvariant, LeaseCoversTransactions
  <2> QED BY <1>1, <1>3, <2>1 DEF LeaseInvariant, LeaseCoversTransactions, LeaseHolderIsOpen,
           NoStrandedRequest, InboxIsOwn, QueueIsOpen, CoordinatedStepsNeverStall
<1>4. CASE Resume(h)
  <2>1. UNCHANGED pending
    BY <1>4 DEF Resume
  <2>2. CoordinatedStepsNeverStall'
    BY <1>4 DEF Resume, Stalls, LeaseInvariant, CoordinatedStepsNeverStall
  <2> QED BY <1>1, <2>1, <2>2 DEF LeaseInvariant, LeaseCoversTransactions, LeaseHolderIsOpen,
           NoStrandedRequest, InboxIsOwn, QueueIsOpen, CoordinatedStepsNeverStall
<1> QED BY <1>2, <1>3, <1>4 DEF Submit

\* Nor does a store that is opened without the coordinator: it may wait itself.
LEMMA StoreLease ==
    ASSUME LeaseInvariant, UseStore
    PROVE  LeaseInvariant'
<1>1. UNCHANGED <<inbox, owner, pending, draining, closed, inTransaction>>
  BY DEF UseStore, brokerVars
<1>2. CoordinatedStepsNeverStall'
  BY DEF UseStore, Stalls, LeaseInvariant, CoordinatedStepsNeverStall
<1> QED BY <1>1, <1>2 DEF LeaseInvariant, LeaseCoversTransactions, LeaseHolderIsOpen,
           NoStrandedRequest, InboxIsOwn, QueueIsOpen

LEMMA InitLease == Init => LeaseInvariant
BY DEF Init, LeaseInvariant, LeaseCoversTransactions, LeaseHolderIsOpen, NoStrandedRequest,
       InboxIsOwn, QueueIsOpen, CoordinatedStepsNeverStall

LEMMA LeaseInvariantHolds == Spec => []LeaseInvariant
<1>1. TypeOK /\ LeaseInvariant /\ [Next]_vars => LeaseInvariant'
  <2>1. TypeOK /\ LeaseInvariant /\ Next => LeaseInvariant'
    BY ClientLease, DeliverLease, DrainLease, CloseLease, HostOpLease, StoreLease DEF Next, Host
  <2>2. LeaseInvariant /\ UNCHANGED vars => LeaseInvariant'
    BY DEF vars, brokerVars, sqliteVars, LeaseInvariant, LeaseCoversTransactions, LeaseHolderIsOpen,
           NoStrandedRequest, InboxIsOwn, QueueIsOpen, CoordinatedStepsNeverStall
  <2> QED BY <2>1, <2>2
<1> QED BY InitLease, TypeCorrect, <1>1, PTL DEF Spec

\* Whatever workers do, time out on or die of, only the leaseholder is in an
\* explicit transaction, and the lease is never left with a closed broker.
THEOREM TransactionsAreLeased == Spec => []LeaseIsRightlyHeld
BY LeaseInvariantHolds, PTL DEF LeaseInvariant, LeaseIsRightlyHeld

\* No request is forgotten in the queue of a free database.
THEOREM QueueIsDrained == Spec => []NoStrandedRequest
BY LeaseInvariantHolds, PTL DEF LeaseInvariant

\* Whatever the host does without the coordinator or after an await, no statement of a worker
\* and no host operation that the coordinator lets run waits inside SQLite for somebody
\* else's transaction (dispatch, runWhenAvailable, drain).
THEOREM CoordinatorKeepsTheLoopFree == Spec => []CoordinatedStepsNeverStall
BY LeaseInvariantHolds, PTL DEF LeaseInvariant

-----------------------------------------------------------------------------
(* The answers.  Until a wait times out, a worker has at most one request  *)
(* on its way, so a full buffer can only hold the answer to that one.      *)

\* The queue positions of a worker's requests.
Queued(w) == {i \in DOMAIN pending : pending[i].kind = "worker" /\ pending[i].worker = w}

OneInFlightOf(w) ==
    /\ Len(inbox[w]) <= 1
    /\ \A i \in DOMAIN inbox[w] : inbox[w][i] = request[w]
    /\ \A i \in Queued(w) : pending[i] = request[w] /\ inbox[w] = << >>
    /\ \A i, j \in Queued(w) : i = j
    /\ inbox[w] # << >> \/ Queued(w) # {} => phase[w] # "idle" /\ ~buffer[w].full

OneInFlight == \A w \in Workers : OneInFlightOf(w)

BufferIsCurrent ==
    \A w \in Workers : Waiting(w) => buffer[w].generation = request[w].generation

RequestIsOwn == \A w \in Workers : request[w].worker = w

Channel == OneInFlight /\ RequestIsOwn /\ BufferIsCurrent /\ AnswersMatch

\* The inductive invariant: a request that outlives its client's wait ends it.
ChannelInvariant == timeouts = 0 => Channel

\* A worker that posts a message had none on its way.
LEMMA SendChannel ==
    ASSUME TypeOK, Channel, NEW w \in Workers, NEW operation \in Operations,
           NEW c \in 0 .. MaxConnection, NEW g \in 0 .. MaxGeneration,
           Send(w, operation, c, g), UNCHANGED pending,
           phase[w] = "idle" \/ buffer[w].full
    PROVE  Channel'
<1> DEFINE m == [kind |-> "worker", worker |-> w, id |-> sent[w] + 1, operation |-> operation,
                 connection |-> c, generation |-> g]
<1>1. /\ phase' = [phase EXCEPT ![w] = "waiting"]
      /\ request' = [request EXCEPT ![w] = m]
      /\ buffer' = [buffer EXCEPT ![w] = ResetBuffer(buffer[w], g)]
      /\ inbox' = [inbox EXCEPT ![w] = Append(inbox[w], m)]
  BY DEF Send
<1>2. /\ phase'[w] = "waiting" /\ request'[w] = m
      /\ buffer'[w] = ResetBuffer(buffer[w], g) /\ inbox'[w] = Append(inbox[w], m)
      /\ \A v \in Workers : v # w => /\ phase'[v] = phase[v] /\ request'[v] = request[v]
                                     /\ buffer'[v] = buffer[v] /\ inbox'[v] = inbox[v]
  BY <1>1 DEF TypeOK
<1>3. inbox[w] = << >> /\ Queued(w) = {}
  BY DEF Channel, OneInFlight, OneInFlightOf
<1>4. buffer'[w].generation = g /\ ~buffer'[w].full
  <2>1. buffer[w] \in Buffers
    BY DEF TypeOK
  <2> QED BY <1>2, <2>1 DEF ResetBuffer, EmptyBuffer, Buffers
<1>5. inbox'[w] = <<m>>
  BY <1>2, <1>3
<1>6. \A v \in Workers : Queued(v)' = Queued(v)
  BY DEF Queued
<1>7. OneInFlight'
  <2>1. SUFFICES ASSUME NEW v \in Workers
                 PROVE  OneInFlightOf(v)'
    BY DEF OneInFlight, OneInFlightOf
  <2>2. CASE v = w
    <3>1. Queued(w)' = {}
      BY <1>3, <1>6
    <3>2. Len(<<m>>) <= 1 /\ \A i \in DOMAIN <<m>> : <<m>>[i] = m
      OBVIOUS
    <3> QED BY <1>2, <1>4, <1>5, <2>2, <3>1, <3>2 DEF OneInFlightOf
  <2>3. CASE v # w
    BY <1>2, <1>6, <2>3 DEF Channel, OneInFlight, OneInFlightOf
  <2> QED BY <2>2, <2>3
<1>8. RequestIsOwn' /\ BufferIsCurrent' /\ AnswersMatch'
  BY <1>2, <1>4 DEF Channel, RequestIsOwn, BufferIsCurrent, AnswersMatch, Waiting, Answered
<1> QED BY <1>7, <1>8 DEF Channel

\* The answer to the request a worker waits for arrives in the buffer it waits on.
LEMMA RespondChannel ==
    ASSUME TypeOK, Channel, NEW w \in Workers, NEW ok \in BOOLEAN, Respond(request[w], ok),
           UNCHANGED <<phase, request>>
    PROVE  /\ RequestIsOwn' /\ BufferIsCurrent' /\ AnswersMatch'
           /\ \A v \in Workers : v # w => buffer'[v] = buffer[v]
           /\ Waiting(w) => buffer'[w].full
<1> DEFINE m == request[w]
<1>1. m \in Requests /\ m.worker = w
  BY DEF TypeOK, Channel, RequestIsOwn
<1> DEFINE value == IF ok /\ m.operation = "open" THEN nextConnection[m.worker] ELSE 0
<1>2. PICK result \in {"ok", "error", "tooSmall"} :
        buffer' = [buffer EXCEPT ![w] =
                     IF buffer[w].generation # m.generation THEN buffer[w]
                     ELSE [buffer[w] EXCEPT !.full = TRUE, !.answers = m.id, !.result = result,
                                            !.value = value]]
  BY <1>1 DEF Respond
<1>3. \A v \in Workers : v # w => buffer'[v] = buffer[v]
  BY <1>2 DEF TypeOK
<1>4. ASSUME Waiting(w)
      PROVE  buffer'[w].full /\ buffer'[w].answers = m.id /\ buffer'[w].generation = buffer[w].generation
  <2>1. buffer[w].generation = m.generation
    BY <1>4 DEF Channel, BufferIsCurrent
  <2>2. buffer[w] \in Buffers
    BY DEF TypeOK
  <2>3. buffer'[w] = [buffer[w] EXCEPT !.full = TRUE, !.answers = m.id, !.result = result,
                                       !.value = value]
    BY <1>2, <2>1 DEF TypeOK
  <2> QED BY <2>2, <2>3 DEF Buffers
<1>5. BufferIsCurrent' /\ AnswersMatch'
  BY <1>3, <1>4 DEF Channel, BufferIsCurrent, AnswersMatch, Waiting, Answered
<1> QED BY <1>3, <1>4, <1>5 DEF Channel, RequestIsOwn

\* What every step of the client leaves of it.
LEMMA ClientChannel ==
    ASSUME TypeOK, Channel, NEW w \in Workers, Client(w), timeouts' = timeouts
    PROVE  Channel'
<1>1. ASSUME NEW operation \in Operations, NEW c \in 0 .. MaxConnection, Ask(w, operation, c)
      PROVE  Channel'
  <2>1. buffer[w].generation \in 0 .. MaxGeneration
    BY DEF TypeOK, Buffers
  <2> QED BY <1>1, <2>1, SendChannel DEF Ask
<1>2. CASE Retry(w)
  <2>1. buffer[w].generation + 1 \in 0 .. MaxGeneration
    BY <1>2, WorkerDatabaseAssumption DEF Retry, MayRetry, TypeOK, Buffers
  <2>2. request[w].connection \in 0 .. MaxConnection /\ "read" \in Operations
    BY DEF TypeOK, Requests, Operations
  <2> QED BY <1>2, <2>1, <2>2, SendChannel DEF Retry, Answered
<1>3. CASE Receive(w) \/ Exit(w)
  <2>1. /\ UNCHANGED <<request, buffer, inbox, pending>>
        /\ phase' = [phase EXCEPT ![w] = IF Receive(w) THEN "idle" ELSE "exited"]
    BY <1>3 DEF Receive, Exit, Answered, Waiting
  <2>2. \A v \in Workers : Queued(v)' = Queued(v)
    BY <2>1 DEF Queued
  <2>3. Receive(w) => buffer[w].full
    BY DEF Receive, Answered
  <2>4. OneInFlight'
    BY <2>1, <2>2, <2>3 DEF Channel, OneInFlight, OneInFlightOf, TypeOK
  <2>5. BufferIsCurrent' /\ AnswersMatch' /\ RequestIsOwn'
    BY <2>1 DEF Channel, BufferIsCurrent, AnswersMatch, RequestIsOwn, Waiting, Answered, TypeOK
  <2> QED BY <2>4, <2>5 DEF Channel
<1>4. ~TimeOut(w)
  BY DEF TimeOut, TypeOK
<1> QED BY <1>1, <1>2, <1>3, <1>4 DEF Client

\* A request leaves its inbox: it is answered, or it moves to the end of the queue.
LEMMA DeliverChannel ==
    ASSUME TypeOK, Channel, NEW w \in Workers, Deliver(w)
    PROVE  Channel'
<1> DEFINE m == Head(inbox[w])
<1>1. inbox[w] \in Seq(Requests) /\ inbox[w] # << >> /\ Len(inbox[w]) <= 1
  BY DEF Deliver, TypeOK, Channel, OneInFlight, OneInFlightOf
<1>2. m = request[w] /\ Tail(inbox[w]) = << >>
  <2>1. 1 \in DOMAIN inbox[w] /\ m = inbox[w][1]
    BY <1>1
  <2> QED BY <1>1, <2>1 DEF Channel, OneInFlight, OneInFlightOf
<1>3. UNCHANGED <<phase, request>> /\ Queued(w) = {}
  BY <1>1 DEF Deliver, clientVars, Channel, OneInFlight, OneInFlightOf
<1>4. inbox'[w] = << >> /\ \A v \in Workers : v # w => inbox'[v] = inbox[v]
  BY <1>2 DEF Deliver, TypeOK
<1>5. m \in Requests /\ m.worker = w
  BY <1>2 DEF TypeOK, Channel, RequestIsOwn
<1>6. ASSUME NEW ok \in BOOLEAN, Respond(m, ok), UNCHANGED pending
      PROVE  Channel'
  <2>1. \A v \in Workers : Queued(v)' = Queued(v)
    BY <1>6 DEF Queued
  <2>2. /\ RequestIsOwn' /\ BufferIsCurrent' /\ AnswersMatch'
        /\ \A v \in Workers : v # w => buffer'[v] = buffer[v]
    BY <1>2, <1>3, <1>6, RespondChannel
  <2>3. OneInFlight'
    BY <1>3, <1>4, <1>6, <2>1, <2>2 DEF Channel, OneInFlight, OneInFlightOf
  <2> QED BY <2>2, <2>3 DEF Channel
<1>7. ASSUME pending' = Append(pending, m), UNCHANGED buffer
      PROVE  Channel'
  <2>1. pending \in Seq(Requests \union HostRequests)
    BY DEF TypeOK
  <2>2. /\ DOMAIN pending' = DOMAIN pending \union {Len(pending) + 1}
        /\ Len(pending) + 1 \notin DOMAIN pending
        /\ \A i \in DOMAIN pending : pending'[i] = pending[i]
        /\ pending'[Len(pending) + 1] = m
    BY <1>7, <2>1
  <2>3. Queued(w)' = {Len(pending) + 1}
    BY <1>3, <1>5, <2>2 DEF Queued, Requests
  <2>4. \A v \in Workers : v # w => Queued(v)' = Queued(v)
    BY <1>5, <2>2 DEF Queued, Requests
  <2>5. phase[w] # "idle" /\ ~buffer[w].full
    BY <1>1 DEF Channel, OneInFlight, OneInFlightOf
  <2>6. OneInFlight'
    <3>1. SUFFICES ASSUME NEW v \in Workers
                   PROVE  OneInFlightOf(v)'
      BY DEF OneInFlight, OneInFlightOf
    <3>2. CASE v = w
      BY <1>2, <1>3, <1>4, <1>7, <2>2, <2>3, <2>5, <3>2 DEF OneInFlightOf
    <3>3. CASE v # w
      <4>1. \A i \in Queued(v) : i \in DOMAIN pending
        BY DEF Queued
      <4> QED BY <1>3, <1>4, <1>7, <2>2, <2>4, <3>3, <4>1 DEF Channel, OneInFlight, OneInFlightOf
    <3> QED BY <3>2, <3>3
  <2> QED BY <1>3, <1>7, <2>6 DEF Channel, RequestIsOwn, BufferIsCurrent, AnswersMatch, Waiting, Answered
<1>8. (\E ok \in BOOLEAN : Respond(m, ok) /\ UNCHANGED pending) \/ (pending' = Append(pending, m) /\ UNCHANGED buffer)
  BY DEF Deliver, Execute
<1> QED BY <1>6, <1>7, <1>8

\* Taking the head of the queue answers it or runs a host operation.
LEMMA DrainChannel ==
    ASSUME TypeOK, Channel, Drain
    PROVE  Channel'
<1>1. UNCHANGED <<phase, request, inbox>>
  BY DEF Drain, clientVars
<1>2. CASE UNCHANGED <<buffer, pending>>
  BY <1>1, <1>2 DEF Channel, OneInFlight, OneInFlightOf, Queued, RequestIsOwn, BufferIsCurrent, AnswersMatch,
       Waiting, Answered
<1>3. CASE owner = {} /\ pending # << >> /\ pending' = Tail(pending)
  <2> DEFINE next == Head(pending)
  <2>1. pending \in Seq(Requests \union HostRequests)
    BY DEF TypeOK
  <2>2. /\ 1 \in DOMAIN pending /\ next = pending[1]
        /\ \A i \in DOMAIN pending' : /\ i \in Nat /\ i # 0 /\ i + 1 \in DOMAIN pending
                                      /\ pending'[i] = pending[i + 1]
    BY <1>3, <2>1
  <2>3. \A v \in Workers : \A i \in Queued(v)' : i \in Nat /\ i # 0 /\ i + 1 \in Queued(v) /\ pending'[i] = pending[i + 1]
    BY <2>2 DEF Queued
  <2>4. ASSUME NEW v \in Workers, buffer'[v] = buffer[v] \/ (Queued(v)' = {} /\ inbox[v] = << >>)
        PROVE  OneInFlightOf(v)'
    <3>1. \A i, j \in Queued(v)' : i = j
      <4>1. SUFFICES ASSUME NEW i \in Queued(v)', NEW j \in Queued(v)' PROVE i = j
        OBVIOUS
      <4>2. i + 1 = j + 1 /\ i \in Nat /\ j \in Nat
        BY <2>3 DEF Channel, OneInFlight, OneInFlightOf
      <4> QED BY <4>2
    <3> QED BY <1>1, <2>3, <2>4, <3>1 DEF Channel, OneInFlight, OneInFlightOf
  <2>5. CASE next.kind = "host" /\ UNCHANGED buffer
    <3>1. OneInFlight'
      <4>1. ASSUME NEW v \in Workers PROVE OneInFlightOf(v)'
        BY <2>4, <2>5
      <4> QED BY <4>1 DEF OneInFlight
    <3> QED BY <1>1, <2>5, <3>1 DEF Channel, RequestIsOwn, BufferIsCurrent, AnswersMatch, Waiting, Answered
  <2>6. CASE next.kind = "worker" /\ \E ok \in BOOLEAN : Respond(next, ok)
    <3>1. PICK w \in Workers : w = next.worker
      BY <2>1, <2>2, <2>6 DEF HostRequests, Requests
    <3>2. 1 \in Queued(w)
      BY <2>2, <2>6, <3>1 DEF Queued
    <3>3. next = request[w] /\ inbox[w] = << >>
      BY <2>2, <3>2 DEF Channel, OneInFlight, OneInFlightOf
    <3>4. Queued(w)' = {}
      <4>1. ASSUME NEW i \in Queued(w)'
            PROVE  FALSE
        <5>1. i + 1 \in Queued(w) /\ i \in Nat /\ i # 0
          BY <2>3, <4>1
        <5>2. i + 1 = 1
          BY <3>2, <5>1 DEF Channel, OneInFlight, OneInFlightOf
        <5> QED BY <5>1, <5>2
      <4> QED BY <4>1
    <3>5. /\ RequestIsOwn' /\ BufferIsCurrent' /\ AnswersMatch'
          /\ \A v \in Workers : v # w => buffer'[v] = buffer[v]
      BY <1>1, <2>6, <3>2, <3>3, RespondChannel
    <3>6. OneInFlight'
      <4>1. OneInFlightOf(w)'
        BY <2>4, <3>2, <3>3, <3>4
      <4>2. ASSUME NEW v \in Workers PROVE OneInFlightOf(v)'
        BY <2>4, <3>5, <4>1
      <4> QED BY <4>2 DEF OneInFlight
    <3> QED BY <3>5, <3>6 DEF Channel
  <2>7. \/ next.kind = "host" /\ UNCHANGED buffer
        \/ next.kind = "worker" /\ \E ok \in BOOLEAN : Respond(next, ok)
    BY <1>1, <1>3, <2>1 DEF Drain, Execute
  <2> QED BY <2>5, <2>6, <2>7
<1> QED BY <1>2, <1>3 DEF Drain

\* coordinator.unregister never puts a queued request into two places.
LEMMA RetainedOnce ==
    ASSUME TypeOK, NEW K \in SUBSET DOMAIN pending, Retain(K)
    PROVE  \E f \in [DOMAIN pending' -> K] :
             /\ \A i \in DOMAIN pending' : pending'[i] = pending[f[i]]
             /\ \A i, j \in DOMAIN pending' : f[i] = f[j] => i = j
<1>1. DOMAIN pending = 1 .. Len(pending) /\ Len(pending) \in Nat
  BY DEF TypeOK
<1>2. Cardinality(K) \in Nat
  <2>1. IsFiniteSet(1 .. Len(pending))
    BY <1>1, FS_Interval
  <2> QED BY <1>1, <2>1, FS_Subset, FS_CardinalityType
<1>3. PICK f \in [1 .. Cardinality(K) -> K] :
        /\ \A i, j \in DOMAIN f : i < j => f[i] < f[j]
        /\ pending' = [i \in DOMAIN f |-> pending[f[i]]]
  BY DEF Retain
<1>4. DOMAIN f = 1 .. Cardinality(K) /\ DOMAIN pending' = 1 .. Cardinality(K)
  BY <1>3
<1>5. \A i, j \in DOMAIN pending' : f[i] = f[j] => i = j
  <2>1. SUFFICES ASSUME NEW i \in 1 .. Cardinality(K), NEW j \in 1 .. Cardinality(K), f[i] = f[j]
                 PROVE  i = j
    BY <1>4
  <2>2. i \in Int /\ j \in Int /\ f[i] \in Int
    BY <1>1, <1>2, <1>3
  <2>3. ~(i < j) /\ ~(j < i)
    BY <1>3, <1>4, <2>1, <2>2
  <2> QED BY <2>2, <2>3
<1> QED BY <1>3, <1>4, <1>5

\* Closing a broker and host operations put no request on its way.
LEMMA CloseChannel ==
    ASSUME TypeOK, Channel, NEW w \in Workers, CloseBroker(w)
    PROVE  Channel'
<1>1. UNCHANGED <<phase, request, inbox, buffer>>
  BY DEF CloseBroker, clientVars
<1>2. OfOthers(w) \in SUBSET DOMAIN pending /\ Retain(OfOthers(w))
  BY DEF CloseBroker, Unregister, OfOthers
<1>3. PICK f \in [DOMAIN pending' -> OfOthers(w)] :
        /\ \A i \in DOMAIN pending' : pending'[i] = pending[f[i]]
        /\ \A i, j \in DOMAIN pending' : f[i] = f[j] => i = j
  BY <1>2, RetainedOnce
<1>4. ASSUME NEW v \in Workers
      PROVE  OneInFlightOf(v)'
  <2>1. \A i \in Queued(v)' : i \in DOMAIN pending' /\ f[i] \in Queued(v) /\ pending'[i] = pending[f[i]]
    BY <1>2, <1>3 DEF Queued
  <2>2. \A i, j \in Queued(v)' : i = j
    BY <1>3, <2>1 DEF Channel, OneInFlight, OneInFlightOf
  <2> QED BY <1>1, <2>1, <2>2 DEF Channel, OneInFlight, OneInFlightOf
<1> QED BY <1>1, <1>4 DEF Channel, OneInFlight, RequestIsOwn, BufferIsCurrent, AnswersMatch, Waiting, Answered

LEMMA HostOpChannel ==
    ASSUME TypeOK, Channel, NEW h \in HostOps, Submit(h) \/ Resume(h)
    PROVE  Channel'
<1>1. UNCHANGED <<phase, request, inbox, buffer>>
  BY DEF Submit, Resume, clientVars
<1>2. UNCHANGED pending \/ pending' = Append(pending, [kind |-> "host", operation |-> h])
  BY DEF Submit, Resume
<1>3. ASSUME NEW v \in Workers
      PROVE  Queued(v)' = Queued(v) /\ \A i \in Queued(v) : pending'[i] = pending[i]
  <2>1. CASE UNCHANGED pending
    BY <2>1 DEF Queued
  <2>2. CASE pending' = Append(pending, [kind |-> "host", operation |-> h])
    <3>1. pending \in Seq(Requests \union HostRequests)
      BY DEF TypeOK
    <3>2. /\ DOMAIN pending' = DOMAIN pending \union {Len(pending) + 1}
          /\ \A i \in DOMAIN pending : pending'[i] = pending[i]
          /\ pending'[Len(pending) + 1].kind = "host"
      BY <2>2, <3>1
    <3> QED BY <3>2 DEF Queued
  <2> QED BY <1>2, <2>1, <2>2
<1>4. ASSUME NEW v \in Workers
      PROVE  OneInFlightOf(v)'
  BY <1>1, <1>3 DEF Channel, OneInFlight, OneInFlightOf
<1> QED BY <1>1, <1>4 DEF Channel, OneInFlight, RequestIsOwn, BufferIsCurrent, AnswersMatch, Waiting, Answered

LEMMA StoreChannel ==
    ASSUME Channel, UseStore
    PROVE  Channel'
<1>1. UNCHANGED <<phase, request, inbox, buffer, pending>>
  BY DEF UseStore, clientVars
<1> QED BY <1>1 DEF Channel, OneInFlight, OneInFlightOf, Queued, RequestIsOwn, BufferIsCurrent,
           AnswersMatch, Waiting, Answered

LEMMA InitChannel == Init => ChannelInvariant
BY DEF Init, ChannelInvariant, Channel, OneInFlight, OneInFlightOf, Queued, RequestIsOwn,
       BufferIsCurrent, AnswersMatch, Waiting, Answered

\* The number of waits that ran out only grows.
LEMMA TimeoutsGrow ==
    ASSUME TypeOK, Next, timeouts' = 0
    PROVE  timeouts = 0
<1>1. timeouts' = timeouts \/ timeouts' = timeouts + 1
  BY DEF Next, Host, Client, Drain, Deliver, CloseBroker, Submit, Resume, UseStore, Ask, Receive, Retry,
         TimeOut, Exit, clientVars
<1> QED BY <1>1 DEF TypeOK

LEMMA ChannelInvariantHolds == Spec => []ChannelInvariant
<1>1. TypeOK /\ ChannelInvariant /\ [Next]_vars => ChannelInvariant'
  <2>1. ASSUME TypeOK, ChannelInvariant, Next, timeouts' = 0
        PROVE  Channel'
    <3>1. timeouts = 0 /\ Channel
      BY <2>1, TimeoutsGrow DEF ChannelInvariant
    <3>2. (\E w \in Workers : Client(w)) \/ Host
      BY <2>1 DEF Next
    <3> QED BY <2>1, <3>1, <3>2, ClientChannel, DeliverChannel, DrainChannel, CloseChannel,
               HostOpChannel, StoreChannel DEF Host
  <2>2. ChannelInvariant /\ UNCHANGED vars => ChannelInvariant'
    BY DEF vars, clientVars, ChannelInvariant, Channel, OneInFlight, OneInFlightOf, Queued,
           RequestIsOwn, BufferIsCurrent, AnswersMatch, Waiting, Answered
  <2> QED BY <2>1, <2>2 DEF ChannelInvariant
<1> QED BY InitChannel, TypeCorrect, <1>1, PTL DEF Spec

\* As long as no wait of a worker has run out, the answer a store operation returns
\* is the answer to that operation (request in workerDatabaseClient.ts): one that
\* comes after its client gave up would be taken for the next request's.
THEOREM AnswersBelong == Spec => [](timeouts = 0 => AnswersMatch)
<1>1. ChannelInvariant => (timeouts = 0 => AnswersMatch)
  BY DEF ChannelInvariant, Channel
<1> QED BY ChannelInvariantHolds, <1>1, PTL

-----------------------------------------------------------------------------
(* Who is inside a transaction.  Until a wait times out, and when SQLite   *)
(* ends no transaction by itself, three accounts agree: the worker's code, *)
(* the lease, and the connections' own transactions.                       *)

\* A broker closes after its worker has gone.
ClosedIsGone == \A w \in Workers : closed[w] => phase[w] = "exited"

LeaseIsTransaction == owner = inTransaction

TransactionIsOpen == \A h \in inTransaction : h[2] \in connections[h[1]]

\* The transaction the worker will believe in once it has read its answer.
Afterwards(w) ==
    LET operation == request[w].operation
    IN  CASE Answered(w) /\ buffer[w].result = "ok" /\ operation = "begin" -> request[w].connection
          [] Answered(w) /\ buffer[w].result = "ok" /\ operation = "commit" -> 0
          [] Answered(w) /\ operation = "rollback" -> 0
          [] OTHER -> transaction[w]

\* The one connection of the worker that is in a transaction, or none.
Inside(w, t) == \A c \in Connections : <<w, c>> \in inTransaction <=> c = t

WorkersKnow == \A w \in Workers : phase[w] # "exited" => Inside(w, Afterwards(w))

\* A boundary is asked for where the code of the stores asks for it.
BoundaryIsAsked ==
    \A w \in Workers : Waiting(w) =>
      /\ request[w].operation \in {"begin", "close"} => transaction[w] = 0
      /\ request[w].operation = "begin" => request[w].connection # 0
      /\ request[w].operation \in {"commit", "rollback"} =>
           request[w].connection = transaction[w] /\ transaction[w] # 0

Agreement == LeaseIsTransaction /\ TransactionIsOpen /\ WorkersKnow /\ BoundaryIsAsked

\* The inductive invariant.
AgreementInvariant == ClosedIsGone /\ (timeouts = 0 => Agreement)

\* A client step reads an answer or posts a request: what the worker will believe
\* stays what it would have believed.
LEMMA ClientBelief ==
    ASSUME TypeOK, BoundaryIsAsked, NEW w \in Workers, Client(w), timeouts' = timeouts,
           phase'[w] # "exited"
    PROVE  /\ phase[w] # "exited"
           /\ Afterwards(w)' = Afterwards(w)
           /\ Waiting(w)' =>
                /\ request'[w].operation \in {"begin", "close"} => transaction'[w] = 0
                /\ request'[w].operation = "begin" => request'[w].connection # 0
                /\ request'[w].operation \in {"commit", "rollback"} =>
                     request'[w].connection = transaction'[w] /\ transaction'[w] # 0
<1>1. ASSUME NEW operation, NEW c, NEW g, Send(w, operation, c, g)
      PROVE  /\ phase'[w] = "waiting" /\ ~buffer'[w].full
             /\ request'[w].operation = operation /\ request'[w].connection = c
  <2>1. buffer[w] \in Buffers
    BY DEF TypeOK
  <2>2. buffer'[w] = ResetBuffer(buffer[w], g)
    BY <1>1 DEF Send, TypeOK
  <2>3. ~buffer'[w].full
    BY <2>1, <2>2 DEF ResetBuffer, EmptyBuffer, Buffers
  <2>4. request'[w] = [kind |-> "worker", worker |-> w, id |-> sent[w] + 1, operation |-> operation,
                       connection |-> c, generation |-> g]
    BY <1>1 DEF Send, TypeOK
  <2> QED BY <1>1, <2>3, <2>4 DEF Send, TypeOK
<1>2. ASSUME NEW operation \in Operations, NEW c \in 0 .. MaxConnection, Ask(w, operation, c)
      PROVE  phase[w] # "exited" /\ Afterwards(w)' = Afterwards(w)
             /\ (operation \in {"begin", "close"} => transaction'[w] = 0)
             /\ (operation = "begin" => c # 0)
             /\ (operation \in {"commit", "rollback"} => c = transaction'[w] /\ transaction'[w] # 0)
  <2>1. phase[w] = "idle" /\ UNCHANGED transaction /\ Send(w, operation, c, buffer[w].generation)
    BY <1>2 DEF Ask
  <2>2. opened[w] \subseteq Connections /\ 0 \notin Connections
    BY DEF TypeOK, Connections
  <2>3. /\ operation \in {"begin", "close"} => transaction[w] = 0
        /\ operation = "begin" => c # 0
        /\ operation \in {"commit", "rollback"} => c = transaction[w] /\ transaction[w] # 0
    BY <1>2, <2>2 DEF Ask, MayAsk
  <2>4. Afterwards(w)' = transaction'[w] /\ Afterwards(w) = transaction[w]
    BY <1>1, <2>1 DEF Afterwards, Answered, Waiting
  <2> QED BY <2>1, <2>3, <2>4
<1>3. CASE \E operation \in Operations, c \in 0 .. MaxConnection : Ask(w, operation, c)
  BY <1>1, <1>2, <1>3 DEF Ask
<1>4. CASE Retry(w)
  <2>1. UNCHANGED transaction /\ Send(w, "read", request[w].connection, buffer[w].generation + 1)
    BY <1>4 DEF Retry
  <2>2. phase[w] = "waiting" /\ buffer[w].result = "tooSmall" /\ request[w].operation = "read"
    BY <1>4 DEF Retry, MayRetry, Answered, Waiting
  <2>3. Afterwards(w)' = transaction'[w] /\ Afterwards(w) = transaction[w]
    BY <1>1, <2>1, <2>2 DEF Afterwards, Answered, Waiting
  <2> QED BY <1>1, <2>1, <2>2, <2>3
<1>5. CASE Receive(w)
  <2>1. phase'[w] = "idle" /\ phase[w] = "waiting" /\ Answered(w)
    BY <1>5 DEF Receive, Answered, Waiting, TypeOK
  <2>2. Afterwards(w)' = transaction'[w]
    BY <2>1 DEF Afterwards, Answered, Waiting
  <2>3. CASE buffer[w].result = "ok"
    <3>1. Returns(w)
      BY <1>5, <2>3 DEF Receive
    <3>2. transaction'[w] = Afterwards(w)
      BY <2>1, <2>3, <3>1 DEF Returns, Afterwards, TypeOK
    <3> QED BY <2>1, <2>2, <3>2 DEF Waiting
  <2>4. CASE buffer[w].result # "ok"
    <3>1. Throws(w)
      BY <1>5, <2>4 DEF Receive
    <3>2. transaction'[w] = Afterwards(w)
      BY <2>1, <2>4, <3>1 DEF Throws, Afterwards, TypeOK
    <3> QED BY <2>1, <2>2, <3>2 DEF Waiting
  <2> QED BY <2>3, <2>4
<1>6. ~TimeOut(w) /\ ~Exit(w)
  BY DEF TimeOut, Exit, TypeOK
<1> QED BY <1>3, <1>4, <1>5, <1>6 DEF Client

LEMMA ClientAgreement ==
    ASSUME TypeOK, Agreement, NEW w \in Workers, Client(w), timeouts' = timeouts
    PROVE  Agreement'
<1>1. UNCHANGED <<owner, inTransaction, connections>>
  BY DEF Client, Ask, Receive, Retry, TimeOut, Exit, brokerVars, sqliteVars
<1>2. \A v \in Workers : v # w => /\ phase'[v] = phase[v] /\ request'[v] = request[v]
                                  /\ buffer'[v] = buffer[v] /\ transaction'[v] = transaction[v]
  BY DEF Client, Ask, Receive, Retry, TimeOut, Exit, Send, Returns, Throws, TypeOK
<1>3. ASSUME NEW v \in Workers, phase'[v] # "exited"
      PROVE  Inside(v, Afterwards(v))'
  <2>1. phase[v] # "exited" /\ Afterwards(v)' = Afterwards(v)
    <3>1. CASE v = w
      BY <1>3, <3>1, ClientBelief DEF Agreement
    <3>2. CASE v # w
      BY <1>2, <1>3, <3>2 DEF Afterwards, Answered, Waiting
    <3> QED BY <3>1, <3>2
  <2> QED BY <1>1, <2>1 DEF Agreement, WorkersKnow, Inside
<1>4. ASSUME NEW v \in Workers, Waiting(v)'
      PROVE  /\ request'[v].operation \in {"begin", "close"} => transaction'[v] = 0
             /\ request'[v].operation = "begin" => request'[v].connection # 0
             /\ request'[v].operation \in {"commit", "rollback"} =>
                  request'[v].connection = transaction'[v] /\ transaction'[v] # 0
  <2>1. CASE v = w
    BY <1>4, <2>1, ClientBelief DEF Agreement, Waiting
  <2>2. CASE v # w
    BY <1>2, <1>4, <2>2 DEF Agreement, BoundaryIsAsked, Waiting
  <2> QED BY <2>1, <2>2
<1>5. WorkersKnow' /\ BoundaryIsAsked'
  BY <1>3, <1>4 DEF WorkersKnow, BoundaryIsAsked
<1> QED BY <1>1, <1>5 DEF Agreement, LeaseIsTransaction, TransactionIsOpen

\* What an executed request does to the lease and to its connection's transaction,
\* and that its worker learns of it.
LEMMA ExecuteEffect ==
    ASSUME TypeOK, AutoRollback = FALSE, NEW m \in Requests, Execute(m),
           owner = {} \/ owner = {Handle(m)}
    PROVE  \E ok \in BOOLEAN :
             /\ Sqlite(m, ok)
             /\ Respond(m, ok)
             /\ ok /\ m.operation = "begin" =>
                  /\ inTransaction' = inTransaction \union {Handle(m)}
                  /\ owner' = {Handle(m)}
             /\ ok /\ m.operation \in {"commit", "rollback", "close"} =>
                  /\ inTransaction' = Others(m)
                  /\ owner' = {}
             /\ ~ok /\ m.operation = "close" => inTransaction' = Others(m) /\ UNCHANGED owner
             /\ \/ ok /\ m.operation \in {"begin", "commit", "rollback"}
                \/ m.operation = "close"
                \/ UNCHANGED <<inTransaction, owner>>
<1>1. PICK ok \in BOOLEAN :
        /\ Sqlite(m, ok)
        /\ Respond(m, ok)
        /\ CASE ok /\ Boundary(m) = "begin" -> owner' = {Handle(m)} /\ UNCHANGED draining
             [] ok /\ Boundary(m) = "end" /\ owner = {Handle(m)} -> ReleaseLease
             [] OTHER -> UNCHANGED <<owner, draining>>
  BY DEF Execute
<1>2. /\ Boundary(m) = "begin" <=> m.operation = "begin"
      /\ Boundary(m) = "end" <=> m.operation \in {"commit", "rollback", "close"}
  BY DEF Boundary, BoundaryIgnoringBegin
<1>3. CASE ok /\ m.operation = "begin"
  BY <1>1, <1>2, <1>3 DEF Sqlite, SqliteOpen, SqliteClose, SqliteStatement
<1>4. CASE ok /\ m.operation \in {"commit", "rollback", "close"}
  <2>1. owner' = {}
    BY <1>1, <1>2, <1>4 DEF ReleaseLease
  <2>2. inTransaction' = Others(m)
    BY <1>1, <1>4 DEF Sqlite, SqliteOpen, SqliteClose, SqliteStatement
  <2> QED BY <1>1, <1>4, <2>1, <2>2
<1>5. CASE ~ok /\ m.operation = "close"
  BY <1>1, <1>2, <1>5 DEF Sqlite, SqliteOpen, SqliteClose, SqliteStatement
<1>6. CASE ~(ok /\ m.operation \in {"begin", "commit", "rollback"}) /\ m.operation # "close"
  <2>1. UNCHANGED owner
    BY <1>1, <1>2, <1>6
  <2>2. UNCHANGED inTransaction
    BY <1>1, <1>6 DEF Sqlite, SqliteOpen, SqliteClose, SqliteStatement
  <2> QED BY <1>1, <1>6, <2>1, <2>2
<1> QED BY <1>3, <1>4, <1>5, <1>6

\* The statement's outcome reaches the worker's account together with the lease
\* and the connection.
LEMMA ExecuteAgreement ==
    ASSUME TypeOK, AutoRollback = FALSE, Channel, Agreement,
           NEW w \in Workers, Execute(request[w]),
           owner = {} \/ owner = {Handle(request[w])},
           phase[w] # "idle", ~buffer[w].full, UNCHANGED <<phase, request, transaction>>
    PROVE  Agreement'
<1> DEFINE m == request[w]
<1> DEFINE c == m.connection
<1>1. m \in Requests /\ m.worker = w /\ Handle(m) = <<w, c>>
  BY DEF TypeOK, Channel, RequestIsOwn, Handle
<1>2. PICK ok \in BOOLEAN :
        /\ Sqlite(m, ok)
        /\ Respond(m, ok)
        /\ ok /\ m.operation = "begin" =>
             /\ inTransaction' = inTransaction \union {Handle(m)}
             /\ owner' = {Handle(m)}
        /\ ok /\ m.operation \in {"commit", "rollback", "close"} =>
             /\ inTransaction' = Others(m)
             /\ owner' = {}
        /\ ~ok /\ m.operation = "close" => inTransaction' = Others(m) /\ UNCHANGED owner
        /\ \/ ok /\ m.operation \in {"begin", "commit", "rollback"}
           \/ m.operation = "close"
           \/ UNCHANGED <<inTransaction, owner>>
  BY <1>1, ExecuteEffect
<1>3. inTransaction \subseteq {Handle(m)} /\ Others(m) = {}
  BY DEF Agreement, LeaseIsTransaction, Others
<1>4. ~ok /\ m.operation = "close" => Handle(m) \notin inTransaction
  BY <1>1, <1>2 DEF Sqlite, SqliteOpen, SqliteClose, SqliteStatement, Agreement, TransactionIsOpen
<1>5. LeaseIsTransaction'
  BY <1>2, <1>3, <1>4 DEF Agreement, LeaseIsTransaction, Others
<1>6. TransactionIsOpen'
  <2>1. CASE ok /\ m.operation = "begin"
    <3>1. c \in connections[w] /\ UNCHANGED connections
      BY <1>1, <1>2, <2>1 DEF Sqlite, SqliteOpen, SqliteClose, SqliteStatement
    <3> QED BY <1>1, <1>2, <2>1, <3>1 DEF Agreement, TransactionIsOpen
  <2>2. CASE m.operation = "close" \/ (ok /\ m.operation \in {"commit", "rollback"})
    <3>1. inTransaction' = {}
      BY <1>2, <1>3, <2>2
    <3> QED BY <3>1 DEF TransactionIsOpen
  <2>3. CASE UNCHANGED inTransaction /\ m.operation # "close"
    <3>1. \A v \in Workers : connections[v] \subseteq connections'[v]
      <4>1. CASE m.operation = "open"
        <5>1. SqliteOpen(m, ok)
          BY <1>2, <4>1 DEF Sqlite, SqliteClose, SqliteStatement
        <5> QED BY <1>1, <5>1 DEF SqliteOpen, TypeOK
      <4>2. CASE m.operation # "open"
        BY <1>2, <2>3, <4>2 DEF Sqlite, SqliteOpen, SqliteClose, SqliteStatement
      <4> QED BY <4>1, <4>2
    <3>2. \A h \in inTransaction : h[1] \in Workers
      BY DEF TypeOK, Handles
    <3> QED BY <2>3, <3>1, <3>2 DEF Agreement, TransactionIsOpen
  <2> QED BY <1>2, <2>1, <2>2, <2>3
<1>7. \A v \in Workers : v # w => buffer'[v] = buffer[v]
  BY <1>2, RespondChannel
<1>8. ASSUME NEW v \in Workers, v # w, phase'[v] # "exited"
      PROVE  Inside(v, Afterwards(v))'
  <2>1. Afterwards(v)' = Afterwards(v)
    BY <1>7, <1>8 DEF Afterwards, Answered, Waiting
  <2>2. \A d \in Connections : <<v, d>> \in inTransaction' <=> <<v, d>> \in inTransaction
    BY <1>1, <1>2, <1>8 DEF Others
  <2> QED BY <1>8, <2>1, <2>2 DEF Agreement, WorkersKnow, Inside
<1>9. ASSUME phase[w] # "exited"
      PROVE  Inside(w, Afterwards(w))'
  <2>1. Waiting(w) /\ Waiting(w)' /\ buffer'[w].full
    <3>1. Waiting(w)
      BY <1>9 DEF TypeOK, Waiting
    <3> QED BY <1>2, <3>1, RespondChannel DEF Waiting
  <2>2. /\ buffer'[w].result = "ok" => ok
        /\ ok /\ m.operation # "read" => buffer'[w].result = "ok"
    <3> DEFINE value == IF ok /\ m.operation = "open" THEN nextConnection[m.worker] ELSE 0
    <3>1. PICK result \in (IF ~ok THEN {"error"} ELSE IF m.operation = "read" THEN {"ok", "tooSmall"} ELSE {"ok"}) :
            buffer' = [buffer EXCEPT ![w] =
                         IF buffer[w].generation # m.generation THEN buffer[w]
                         ELSE [buffer[w] EXCEPT !.full = TRUE, !.answers = m.id, !.result = result,
                                                !.value = value]]
      BY <1>1, <1>2 DEF Respond
    <3>2. buffer[w].generation = m.generation /\ buffer[w] \in Buffers
      BY <2>1 DEF Channel, BufferIsCurrent, TypeOK
    <3>3. buffer'[w].result = result
      BY <3>1, <3>2 DEF TypeOK, Buffers
    <3> QED BY <3>1, <3>3
  <2>3. \A d \in Connections : <<w, d>> \in inTransaction <=> d = transaction[w]
    <3>1. Afterwards(w) = transaction[w]
      BY DEF Afterwards, Answered
    <3> QED BY <1>9, <3>1 DEF Agreement, WorkersKnow, Inside
  <2>4. /\ m.operation \in {"begin", "close"} => transaction[w] = 0
        /\ m.operation = "begin" => c # 0
        /\ m.operation \in {"commit", "rollback"} => c = transaction[w] /\ transaction[w] # 0
    BY <2>1 DEF Agreement, BoundaryIsAsked
  <2>5. 0 \notin Connections /\ c \in Connections \union {0} /\ transaction[w] \in Connections \union {0}
    BY <1>1, WorkerDatabaseAssumption DEF Connections, Requests, TypeOK
  <2>6. m.operation = "rollback" => ok
    <3>1. SUFFICES ASSUME m.operation = "rollback" PROVE ok
      OBVIOUS
    <3>2. Handle(m) \in inTransaction
      BY <1>1, <2>3, <2>4, <2>5, <3>1
    <3>3. c \in connections[w]
      BY <1>1, <3>2 DEF Agreement, TransactionIsOpen
    <3> QED BY <1>1, <1>2, <3>1, <3>2, <3>3 DEF Sqlite, SqliteOpen, SqliteClose, SqliteStatement
  <2>7. Afterwards(w)' = CASE ok /\ m.operation = "begin" -> c
                           [] ok /\ m.operation \in {"commit", "rollback"} -> 0
                           [] OTHER -> transaction[w]
    BY <2>1, <2>2, <2>6 DEF Afterwards, Answered
  <2>8. \A d \in Connections : <<w, d>> \in inTransaction' <=> d = Afterwards(w)'
    <3>1. CASE ok /\ m.operation = "begin"
      <4>1. \A d \in Connections : <<w, d>> \in inTransaction' <=> d = c
        BY <1>1, <1>2, <2>3, <2>4, <2>5, <3>1
      <4> QED BY <2>7, <3>1, <4>1
    <3>2. CASE ok /\ m.operation \in {"commit", "rollback"}
      BY <1>2, <1>3, <2>5, <2>7, <3>2
    <3>3. CASE m.operation = "close"
      BY <1>2, <1>3, <2>4, <2>5, <2>7, <3>3
    <3>4. CASE UNCHANGED inTransaction /\ ~(ok /\ m.operation \in {"begin", "commit", "rollback"})
      BY <2>3, <2>7, <3>4
    <3> QED BY <1>2, <3>1, <3>2, <3>3, <3>4
  <2> QED BY <2>8 DEF Inside
<1>10. WorkersKnow'
  BY <1>8, <1>9 DEF WorkersKnow
<1>11. BoundaryIsAsked'
  BY DEF Agreement, BoundaryIsAsked, Waiting
<1> QED BY <1>5, <1>6, <1>10, <1>11 DEF Agreement

LEMMA HostAgreement ==
    ASSUME TypeOK, AutoRollback = FALSE, ClosedIsGone, Channel, Agreement, Host
    PROVE  Agreement'
<1>1. UNCHANGED <<phase, request, transaction>>
  BY DEF Host, Drain, Deliver, CloseBroker, Submit, Resume, UseStore, clientVars
<1>2. ASSUME UNCHANGED <<buffer, owner, inTransaction, connections>>
      PROVE  Agreement'
  BY <1>1, <1>2 DEF Agreement, LeaseIsTransaction, TransactionIsOpen, WorkersKnow, Inside, Afterwards,
       BoundaryIsAsked, Answered, Waiting
<1>3. ASSUME NEW w \in Workers, Deliver(w)
      PROVE  Agreement'
  <2> DEFINE m == Head(inbox[w])
  <2>1. inbox[w] \in Seq(Requests) /\ inbox[w] # << >> /\ 1 \in DOMAIN inbox[w] /\ m = inbox[w][1]
    BY <1>3 DEF Deliver, TypeOK
  <2>2. m = request[w] /\ phase[w] # "idle" /\ ~buffer[w].full
    BY <2>1 DEF Channel, OneInFlight, OneInFlightOf
  <2>3. CASE closed[w] /\ Respond(m, FALSE) /\ UNCHANGED <<owner, connections, inTransaction>>
    <3>1. phase[w] = "exited"
      BY <2>3 DEF ClosedIsGone
    <3>2. \A v \in Workers : v # w => buffer'[v] = buffer[v]
      BY <1>1, <2>2, <2>3, RespondChannel
    <3>3. ASSUME NEW v \in Workers, phase'[v] # "exited"
          PROVE  Inside(v, Afterwards(v))'
      BY <1>1, <2>3, <3>1, <3>2, <3>3 DEF Agreement, WorkersKnow, Inside, Afterwards, Answered, Waiting
    <3>4. WorkersKnow'
      BY <3>3 DEF WorkersKnow
    <3> QED BY <1>1, <2>3, <3>4 DEF Agreement, LeaseIsTransaction, TransactionIsOpen, BoundaryIsAsked, Waiting
  <2>4. CASE UNCHANGED <<buffer, owner, connections, inTransaction>>
    BY <1>2, <2>4
  <2>5. CASE (owner = {} \/ owner = {Handle(m)}) /\ Execute(m)
    BY <1>1, <2>2, <2>5, ExecuteAgreement
  <2> QED BY <1>3, <2>3, <2>4, <2>5 DEF Deliver, sqliteVars
<1>4. CASE Drain
  <2>1. CASE UNCHANGED <<buffer, owner, connections, inTransaction>>
    BY <1>2, <2>1
  <2>2. CASE owner = {} /\ pending # << >> /\ Head(pending).kind = "worker" /\ Execute(Head(pending))
    <3>1. /\ pending \in Seq(Requests \union HostRequests)
          /\ 1 \in DOMAIN pending /\ Head(pending) = pending[1]
      BY <2>2 DEF TypeOK
    <3>2. Head(pending) \in Requests
      BY <2>2, <3>1 DEF HostRequests
    <3>3. PICK w \in Workers : w = Head(pending).worker
      BY <3>2 DEF Requests
    <3>4. 1 \in Queued(w)
      BY <2>2, <3>1, <3>3 DEF Queued
    <3>5. Head(pending) = request[w] /\ phase[w] # "idle" /\ ~buffer[w].full
      BY <3>1, <3>4 DEF Channel, OneInFlight, OneInFlightOf
    <3> QED BY <1>1, <2>2, <3>5, ExecuteAgreement
  <2> QED BY <1>4, <2>1, <2>2 DEF Drain, sqliteVars
<1>5. ASSUME NEW w \in Workers, CloseBroker(w)
      PROVE  Agreement'
  <2>1. /\ phase[w] = "exited"
        /\ connections' = [connections EXCEPT ![w] = {}]
        /\ inTransaction' = {h \in inTransaction : h[1] # w}
        /\ owner' = {h \in owner : h[1] # w}
        /\ UNCHANGED buffer
    BY <1>5 DEF CloseBroker, Unregister
  <2>2. TransactionIsOpen'
    BY <2>1 DEF Agreement, TransactionIsOpen, TypeOK
  <2>3. ASSUME NEW v \in Workers, phase'[v] # "exited"
        PROVE  Inside(v, Afterwards(v))'
    <3>1. v # w /\ phase[v] # "exited"
      BY <1>1, <2>1, <2>3
    <3>2. Afterwards(v)' = Afterwards(v)
      BY <1>1, <2>1 DEF Afterwards, Answered, Waiting
    <3> QED BY <2>1, <3>1, <3>2 DEF Agreement, WorkersKnow, Inside
  <2>4. WorkersKnow'
    BY <2>3 DEF WorkersKnow
  <2> QED BY <1>1, <2>1, <2>2, <2>4 DEF Agreement, LeaseIsTransaction, BoundaryIsAsked, Waiting
<1>6. ASSUME NEW h \in HostOps, Submit(h) \/ Resume(h)
      PROVE  Agreement'
  BY <1>2, <1>6 DEF Submit, Resume, brokerVars
<1>7. CASE UseStore
  BY <1>2, <1>7 DEF UseStore, brokerVars
<1> QED BY <1>3, <1>4, <1>5, <1>6, <1>7 DEF Host

LEMMA ClosedStaysGone ==
    ASSUME TypeOK, ClosedIsGone, Next
    PROVE  ClosedIsGone'
<1>1. CASE Host
  <2>1. UNCHANGED phase /\ (UNCHANGED closed \/ \E w \in Workers : phase[w] = "exited" /\ closed' = [closed EXCEPT ![w] = TRUE])
    BY <1>1 DEF Host, Drain, Deliver, CloseBroker, Submit, Resume, UseStore, clientVars, brokerVars
  <2> QED BY <2>1 DEF ClosedIsGone, TypeOK
<1>2. ASSUME NEW w \in Workers, Client(w)
      PROVE  ClosedIsGone'
  <2>1. UNCHANGED closed
    BY <1>2 DEF Client, Ask, Receive, Retry, TimeOut, Exit, brokerVars
  <2>2. \A v \in Workers : phase[v] = "exited" => phase'[v] = "exited"
    BY <1>2 DEF Client, Ask, Receive, Retry, TimeOut, Exit, Send, Answered, Waiting, TypeOK
  <2> QED BY <2>1, <2>2 DEF ClosedIsGone
<1> QED BY <1>1, <1>2 DEF Next

LEMMA InitAgreement == Init => AgreementInvariant
<1>1. Init => ClosedIsGone
  BY DEF Init, ClosedIsGone
<1>2. Init => WorkersKnow
  <2>1. 0 \notin Connections
    BY WorkerDatabaseAssumption DEF Connections
  <2> QED BY <2>1 DEF Init, WorkersKnow, Inside, Afterwards, Answered, Waiting
<1>3. Init => LeaseIsTransaction /\ TransactionIsOpen /\ BoundaryIsAsked
  BY DEF Init, LeaseIsTransaction, TransactionIsOpen, BoundaryIsAsked, Waiting
<1> QED BY <1>1, <1>2, <1>3 DEF AgreementInvariant, Agreement

\* As long as no wait has run out, and if SQLite ends no transaction by itself, the
\* code of every live worker is inside the transaction it believes in, which no host
\* step ends behind its back (execute, unregister), and nobody else holds a lease.
THEOREM BeliefsAgree ==
    ASSUME AutoRollback = FALSE
    PROVE  Spec => [](timeouts = 0 => TransactionsAreAgreed)
<1>1. TypeOK /\ ChannelInvariant /\ AgreementInvariant /\ [Next]_vars => AgreementInvariant'
  <2>1. ASSUME TypeOK, ChannelInvariant, AgreementInvariant, Next
        PROVE  AgreementInvariant'
    <3>1. ClosedIsGone'
      BY <2>1, ClosedStaysGone DEF AgreementInvariant
    <3>2. ASSUME timeouts' = 0
          PROVE  Agreement'
      <4>1. timeouts = 0 /\ Channel /\ Agreement /\ ClosedIsGone
        BY <2>1, <3>2, TimeoutsGrow DEF ChannelInvariant, AgreementInvariant
      <4>2. (\E w \in Workers : Client(w)) \/ Host
        BY <2>1 DEF Next
      <4> QED BY <2>1, <3>2, <4>1, <4>2, ClientAgreement, HostAgreement
    <3> QED BY <3>1, <3>2 DEF AgreementInvariant
  <2>2. AgreementInvariant /\ UNCHANGED vars => AgreementInvariant'
    BY DEF vars, clientVars, brokerVars, sqliteVars, AgreementInvariant, ClosedIsGone, Agreement,
           LeaseIsTransaction, TransactionIsOpen, WorkersKnow, Inside, Afterwards, BoundaryIsAsked,
           Answered, Waiting
  <2> QED BY <2>1, <2>2
<1>2. TypeOK /\ AgreementInvariant => (timeouts = 0 => TransactionsAreAgreed)
  <2>1. SUFFICES ASSUME TypeOK, Agreement
                 PROVE  TransactionsAreAgreed
    BY DEF AgreementInvariant
  <2>2. \A w \in Workers : phase[w] = "idle" => Inside(w, transaction[w])
    BY <2>1 DEF Agreement, WorkersKnow, Afterwards, Answered, Waiting
  <2>3. BelievedTransactionIsOpen
    <3>1. \A w \in Workers : transaction[w] # 0 => transaction[w] \in Connections
      BY <2>1, WorkerDatabaseAssumption DEF TypeOK, Connections
    <3> QED BY <2>2, <3>1 DEF BelievedTransactionIsOpen, Inside
  <2>4. LeaseIsKnownToItsWorker
    <3>1. \A h \in owner : h \in inTransaction /\ h[1] \in Workers /\ h[2] \in Connections /\ h = <<h[1], h[2]>>
      BY <2>1 DEF Agreement, LeaseIsTransaction, TypeOK, Handles
    <3> QED BY <2>2, <3>1 DEF LeaseIsKnownToItsWorker, Inside
  <2> QED BY <2>3, <2>4 DEF TransactionsAreAgreed
<1> QED BY InitAgreement, TypeCorrect, ChannelInvariantHolds, <1>1, <1>2, PTL DEF Spec
=============================================================================
