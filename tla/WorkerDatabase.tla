--------------------------- MODULE WorkerDatabase ---------------------------
(***************************************************************************)
(* The worker-to-host database mediator of the app-server.                 *)
(*                                                                         *)
(* A runtime worker is a thread whose store operations run in the host     *)
(* process: it posts a request and waits on a shared buffer                *)
(* (workerDatabaseClient.ts).  The host handles one request per event-loop *)
(* turn through the worker's broker, and one coordinator per database      *)
(* leases the database to the connection that holds an explicit            *)
(* transaction, queueing everybody else (workerDatabaseBroker.ts).         *)
(* The host also uses the database without asking the coordinator: what an *)
(* operation does after an await, and the stores of the research track.    *)
(* SQLite itself is external: only the autocommit flag of each connection  *)
(* is kept, and an explicit transaction is taken to hold the write lock.   *)
(***************************************************************************)
EXTENDS Naturals, Sequences, FiniteSets

CONSTANTS
    Workers,          \* worker threads, each with a broker of its own
    HostOps,          \* operations the host runs through runWhenAvailable
    SuspendingOps,    \* the host operations that touch the database again after an await
    MaxConnection,    \* bound: connections a worker opens
    MaxRequests,      \* bound: requests a worker starts outside a transaction's end
    MaxTimeouts,      \* bound: waits that run into RESPONSE_TIMEOUT_MS
    MaxGeneration,    \* doublings between the initial and the maximum response buffer
    AutoRollback      \* whether SQLite may end a transaction by itself on an error

ASSUME WorkerDatabaseAssumption ==
    /\ SuspendingOps \subseteq HostOps
    /\ MaxConnection \in Nat \ {0}
    /\ MaxRequests \in Nat
    /\ MaxTimeouts \in Nat
    /\ MaxGeneration \in Nat
    /\ AutoRollback \in BOOLEAN

Connections == 1 .. MaxConnection
Handles == Workers \X Connections
Operations == {"open", "begin", "read", "write", "commit", "rollback", "close"}

\* A database.request message: the statement, the connection (0 when there is
\* none yet) and the response buffer it carries.
Requests == [kind : {"worker"}, worker : Workers, id : Nat, operation : Operations,
             connection : 0 .. MaxConnection, generation : 0 .. MaxGeneration]
HostRequests == [kind : {"host"}, operation : HostOps]
Buffers == [generation : 0 .. MaxGeneration, full : BOOLEAN, answers : Nat,
            result : {"ok", "error", "tooSmall"}, value : 0 .. MaxConnection]

VARIABLES
    \* the worker thread
    phase,            \* "idle", "waiting" in Atomics.wait, or "exited"
    request,          \* the request the worker last posted
    sent,             \* requests posted so far: nextRequestId - 1
    buffer,           \* the current response buffer and its header
    opened,           \* connections the worker's store objects hold
    transaction,      \* the connection the worker believes is in a transaction, or 0
    doomed,           \* a statement of that transaction threw: only ROLLBACK follows
    timeouts,
    \* the host process
    inbox,            \* messages posted by a worker and not yet handled
    owner,            \* state.owner: {} or the one leaseholding handle
    pending,          \* state.pending
    draining,         \* state.draining: the host is inside drain
    closed,           \* broker.closed
    connections,      \* broker.connections
    nextConnection,   \* broker.nextConnectionId
    hostOp,           \* "idle", "queued" or "suspended" per host operation
    \* SQLite
    inTransaction,    \* handles whose connection is in an explicit transaction
    stalled           \* the kinds of host steps in which the event loop has waited inside
                      \* SQLite for another handle's transaction

clientVars == <<phase, request, sent, opened, transaction, doomed, timeouts>>
brokerVars == <<closed, connections, nextConnection>>
sqliteVars == <<inTransaction, stalled>>
vars == <<clientVars, buffer, inbox, owner, pending, draining, brokerVars, hostOp, sqliteVars>>

Handle(m) == <<m.worker, m.connection>>
Waiting(w) == phase[w] = "waiting"
EmptyBuffer(g) == [generation |-> g, full |-> FALSE, answers |-> 0, result |-> "ok", value |-> 0]

Init ==
    /\ phase = [w \in Workers |-> "idle"]
    /\ request = [w \in Workers |-> [kind |-> "worker", worker |-> w, id |-> 0, operation |-> "open",
                                     connection |-> 0, generation |-> 0]]
    /\ sent = [w \in Workers |-> 0]
    /\ buffer = [w \in Workers |-> EmptyBuffer(0)]
    /\ opened = [w \in Workers |-> {}]
    /\ transaction = [w \in Workers |-> 0]
    /\ doomed = [w \in Workers |-> FALSE]
    /\ timeouts = 0
    /\ inbox = [w \in Workers |-> << >>]
    /\ owner = {}
    /\ pending = << >>
    /\ draining = FALSE
    /\ closed = [w \in Workers |-> FALSE]
    /\ connections = [w \in Workers |-> {}]
    /\ nextConnection = [w \in Workers |-> 1]
    /\ hostOp = [h \in HostOps |-> "idle"]
    /\ inTransaction = {}
    /\ stalled = {}

-----------------------------------------------------------------------------
(* The worker thread.                                                      *)

\* The two header words are zeroed before each attempt.
KeepHeader(b, g) == IF b.generation = g THEN b ELSE EmptyBuffer(g)
ResetBuffer(b, g) == IF b.generation = g THEN [b EXCEPT !.full = FALSE] ELSE EmptyBuffer(g)

\* Posting the message of one attempt.
Send(w, operation, c, g) ==
    LET m == [kind |-> "worker", worker |-> w, id |-> sent[w] + 1, operation |-> operation,
              connection |-> c, generation |-> g]
    IN  /\ phase' = [phase EXCEPT ![w] = "waiting"]
        /\ request' = [request EXCEPT ![w] = m]
        /\ sent' = [sent EXCEPT ![w] = @ + 1]
        /\ buffer' = [buffer EXCEPT ![w] = ResetBuffer(@, g)]
        /\ inbox' = [inbox EXCEPT ![w] = Append(@, m)]

\* What the stores ask for: work outside a transaction or on its connection,
\* COMMIT unless a statement threw, ROLLBACK from the catch block.
MayAsk(w, operation, c) ==
    \/ operation = "open" /\ c = 0 /\ transaction[w] = 0
    \/ operation \in {"begin", "close"} /\ c \in opened[w] /\ transaction[w] = 0
    \/ operation \in {"read", "write"} /\ c \in opened[w] /\ transaction[w] \in {0, c} /\ ~doomed[w]
    \/ operation = "commit" /\ c = transaction[w] /\ c # 0 /\ ~doomed[w]
    \/ operation = "rollback" /\ c = transaction[w] /\ c # 0

Ask(w, operation, c) ==
    /\ phase[w] = "idle"
    /\ sent[w] < MaxRequests \/ operation \in {"commit", "rollback"}
    /\ MayAsk(w, operation, c)
    /\ Send(w, operation, c, buffer[w].generation)
    /\ UNCHANGED <<opened, transaction, doomed, timeouts, owner, pending, draining, brokerVars,
                   hostOp, sqliteVars>>

\* request() returned: the caller goes on from the answer it was handed.
Returns(w) ==
    LET operation == request[w].operation  c == request[w].connection  value == buffer[w].value
    IN  /\ opened' = [opened EXCEPT ![w] = CASE operation = "open" -> @ \union ({value} \ {0})
                                             [] operation = "close" -> @ \ {c}
                                             [] OTHER -> @]
        /\ transaction' = [transaction EXCEPT ![w] = CASE operation = "begin" -> c
                                                       [] operation \in {"commit", "rollback"} -> 0
                                                       [] OTHER -> @]
        /\ doomed' = [doomed EXCEPT ![w] = @ /\ operation # "rollback"]

\* request() threw: inside a transaction the catch block rolls back, and a
\* ROLLBACK that throws leaves the transaction to its caller's caller.
Throws(w) ==
    LET rolledBack == request[w].operation = "rollback"
    IN  /\ transaction' = [transaction EXCEPT ![w] = IF rolledBack THEN 0 ELSE @]
        /\ doomed' = [doomed EXCEPT ![w] = ~rolledBack /\ transaction[w] # 0]
        /\ UNCHANGED opened

Answered(w) == Waiting(w) /\ buffer[w].full
MayRetryUncapped(w) == buffer[w].result = "tooSmall" /\ request[w].operation = "read"
MayRetry(w) ==
    /\ buffer[w].result = "tooSmall"
    /\ request[w].operation = "read"
    /\ buffer[w].generation < MaxGeneration

Receive(w) ==
    /\ Answered(w) /\ ~MayRetry(w)
    /\ IF buffer[w].result = "ok" THEN Returns(w) ELSE Throws(w)
    /\ phase' = [phase EXCEPT ![w] = "idle"]
    /\ UNCHANGED <<request, sent, timeouts, buffer, inbox, owner, pending, draining, brokerVars,
                   hostOp, sqliteVars>>

\* A read whose answer did not fit is posted again with a larger buffer.
Retry(w) ==
    /\ Answered(w) /\ MayRetry(w)
    /\ Send(w, "read", request[w].connection, buffer[w].generation + 1)
    /\ UNCHANGED <<opened, transaction, doomed, timeouts, owner, pending, draining, brokerVars,
                   hostOp, sqliteVars>>

\* Atomics.wait gives up; the message stays posted and keeps the buffer.
TimeOut(w) ==
    /\ Waiting(w) /\ ~buffer[w].full
    /\ timeouts < MaxTimeouts
    /\ timeouts' = timeouts + 1
    /\ Throws(w)
    /\ phase' = [phase EXCEPT ![w] = "idle"]
    /\ UNCHANGED <<request, sent, buffer, inbox, owner, pending, draining, brokerVars, hostOp,
                   sqliteVars>>

\* The thread ends, of itself or because the host terminates it.
Exit(w) ==
    /\ phase[w] # "exited"
    /\ phase' = [phase EXCEPT ![w] = "exited"]
    /\ UNCHANGED <<request, sent, buffer, opened, transaction, doomed, timeouts, inbox, owner,
                   pending, draining, brokerVars, hostOp, sqliteVars>>

-----------------------------------------------------------------------------
(* SQLite, as the broker uses it.                                          *)

Others(m) == inTransaction \ {Handle(m)}

\* A step of the host that writes while the handles of others are in a transaction waits for
\* busy_timeout on the event loop, which can deliver no COMMIT meanwhile.
Stalls(step, others) == stalled' = IF others # {} THEN stalled \union {step} ELSE stalled

\* broker.execute: the statement succeeds or throws.  A write that meets
\* another handle's transaction stalls and then throws; some errors also end
\* the transaction they occur in.
SqliteOpen(m, ok) ==
    LET k == nextConnection[m.worker]
    IN  /\ m.operation = "open"
        /\ ok => k <= MaxConnection
        /\ connections' = [connections EXCEPT ![m.worker] = IF ok THEN @ \union {k} ELSE @]
        /\ \E next \in (IF ok THEN {k + 1} ELSE {k, k + 1}) \cap 1 .. MaxConnection + 1 :
              nextConnection' = [nextConnection EXCEPT ![m.worker] = next]
        /\ UNCHANGED <<inTransaction, stalled>>

SqliteClose(m, ok) ==
    /\ m.operation = "close"
    /\ ok <=> m.connection \in connections[m.worker]
    /\ connections' = [connections EXCEPT ![m.worker] = @ \ {m.connection}]
    /\ inTransaction' = Others(m)
    /\ UNCHANGED <<nextConnection, stalled>>

SqliteStatement(m, ok) ==
    LET locked == m.operation \in {"begin", "write"} /\ Others(m) # {}
        open == m.connection \in connections[m.worker]
        within == Handle(m) \in inTransaction
    IN  /\ m.operation \notin {"open", "close"}
        /\ ok => open /\ ~locked
        /\ ok /\ m.operation = "begin" => ~within
        /\ m.operation = "rollback" => (ok <=> open /\ within)
        /\ ok /\ m.operation = "commit" => within
        /\ Stalls("request", IF open /\ locked THEN Others(m) ELSE {})
        /\ CASE ok /\ m.operation = "begin" -> inTransaction' = inTransaction \union {Handle(m)}
             [] ok /\ m.operation \in {"commit", "rollback"} -> inTransaction' = Others(m)
             [] ~ok /\ AutoRollback -> inTransaction' \in {inTransaction, Others(m)}
             [] OTHER -> inTransaction' = inTransaction
        /\ UNCHANGED <<connections, nextConnection>>

Sqlite(m, ok) == SqliteOpen(m, ok) \/ SqliteClose(m, ok) \/ SqliteStatement(m, ok)

-----------------------------------------------------------------------------
(* The host process: one event-loop turn handles one message, one worker   *)
(* exit or one host operation; a turn that frees the lease drains the      *)
(* queue before the next one, while the worker threads run on.             *)

\* writeWorkerDatabaseResponse: an answer to a buffer the client has replaced
\* is lost, and one that does not fit becomes an error.
Respond(m, ok) ==
    \E result \in IF ~ok THEN {"error"} ELSE IF m.operation = "read" THEN {"ok", "tooSmall"} ELSE {"ok"} :
      buffer' = [buffer EXCEPT ![m.worker] =
                   IF @.generation # m.generation THEN @
                   ELSE [@ EXCEPT !.full = TRUE, !.answers = m.id, !.result = result,
                                  !.value = IF ok /\ m.operation = "open"
                                              THEN nextConnection[m.worker] ELSE 0]]

\* explicitTransactionBoundary, with close counted as an end.
BoundaryIgnoringBegin(m) == IF m.operation \in {"commit", "rollback", "close"} THEN "end" ELSE "none"
Boundary(m) == IF m.operation = "begin" THEN "begin" ELSE BoundaryIgnoringBegin(m)

LeaseSurvives == UNCHANGED owner /\ draining' = TRUE
ReleaseWithoutDrain == owner' = {} /\ UNCHANGED draining
ReleaseLease == owner' = {} /\ draining' = TRUE

\* coordinator.execute: the answer is written first, then the lease moves.
Execute(m) ==
    \E ok \in BOOLEAN :
      /\ Sqlite(m, ok)
      /\ Respond(m, ok)
      /\ CASE ok /\ Boundary(m) = "begin" -> owner' = {Handle(m)} /\ UNCHANGED draining
           [] ok /\ Boundary(m) = "end" /\ owner = {Handle(m)} -> ReleaseLease
           [] OTHER -> UNCHANGED <<owner, draining>>

\* broker.handle and coordinator.dispatch on the next message of a worker.
Deliver(w) ==
    /\ ~draining
    /\ inbox[w] # << >>
    /\ inbox' = [inbox EXCEPT ![w] = Tail(@)]
    /\ LET m == Head(inbox[w])
       IN  \/ /\ closed[w]
              /\ Respond(m, FALSE)
              /\ UNCHANGED <<owner, pending, draining, connections, nextConnection, sqliteVars>>
           \/ /\ ~closed[w] /\ owner # {} /\ owner # {Handle(m)}
              /\ pending' = Append(pending, m)
              /\ UNCHANGED <<buffer, owner, draining, connections, nextConnection, sqliteVars>>
           \/ /\ ~closed[w] /\ (owner = {} \/ owner = {Handle(m)})
              /\ Execute(m)
              /\ UNCHANGED pending
    /\ UNCHANGED <<clientVars, closed, hostOp>>

\* The synchronous part of a host operation; an async one may suspend.
RunHostOp(h) ==
    /\ hostOp' = [hostOp EXCEPT ![h] = IF h \in SuspendingOps THEN "suspended" ELSE "idle"]
    /\ Stalls("operation", inTransaction)

\* coordinator.runWhenAvailable.
Submit(h) ==
    /\ ~draining
    /\ hostOp[h] = "idle"
    /\ \/ /\ owner # {}
          /\ pending' = Append(pending, [kind |-> "host", operation |-> h])
          /\ hostOp' = [hostOp EXCEPT ![h] = "queued"]
          /\ UNCHANGED stalled
       \/ /\ owner = {}
          /\ RunHostOp(h)
          /\ UNCHANGED pending
    /\ UNCHANGED <<clientVars, buffer, inbox, owner, draining, brokerVars, inTransaction>>

\* The operation's await settles and it goes on with its database handle.
Resume(h) ==
    /\ ~draining
    /\ hostOp[h] = "suspended"
    /\ hostOp' = [hostOp EXCEPT ![h] = "idle"]
    /\ Stalls("resumption", inTransaction)
    /\ UNCHANGED <<clientVars, buffer, inbox, owner, pending, draining, brokerVars, inTransaction>>

\* The host opens a ResearchTrackStore or TrackFunnelStore, on whose database the coordinator
\* is not asked.
UseStore ==
    /\ ~draining
    /\ Stalls("store", inTransaction)
    /\ UNCHANGED <<clientVars, buffer, inbox, owner, pending, draining, brokerVars, hostOp,
                   inTransaction>>

\* One round of coordinator.drain, or its end.
Drain ==
    /\ draining
    /\ IF owner # {} \/ pending = << >>
         THEN /\ draining' = FALSE
              /\ UNCHANGED <<buffer, owner, pending, connections, nextConnection, hostOp, sqliteVars>>
         ELSE /\ pending' = Tail(pending)
              /\ LET next == Head(pending)
                 IN  \/ /\ next.kind = "host"
                        /\ RunHostOp(next.operation)
                        /\ UNCHANGED <<buffer, owner, draining, connections, nextConnection, inTransaction>>
                     \/ /\ next.kind = "worker"
                        /\ Execute(next)
                        /\ UNCHANGED hostOp
    /\ UNCHANGED <<clientVars, inbox, closed>>

\* The requests at the positions K stay, in their order: f enumerates K.
Retain(K) ==
    \E f \in [1 .. Cardinality(K) -> K] :
      /\ \A i, j \in DOMAIN f : i < j => f[i] < f[j]
      /\ pending' = [i \in DOMAIN f |-> pending[f[i]]]

OfOthers(w) == {i \in DOMAIN pending : pending[i].kind = "host" \/ pending[i].worker # w}
UnregisterKeepingLease(w) == Retain(OfOthers(w)) /\ UNCHANGED owner
UnregisterDroppingQueue(w) == Retain({}) /\ owner' = {h \in owner : h[1] # w}

\* coordinator.unregister: the worker's queued requests are rejected, into the
\* buffer of a thread that is gone, and its lease ends; drain follows.
Unregister(w) == Retain(OfOthers(w)) /\ owner' = {h \in owner : h[1] # w}

\* The worker's exit event: broker.close.
CloseBroker(w) ==
    /\ ~draining
    /\ phase[w] = "exited" /\ ~closed[w]
    /\ closed' = [closed EXCEPT ![w] = TRUE]
    /\ connections' = [connections EXCEPT ![w] = {}]
    /\ inTransaction' = {h \in inTransaction : h[1] # w}
    /\ Unregister(w)
    /\ draining' = TRUE
    /\ UNCHANGED <<clientVars, buffer, inbox, nextConnection, hostOp, stalled>>

-----------------------------------------------------------------------------
Client(w) ==
    \/ \E operation \in Operations, c \in 0 .. MaxConnection : Ask(w, operation, c)
    \/ Receive(w) \/ Retry(w) \/ TimeOut(w) \/ Exit(w)

Host ==
    \/ Drain
    \/ \E w \in Workers : Deliver(w) \/ CloseBroker(w)
    \/ \E h \in HostOps : Submit(h) \/ Resume(h)
    \/ UseStore

Next == Host \/ \E w \in Workers : Client(w)

Spec == Init /\ [][Next]_vars

\* The event loop goes on, answered workers wake, and a transaction body is
\* straight-line synchronous code: it ends in COMMIT or ROLLBACK.
Fairness ==
    /\ WF_vars(Drain)
    /\ \A w \in Workers :
         /\ WF_vars(Deliver(w))
         /\ WF_vars(CloseBroker(w))
         /\ WF_vars(Receive(w))
         /\ WF_vars(Retry(w))
         /\ WF_vars(\E end \in {"commit", "rollback"} : Ask(w, end, transaction[w]))

FairSpec == Spec /\ Fairness

-----------------------------------------------------------------------------
(* Properties.                                                             *)

\* Every variable keeps its type, and at most one handle holds the lease.
TypeOK ==
    /\ phase \in [Workers -> {"idle", "waiting", "exited"}]
    /\ request \in [Workers -> Requests]
    /\ sent \in [Workers -> Nat]
    /\ buffer \in [Workers -> Buffers]
    /\ opened \in [Workers -> SUBSET Connections]
    /\ transaction \in [Workers -> 0 .. MaxConnection]
    /\ doomed \in [Workers -> BOOLEAN]
    /\ timeouts \in 0 .. MaxTimeouts
    /\ inbox \in [Workers -> Seq(Requests)]
    /\ owner \in SUBSET Handles
    /\ \A g, h \in owner : g = h
    /\ pending \in Seq(Requests \union HostRequests)
    /\ draining \in BOOLEAN
    /\ closed \in [Workers -> BOOLEAN]
    /\ connections \in [Workers -> SUBSET Connections]
    /\ nextConnection \in [Workers -> 1 .. MaxConnection + 1]
    /\ hostOp \in [HostOps -> {"idle", "queued", "suspended"}]
    /\ inTransaction \in SUBSET Handles
    /\ stalled \subseteq {"request", "operation", "resumption", "store"}

\* A connection in an explicit transaction holds the lease, so no two workers
\* are ever inside transactions on the same database (coordinator.execute).
LeaseCoversTransactions == inTransaction \subseteq owner

\* The lease is never left with a broker that has closed: nothing but a later
\* statement of that worker would free it (coordinator.unregister).
LeaseHolderIsOpen == \A h \in owner : ~closed[h[1]]

\* Both: the lease covers every explicit transaction (execute), and whoever holds
\* it can still send the statement that frees it (unregister).
LeaseIsRightlyHeld == LeaseCoversTransactions /\ LeaseHolderIsOpen

\* Between event-loop turns a free database has an empty queue: every path that
\* frees the lease drains it, and no queued request is forgotten.
NoStrandedRequest == ~draining /\ owner = {} => pending = << >>

\* Neither a statement of a worker nor a host operation that the coordinator lets run waits
\* inside SQLite for another handle's transaction, whose COMMIT the event loop could not
\* deliver meanwhile (dispatch, runWhenAvailable and drain).  A host operation that goes on
\* after an await and a store that is opened without the coordinator do wait.
CoordinatedStepsNeverStall == stalled \intersect {"request", "operation"} = {}

\* The answer a store operation returns is the answer to that operation.
AnswersMatch == \A w \in Workers : Answered(w) => buffer[w].answers = request[w].id

\* While its code is inside a transaction that has not failed, the worker's
\* connection is in that transaction: what it commits is everything it wrote.
BelievedTransactionIsOpen ==
    \A w \in Workers :
      phase[w] = "idle" /\ transaction[w] # 0 /\ ~doomed[w] => <<w, transaction[w]>> \in inTransaction

\* A worker that is not inside a transaction holds no lease.  This needs that
\* no BEGIN outlives its client's wait and that SQLite ends no transaction by
\* itself.
LeaseIsKnownToItsWorker ==
    \A h \in owner : phase[h[1]] = "idle" => transaction[h[1]] = h[2]

\* Both: worker and mediator agree on who is inside a transaction, although the code
\* of the worker and the statements the mediator sees (explicitTransactionBoundary)
\* are separate accounts of it.
TransactionsAreAgreed == BelievedTransactionIsOpen /\ LeaseIsKnownToItsWorker

\* Every store operation of a live worker is answered.
RequestsAreAnswered == \A w \in Workers : Waiting(w) ~> ~Waiting(w)

\* Every host operation that was queued behind a lease is run.
QueuedHostOpsRun == \A h \in HostOps : hostOp[h] = "queued" ~> hostOp[h] # "queued"

\* Both: whatever waits for the database gets its turn (drain).
EverybodyIsServed == RequestsAreAnswered /\ QueuedHostOpsRun
=============================================================================
