-------------------------- MODULE ModelBrokerQueue --------------------------
(***************************************************************************)
(* The model broker of one Fleet session.                                  *)
(*                                                                         *)
(* A session worker on a guest machine has no provider credentials: each   *)
(* of its model completions is written to a spool directory of the guest's *)
(* app-server (fleetModelBrokerQueue.ts).  The workspace primary polls the *)
(* spool over the network, leases a request, runs the model and sends the  *)
(* answer back in chunks, which a digest seals (fleetRemote.ts).           *)
(*                                                                         *)
(* The worker is a thread of the guest's app-server, so that a crash ends  *)
(* both and leaves the files.  A method of the queue runs in one           *)
(* event-loop turn; only a crash comes between two of its file writes.     *)
(***************************************************************************)
EXTENDS Naturals, Sequences, FiniteSets

CONSTANTS
    Ids,          \* request ids, in the order their file names sort
    MaxStored,    \* MAX_REQUESTS_PER_SESSION
    Chunks,       \* chunks of an answer
    MaxLosses,    \* bound: responses lost, calls given up, heartbeats missed
    MaxCrashes    \* bound: crashes of the guest's app-server

ASSUME ModelBrokerQueueAssumption ==
    /\ Ids \subseteq Nat
    /\ MaxStored \in Nat
    /\ Chunks \in Nat \ {0}
    /\ MaxLosses \in Nat
    /\ MaxCrashes \in Nat

VARIABLES
    \* requestBrokerCompletion, one call per request id
    client,       \* "idle", "submitting", "waiting", "answered", "refused", "gone"
    received,     \* the answer it was handed: a set of at most one
    \* the spool: one request, state, part and result file per id
    requestFile,  \* the ids whose request file exists
    stateFile,    \* "missing", "pending" or "done"
    leaseId,      \* 0 is null
    leaseTime,    \* what is left of leaseUntil: 0 is expired
    partFile,     \* for each chunk the lease under which it was sent
    resultFile,
    lastLease,    \* leases handed out so far: randomUUID never repeats
    \* runBroker and answerBrokerRequest on the primary
    primary,
    calls,        \* calls on their way to the guest, given up or not
    \* bounds
    losses, crashes

clientVars == <<client, received>>
leaseVars == <<leaseId, leaseTime, lastLease>>
fileVars == <<requestFile, stateFile, leaseVars, partFile, resultFile>>
primaryVars == <<primary, calls>>
vars == <<clientVars, fileVars, primaryVars, losses, crashes>>

\* The bytes an execution sends under its lease.
Whole(l) == [k \in 1 .. Chunks |-> l]

\* attempt tells the call that is awaited from those that were given up.
Idle(attempt) == [step |-> "idle", attempt |-> attempt, request |-> 0, lease |-> 0]
Call(p, action, offset) ==
    [action |-> action, attempt |-> p.attempt, request |-> p.request, lease |-> p.lease,
     offset |-> offset]

Init ==
    /\ client = [i \in Ids |-> "idle"]
    /\ received = [i \in Ids |-> {}]
    /\ requestFile = {}
    /\ stateFile = [i \in Ids |-> "missing"]
    /\ leaseId = [i \in Ids |-> 0]
    /\ leaseTime = [i \in Ids |-> 0]
    /\ partFile = [i \in Ids |-> << >>]
    /\ resultFile = [i \in Ids |-> << >>]
    /\ lastLease = 0
    /\ primary = Idle(0)
    /\ calls = {}
    /\ losses = 0
    /\ crashes = 0

-----------------------------------------------------------------------------
(* The caller in the session worker.                                       *)

Start(i) ==
    /\ client[i] = "idle"
    /\ client' = [client EXCEPT ![i] = "submitting"]
    /\ UNCHANGED <<received, fileVars, primaryVars, losses, crashes>>

\* The submission is repeated until a response arrives; one that is not ok ends it.
Responds(i, outcome) ==
    \/ client' = [client EXCEPT ![i] = outcome] /\ UNCHANGED losses
    \/ losses < MaxLosses /\ losses' = losses + 1 /\ UNCHANGED client

\* Mutant: the limit counts the request that is about to be written.
SpoolIsFullEarly == Cardinality(requestFile) + 1 >= MaxStored
SpoolIsFull == Cardinality(requestFile) >= MaxStored

Submit(i) ==
    /\ client[i] = "submitting"
    /\ \/ /\ i \in requestFile
          /\ Responds(i, "waiting")
          /\ UNCHANGED <<requestFile, stateFile>>
       \/ /\ i \notin requestFile /\ SpoolIsFull
          /\ Responds(i, "refused")
          /\ UNCHANGED <<requestFile, stateFile>>
       \/ /\ i \notin requestFile /\ ~SpoolIsFull
          /\ requestFile' = requestFile \union {i}
          /\ stateFile' = [stateFile EXCEPT ![i] = "pending"]
          /\ Responds(i, "waiting")
    /\ UNCHANGED <<received, leaseVars, partFile, resultFile, primaryVars, crashes>>

\* An answer that says the model failed is an answer too; a pending state only
\* makes the caller ask again, and a request without a state is an error.
Result(i) ==
    /\ client[i] = "waiting"
    /\ \/ /\ stateFile[i] = "done"
          /\ client' = [client EXCEPT ![i] = "answered"]
          /\ received' = [received EXCEPT ![i] = {resultFile[i]}]
       \/ /\ stateFile[i] = "missing"
          /\ client' = [client EXCEPT ![i] = "refused"]
          /\ UNCHANGED received
    /\ UNCHANGED <<fileVars, primaryVars, losses, crashes>>

\* The completion's deadline, or the caller's abort signal.
GiveUp(i) ==
    /\ client[i] \in {"submitting", "waiting"}
    /\ client' = [client EXCEPT ![i] = "gone"]
    /\ UNCHANGED <<received, fileVars, primaryVars, losses, crashes>>

-----------------------------------------------------------------------------
(* The primary's loop: one call at a time.                                 *)

SendPoll ==
    /\ primary.step = "idle"
    /\ primary' = [primary EXCEPT !.step = "poll"]
    /\ calls' = calls \union {Call(primary, "poll", 0)}
    /\ UNCHANGED <<clientVars, fileVars, losses, crashes>>

\* The model answered, failed, or ran into its time limit.
ModelReturns ==
    /\ primary.step = "model"
    /\ primary' = [primary EXCEPT !.step = "begin"]
    /\ calls' = calls \union {Call(primary, "begin", 0)}
    /\ UNCHANGED <<clientVars, fileVars, losses, crashes>>

\* A call times out or its response is lost, or the primary restarts: the call
\* may still reach the guest.
Abandon ==
    /\ primary.step # "idle"
    /\ losses < MaxLosses
    /\ losses' = losses + 1
    /\ primary' = Idle(primary.attempt + 1)
    /\ UNCHANGED <<clientVars, fileVars, calls, crashes>>

\* The response to c, if somebody still waits for it, and the call it leads to.
Answered(c, next, action, offset) ==
    IF c.attempt = primary.attempt
    THEN /\ primary' = next
         /\ calls' = (calls \ {c}) \union
                IF action = "none" THEN {} ELSE {Call(next, action, offset)}
    ELSE calls' = calls \ {c} /\ UNCHANGED primary

\* runBroker waits and polls again.
Fails(c) == Answered(c, Idle(primary.attempt), "none", 0)

-----------------------------------------------------------------------------
(* The guest's queue, for the primary.                                     *)

\* Mutant: a request that was leased once is not looked at again.
NeverLeased == {i \in requestFile : \/ stateFile[i] = "missing"
                                    \/ stateFile[i] = "pending" /\ leaseId[i] = 0}
\* poll stops at the first of these, in the order of the file names.
Unclaimed == {i \in requestFile : \/ stateFile[i] = "missing"
                                  \/ stateFile[i] = "pending" /\ leaseTime[i] = 0}
First(i) == i \in Unclaimed /\ \A j \in Unclaimed : i <= j

\* Nothing to claim, or a request whose state cannot be read: poll throws.
NothingToLease == Unclaimed = {} \/ \E i \in Unclaimed : First(i) /\ stateFile[i] = "missing"

Lease(c, i) ==
    /\ First(i) /\ stateFile[i] = "pending"
    /\ lastLease' = lastLease + 1
    /\ leaseId' = [leaseId EXCEPT ![i] = lastLease + 1]
    /\ leaseTime' = [leaseTime EXCEPT ![i] = 2]
    /\ Answered(c, [primary EXCEPT !.step = "model", !.request = i, !.lease = lastLease + 1],
                "none", 0)

HandlePoll(c) ==
    /\ c.action = "poll"
    /\ \/ NothingToLease /\ Fails(c) /\ UNCHANGED leaseVars
       \/ \E i \in Unclaimed : Lease(c, i)
    /\ UNCHANGED <<requestFile, stateFile, partFile, resultFile>>

\* Mutant: whoever had a lease once may go on.
RequireAnyLease(i, l) == stateFile[i] # "missing" /\ l # 0
RequireLease(i, l) ==
    /\ stateFile[i] = "pending"
    /\ leaseId[i] # 0 /\ leaseId[i] = l
    /\ leaseTime[i] > 0

BeginResult(c) ==
    /\ c.action = "begin"
    /\ \/ /\ RequireLease(c.request, c.lease)
          /\ partFile' = [partFile EXCEPT ![c.request] = << >>]
          /\ Answered(c, [primary EXCEPT !.step = "append"], "append", 0)
       \/ /\ ~RequireLease(c.request, c.lease)
          /\ Fails(c)
          /\ UNCHANGED partFile
    /\ UNCHANGED <<requestFile, stateFile, leaseVars, resultFile>>

AppendResult(c) ==
    LET i == c.request
        accepted == RequireLease(i, c.lease) /\ Len(partFile[i]) = c.offset
    IN  /\ c.action = "append"
        /\ \/ /\ accepted
              /\ partFile' = [partFile EXCEPT ![i] = Append(@, c.lease)]
              /\ IF c.offset + 1 < Chunks
                 THEN Answered(c, primary, "append", c.offset + 1)
                 ELSE Answered(c, [primary EXCEPT !.step = "seal"], "seal", 0)
           \/ ~accepted /\ Fails(c) /\ UNCHANGED partFile
        /\ UNCHANGED <<requestFile, stateFile, leaseVars, resultFile>>

\* The digest covers the whole answer.
Sealable(c) ==
    /\ c.action = "seal"
    /\ RequireLease(c.request, c.lease)
    /\ partFile[c.request] = Whole(c.lease)

SealResult(c) ==
    /\ c.action = "seal"
    /\ \/ /\ Sealable(c)
          /\ resultFile' = [resultFile EXCEPT ![c.request] = partFile[c.request]]
          /\ stateFile' = [stateFile EXCEPT ![c.request] = "done"]
          /\ leaseId' = [leaseId EXCEPT ![c.request] = 0]
          /\ leaseTime' = [leaseTime EXCEPT ![c.request] = 0]
       \/ ~Sealable(c) /\ UNCHANGED <<resultFile, stateFile, leaseId, leaseTime>>
    /\ Fails(c)     \* sealed or not, the primary polls again
    /\ UNCHANGED <<requestFile, partFile, lastLease>>

Handle(c) ==
    /\ c \in calls
    /\ HandlePoll(c) \/ BeginResult(c) \/ AppendResult(c) \/ SealResult(c)
    /\ UNCHANGED <<clientVars, losses, crashes>>

-----------------------------------------------------------------------------
(* Time and crashes.                                                       *)

\* The request the primary works on: its heartbeat renews the lease.
Held(i) == primary.lease # 0 /\ primary.request = i /\ primary.lease = leaseId[i]

\* A lease that is renewed in time does not end: one heartbeat has to be missed.
TimePasses(i) ==
    /\ stateFile[i] = "pending" /\ leaseTime[i] > 0
    /\ leaseTime' = [leaseTime EXCEPT ![i] = @ - 1]
    /\ IF Held(i) /\ leaseTime[i] = 1
       THEN losses < MaxLosses /\ losses' = losses + 1
       ELSE UNCHANGED losses
    /\ UNCHANGED <<clientVars, requestFile, stateFile, leaseId, lastLease, partFile, resultFile,
                   primaryVars, crashes>>

\* Mutant: the lease is extended from its old end instead of from now.
RenewFromItsEnd(i) ==
    /\ Held(i)
    /\ RequireLease(i, primary.lease) /\ leaseTime[i] < 2
    /\ leaseTime' = [leaseTime EXCEPT ![i] = @ + 2]
    /\ UNCHANGED <<clientVars, requestFile, stateFile, leaseId, lastLease, partFile, resultFile,
                   primaryVars, losses, crashes>>
Renew(i) ==
    /\ Held(i)
    /\ RequireLease(i, primary.lease) /\ leaseTime[i] < 2
    /\ leaseTime' = [leaseTime EXCEPT ![i] = 2]
    /\ UNCHANGED <<clientVars, requestFile, stateFile, leaseId, lastLease, partFile, resultFile,
                   primaryVars, losses, crashes>>

\* The callers are threads of the process, the connections are reset, and the
\* primary goes on with the model if that is where it was.
Crash ==
    /\ crashes < MaxCrashes
    /\ crashes' = crashes + 1
    /\ client' = [i \in Ids |-> IF client[i] \in {"submitting", "waiting"} THEN "gone"
                                ELSE client[i]]
    /\ calls' = {}
    /\ primary' = IF primary.step = "model" THEN primary ELSE Idle(primary.attempt)
    /\ UNCHANGED <<received, leaseVars, partFile, losses>>

GuestCrash == Crash /\ UNCHANGED <<requestFile, stateFile, resultFile>>

\* Between the request file and the state file.
SubmitCutShort(i) ==
    /\ client[i] = "submitting" /\ i \notin requestFile /\ ~SpoolIsFull
    /\ requestFile' = requestFile \union {i}
    /\ Crash
    /\ UNCHANGED <<stateFile, resultFile>>

\* Mutant: the state file is written before the result file.
StateCutShort(c) ==
    /\ c \in calls /\ Sealable(c)
    /\ stateFile' = [stateFile EXCEPT ![c.request] = "done"]
    /\ Crash
    /\ UNCHANGED <<requestFile, resultFile>>
\* Between the result file and the state file.
SealCutShort(c) ==
    /\ c \in calls /\ Sealable(c)
    /\ resultFile' = [resultFile EXCEPT ![c.request] = partFile[c.request]]
    /\ Crash
    /\ UNCHANGED <<requestFile, stateFile>>

Next ==
    \/ \E i \in Ids : Start(i) \/ Submit(i) \/ Result(i) \/ GiveUp(i)
                      \/ TimePasses(i) \/ Renew(i) \/ SubmitCutShort(i)
    \/ \E c \in calls : Handle(c) \/ SealCutShort(c)
    \/ SendPoll \/ ModelReturns \/ Abandon \/ GuestCrash

Spec == Init /\ [][Next]_vars

\* Nobody has to ask, to crash or to give up.  A lease that nobody renews runs
\* out with the clock.
Fairness ==
    /\ WF_vars(\E i \in Ids : Submit(i))
    /\ WF_vars(\E i \in Ids : Result(i))
    /\ WF_vars(SendPoll)
    /\ WF_vars(ModelReturns)
    /\ WF_vars(\E c \in calls : Handle(c))
    /\ WF_vars(\E i \in Ids : ~Held(i) /\ TimePasses(i))

FairSpec == Spec /\ Fairness

-----------------------------------------------------------------------------
Steps == {"idle", "poll", "model", "begin", "append", "seal"}

\* The state of one session's spool, its callers and the primary's loop.
TypeOK ==
    /\ client \in [Ids -> {"idle", "submitting", "waiting", "answered", "refused", "gone"}]
    /\ received \in [Ids -> SUBSET Seq(Nat)]
    /\ requestFile \subseteq Ids
    /\ stateFile \in [Ids -> {"missing", "pending", "done"}]
    /\ leaseId \in [Ids -> Nat]
    /\ leaseTime \in [Ids -> 0 .. 2]
    /\ partFile \in [Ids -> Seq(Nat)]
    /\ resultFile \in [Ids -> Seq(Nat)]
    /\ lastLease \in Nat
    /\ primary \in [step : Steps, attempt : Nat, request : Ids \union {0}, lease : Nat]
    /\ calls \subseteq [action : Steps, attempt : Nat, request : Ids \union {0}, lease : Nat,
                        offset : Nat]
    /\ losses \in 0 .. MaxLosses
    /\ crashes \in 0 .. MaxCrashes

\* A request that is marked done has the whole answer of one execution in its
\* result file, whatever crash cut a seal short and whichever executions ran
\* after each other (seal renames the result before it writes the state).
DoneIsWhole ==
    \A i \in Ids : stateFile[i] = "done" => \E l \in 1 .. lastLease : resultFile[i] = Whole(l)

\* A caller is turned away only by a spool that holds the limit of requests,
\* which no code of the repository ever empties: it never meets a request of
\* its own that has no state.
RefusedOnlyAtTheLimit ==
    \A i \in Ids : client[i] = "refused" =>
        i \notin requestFile /\ Cardinality(requestFile) >= MaxStored

\* Both: the spool never shows more than it has, a whole answer behind done and a
\* real limit behind a refusal (seal and submit).
SpoolIsSound == DoneIsWhole /\ RefusedOnlyAtTheLimit

\* A request without a state stops the poll before every later one.
Blocked(i) == \E j \in requestFile : j < i /\ stateFile[j] = "missing"

\* A caller that waits gets its answer, unless a crash left a request without
\* a state that sorts before its own.
WaitingIsServed ==
    \A i \in Ids : client[i] = "waiting" ~> client[i] # "waiting" \/ Blocked(i)

-----------------------------------------------------------------------------
(* The promise: what the caller sees and what is marked done.              *)

AbstractCaller == [i \in Ids |-> IF client[i] \in {"submitting", "waiting"} THEN "asking"
                                 ELSE client[i]]
AbstractAnswer == [i \in Ids |-> IF stateFile[i] = "done" THEN {resultFile[i]} ELSE {}]

Broker == INSTANCE ModelBroker WITH
    Ids <- Ids, Answers <- [1 .. Chunks -> Nat],
    caller <- AbstractCaller, answer <- AbstractAnswer, received <- received

\* The spool, the leases and the chunked transfer give each completion at most
\* one answer, whole and never replaced, and hand callers that one.
KeepsThePromise == Broker!Spec
=============================================================================
