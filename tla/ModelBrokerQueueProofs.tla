----------------------- MODULE ModelBrokerQueueProofs -----------------------
(***************************************************************************)
(* Proofs about ModelBrokerQueue, for every set of requests, every answer  *)
(* length and every bound: its types, its files, and that the spool keeps  *)
(* the promise of ModelBroker.                                             *)
(***************************************************************************)
EXTENDS ModelBrokerQueue, FiniteSetTheorems, TLAPS

PrimaryType ==
    /\ primary \in [step : Steps, attempt : Nat, request : Ids \union {0}, lease : Nat]
    /\ calls \subseteq [action : Steps, attempt : Nat, request : Ids \union {0}, lease : Nat,
                        offset : Nat]

\* Files change one at a time.
LEMMA FileType ==
    ASSUME NEW S, NEW file \in [Ids -> S], NEW i, NEW content, i \in Ids => content \in S
    PROVE  [file EXCEPT ![i] = content] \in [Ids -> S]
OBVIOUS

LEMMA CallType ==
    ASSUME NEW p \in [step : Steps, attempt : Nat, request : Ids \union {0}, lease : Nat],
           NEW action \in Steps, NEW offset \in Nat
    PROVE  Call(p, action, offset) \in [action : Steps, attempt : Nat, request : Ids \union {0},
                                        lease : Nat, offset : Nat]
BY DEF Call

LEMMA IdleType ==
    ASSUME NEW attempt \in Nat
    PROVE  Idle(attempt) \in [step : Steps, attempt : Nat, request : Ids \union {0}, lease : Nat]
BY DEF Idle, Steps

LEMMA AnsweredType ==
    ASSUME TypeOK, NEW c \in calls,
           NEW next \in [step : Steps, attempt : Nat, request : Ids \union {0}, lease : Nat],
           NEW action \in Steps \union {"none"}, NEW offset \in Nat,
           Answered(c, next, action, offset)
    PROVE  PrimaryType'
<1>1. CASE c.attempt = primary.attempt
  <2>1. primary' = next
    BY <1>1 DEF Answered
  <2>2. calls' \subseteq calls \union (IF action = "none" THEN {} ELSE {Call(next, action, offset)})
    BY <1>1 DEF Answered
  <2>3. CASE action = "none"
    BY <2>1, <2>2, <2>3 DEF TypeOK, PrimaryType
  <2>4. CASE action # "none"
    <3>1. Call(next, action, offset) \in [action : Steps, attempt : Nat, request : Ids \union {0},
                                          lease : Nat, offset : Nat]
      BY <2>4, CallType
    <3> QED BY <2>1, <2>2, <2>4, <3>1 DEF TypeOK, PrimaryType
  <2> QED BY <2>3, <2>4
<1>2. CASE c.attempt # primary.attempt
  BY <1>2 DEF Answered, TypeOK, PrimaryType
<1> QED BY <1>1, <1>2

LEMMA FailsType ==
    ASSUME TypeOK, NEW c \in calls, Fails(c)
    PROVE  PrimaryType'
<1>1. Idle(primary.attempt) \in [step : Steps, attempt : Nat, request : Ids \union {0}, lease : Nat]
  BY IdleType DEF TypeOK
<1> QED BY <1>1, AnsweredType DEF Fails

LEMMA CrashType ==
    ASSUME TypeOK, Crash
    PROVE  /\ PrimaryType'
           /\ client' \in [Ids -> {"idle", "submitting", "waiting", "answered", "refused", "gone"}]
           /\ crashes' \in 0 .. MaxCrashes
<1>1. PrimaryType'
  BY IdleType DEF TypeOK, Crash, PrimaryType
<1>2. client' \in [Ids -> {"idle", "submitting", "waiting", "answered", "refused", "gone"}]
  BY DEF TypeOK, Crash
<1>3. crashes' \in 0 .. MaxCrashes
  BY ModelBrokerQueueAssumption DEF TypeOK, Crash
<1> QED BY <1>1, <1>2, <1>3

LEMMA HandleType ==
    ASSUME TypeOK, NEW c \in calls, Handle(c)
    PROVE  TypeOK'
<1>1. c.request \in Ids \union {0} /\ c.lease \in Nat /\ c.offset \in Nat
  BY DEF TypeOK
<1>2. ASSUME HandlePoll(c) PROVE TypeOK'
  <2>1. ASSUME NothingToLease, Fails(c), UNCHANGED leaseVars PROVE TypeOK'
    <3>1. PrimaryType'
      BY <2>1, FailsType
    <3> QED BY <1>2, <2>1, <3>1 DEF HandlePoll, leaseVars, Handle, clientVars, TypeOK, PrimaryType
  <2>2. ASSUME NEW i \in Unclaimed, Lease(c, i) PROVE TypeOK'
    <3>1. i \in Ids
      BY DEF Unclaimed, TypeOK
    <3>2. [primary EXCEPT !.step = "model", !.request = i, !.lease = lastLease + 1]
              \in [step : Steps, attempt : Nat, request : Ids \union {0}, lease : Nat]
      <4>1. lastLease + 1 \in Nat
        BY DEF TypeOK
      <4>2. "model" \in Steps
        BY DEF Steps
      <4> QED BY <3>1, <4>1, <4>2 DEF TypeOK
    <3>3. PrimaryType'
      BY <2>2, <3>2, AnsweredType DEF Lease
    <3>4. leaseId' \in [Ids -> Nat] /\ leaseTime' \in [Ids -> 0 .. 2] /\ lastLease' \in Nat
      BY <2>2, <3>1 DEF Lease, TypeOK
    <3> QED BY <1>2, <3>3, <3>4 DEF HandlePoll, Handle, clientVars, TypeOK, PrimaryType
  <2> QED BY <1>2, <2>1, <2>2 DEF HandlePoll
<1>3. ASSUME BeginResult(c) PROVE TypeOK'
  <2>1. [primary EXCEPT !.step = "append"]
            \in [step : Steps, attempt : Nat, request : Ids \union {0}, lease : Nat]
    BY DEF TypeOK, Steps
  <2>2. PrimaryType'
    BY <1>3, <2>1, FailsType, AnsweredType DEF BeginResult, Steps
  <2>3. partFile' \in [Ids -> Seq(Nat)]
    <3>1. << >> \in Seq(Nat)
      OBVIOUS
    <3> QED BY <1>3, <3>1, FileType DEF BeginResult, TypeOK
  <2> QED BY <1>3, <2>2, <2>3 DEF BeginResult, Handle, clientVars, leaseVars, TypeOK, PrimaryType
<1>4. ASSUME AppendResult(c) PROVE TypeOK'
  <2>1. [primary EXCEPT !.step = "seal"]
            \in [step : Steps, attempt : Nat, request : Ids \union {0}, lease : Nat]
    BY DEF TypeOK, Steps
  <2>2. PrimaryType'
    <3>1. primary \in [step : Steps, attempt : Nat, request : Ids \union {0}, lease : Nat]
      BY DEF TypeOK
    <3> QED BY <1>1, <1>4, <2>1, <3>1, FailsType, AnsweredType DEF AppendResult, Steps
  <2>3. partFile' \in [Ids -> Seq(Nat)]
    <3>1. c.request \in Ids => Append(partFile[c.request], c.lease) \in Seq(Nat)
      BY <1>1 DEF TypeOK
    <3>2. CASE partFile' = [partFile EXCEPT ![c.request] = Append(@, c.lease)]
      BY <3>1, <3>2, FileType DEF TypeOK
    <3>3. CASE partFile' = partFile
      BY <3>3 DEF TypeOK
    <3> QED BY <1>4, <3>2, <3>3 DEF AppendResult
  <2> QED BY <1>4, <2>2, <2>3 DEF AppendResult, Handle, clientVars, leaseVars, TypeOK, PrimaryType
<1>5. ASSUME SealResult(c) PROVE TypeOK'
  <2>1. PrimaryType'
    BY <1>5, FailsType DEF SealResult
  <2>2. CASE Sealable(c)
    <3>1. c.request \in Ids => partFile[c.request] \in Seq(Nat)
      BY DEF TypeOK
    <3> DEFINE r == c.request
    <3>6. /\ resultFile' = [resultFile EXCEPT ![r] = partFile[r]]
          /\ stateFile' = [stateFile EXCEPT ![r] = "done"]
          /\ leaseId' = [leaseId EXCEPT ![r] = 0]
          /\ leaseTime' = [leaseTime EXCEPT ![r] = 0]
      BY <1>5, <2>2 DEF SealResult
    <3>7. 0 \in Nat /\ 0 \in 0 .. 2
      OBVIOUS
    <3> HIDE DEF r
    <3>2. resultFile' \in [Ids -> Seq(Nat)]
      <4>1. r \in Ids => partFile[r] \in Seq(Nat)
        BY <3>1 DEF r
      <4>2. resultFile \in [Ids -> Seq(Nat)]
        BY DEF TypeOK
      <4> QED BY <3>6, <4>1, <4>2, FileType
    <3>3. stateFile' \in [Ids -> {"missing", "pending", "done"}]
      BY <3>6 DEF TypeOK
    <3>4. leaseId' \in [Ids -> Nat]
      <4>1. leaseId \in [Ids -> Nat]
        BY DEF TypeOK
      <4> QED BY <3>6, <3>7, <4>1, FileType
    <3>5. leaseTime' \in [Ids -> 0 .. 2]
      <4>1. leaseTime \in [Ids -> 0 .. 2]
        BY DEF TypeOK
      <4> QED BY <3>6, <3>7, <4>1, FileType
    <3> QED BY <1>5, <2>1, <3>2, <3>3, <3>4, <3>5
            DEF SealResult, Handle, clientVars, TypeOK, PrimaryType
  <2>3. CASE ~Sealable(c)
    BY <1>5, <2>1, <2>3 DEF SealResult, Handle, clientVars, TypeOK, PrimaryType
  <2> QED BY <2>2, <2>3
<1> QED BY <1>2, <1>3, <1>4, <1>5 DEF Handle

\* The caller, the clock and the files change only within their types.
LEMMA CallerType ==
    ASSUME TypeOK, NEW i \in Ids, Start(i) \/ Submit(i) \/ Result(i) \/ GiveUp(i)
    PROVE  TypeOK'
<1>1. ASSUME Start(i) \/ GiveUp(i) PROVE TypeOK'
  BY <1>1 DEF Start, GiveUp, TypeOK, fileVars, leaseVars, primaryVars
<1>2. ASSUME Submit(i) PROVE TypeOK'
  <2>1. client' \in [Ids -> {"idle", "submitting", "waiting", "answered", "refused", "gone"}]
    BY <1>2 DEF Submit, Responds, TypeOK
  <2>2. losses' \in 0 .. MaxLosses
    BY <1>2, ModelBrokerQueueAssumption DEF Submit, Responds, TypeOK
  <2>3. requestFile' \subseteq Ids /\ stateFile' \in [Ids -> {"missing", "pending", "done"}]
    BY <1>2 DEF Submit, TypeOK
  <2> QED BY <1>2, <2>1, <2>2, <2>3 DEF Submit, TypeOK, leaseVars, primaryVars
<1>3. ASSUME Result(i) PROVE TypeOK'
  <2>1. client' \in [Ids -> {"idle", "submitting", "waiting", "answered", "refused", "gone"}]
    BY <1>3 DEF Result, TypeOK
  <2>2. received' \in [Ids -> SUBSET Seq(Nat)]
    <3>1. {resultFile[i]} \in SUBSET Seq(Nat)
      BY DEF TypeOK
    <3> QED BY <1>3, <3>1, FileType DEF Result, TypeOK
  <2> QED BY <1>3, <2>1, <2>2 DEF Result, TypeOK, fileVars, leaseVars, primaryVars
<1> QED BY <1>1, <1>2, <1>3

LEMMA ClockType ==
    ASSUME TypeOK, NEW i \in Ids, TimePasses(i) \/ Renew(i)
    PROVE  TypeOK'
<1>1. leaseTime' \in [Ids -> 0 .. 2]
  <2>1. leaseTime[i] \in 0 .. 2
    BY DEF TypeOK
  <2>2. leaseTime[i] > 0 => leaseTime[i] - 1 \in 0 .. 2
    BY <2>1
  <2>3. CASE TimePasses(i)
    BY <2>2, <2>3, FileType DEF TypeOK, TimePasses
  <2>4. CASE Renew(i)
    BY <2>4 DEF TypeOK, Renew
  <2> QED BY <2>3, <2>4
<1>2. losses' \in 0 .. MaxLosses
  BY ModelBrokerQueueAssumption DEF TypeOK, TimePasses, Renew
<1> QED BY <1>1, <1>2 DEF TypeOK, TimePasses, Renew, clientVars, primaryVars

LEMMA PrimaryStepType ==
    ASSUME TypeOK, SendPoll \/ ModelReturns \/ Abandon
    PROVE  TypeOK'
<1>1. ASSUME SendPoll \/ ModelReturns PROVE TypeOK'
  <2>1. primary' \in [step : Steps, attempt : Nat, request : Ids \union {0}, lease : Nat]
    BY <1>1 DEF TypeOK, SendPoll, ModelReturns, Steps
  <2>2. /\ Call(primary, "poll", 0) \in [action : Steps, attempt : Nat, request : Ids \union {0},
                                         lease : Nat, offset : Nat]
        /\ Call(primary, "begin", 0) \in [action : Steps, attempt : Nat, request : Ids \union {0},
                                          lease : Nat, offset : Nat]
    BY CallType DEF TypeOK, Steps
  <2> QED BY <1>1, <2>1, <2>2 DEF TypeOK, SendPoll, ModelReturns, clientVars, fileVars, leaseVars
<1>2. ASSUME Abandon PROVE TypeOK'
  <2>1. primary' \in [step : Steps, attempt : Nat, request : Ids \union {0}, lease : Nat]
    BY <1>2, IdleType DEF TypeOK, Abandon
  <2>2. losses' \in 0 .. MaxLosses
    BY <1>2, ModelBrokerQueueAssumption DEF TypeOK, Abandon
  <2> QED BY <1>2, <2>1, <2>2 DEF TypeOK, Abandon, clientVars, fileVars, leaseVars
<1> QED BY <1>1, <1>2

LEMMA CrashStepType ==
    ASSUME TypeOK, \/ GuestCrash
                   \/ \E i \in Ids : SubmitCutShort(i)
                   \/ \E c \in calls : SealCutShort(c)
    PROVE  TypeOK'
<1>1. Crash
  BY DEF GuestCrash, SubmitCutShort, SealCutShort
<1>2. requestFile' \subseteq Ids /\ stateFile' \in [Ids -> {"missing", "pending", "done"}]
  BY DEF GuestCrash, SubmitCutShort, SealCutShort, TypeOK
<1>3. resultFile' \in [Ids -> Seq(Nat)]
  BY DEF GuestCrash, SubmitCutShort, SealCutShort, TypeOK
<1> QED BY <1>1, <1>2, <1>3, CrashType DEF Crash, TypeOK, PrimaryType, leaseVars

\* Each step keeps the types of the spool, its callers and the primary's loop.
THEOREM TypeCorrect == Spec => []TypeOK
<1>1. Init => TypeOK
  BY ModelBrokerQueueAssumption DEF Init, TypeOK, Idle, Steps
<1>2. TypeOK /\ [Next]_vars => TypeOK'
  <2> SUFFICES ASSUME TypeOK, [Next]_vars PROVE TypeOK'
    OBVIOUS
  <2>1. CASE UNCHANGED vars
    BY <2>1 DEF vars, clientVars, fileVars, leaseVars, primaryVars, TypeOK
  <2>2. CASE Next
    BY <2>2, HandleType, CallerType, ClockType, PrimaryStepType, CrashStepType DEF Next
  <2> QED BY <2>1, <2>2
<1> QED BY <1>1, <1>2, PTL DEF Spec

-----------------------------------------------------------------------------
(* The files.                                                              *)

\* Leases are numbered as they are handed out; a file that says something of a
\* request stands beside its request file, and a caller that lives does not
\* meet a request without a state.
FilesAgree ==
    /\ \A i \in Ids : leaseId[i] <= lastLease
    /\ \A i \in Ids : stateFile[i] # "missing" => i \in requestFile
    /\ \A i \in requestFile : client[i] # "idle"
    /\ \A i \in requestFile : client[i] \in {"submitting", "waiting"} => stateFile[i] # "missing"
    /\ \A i \in Ids : client[i] = "waiting" => i \in requestFile

Spool == FilesAgree /\ DoneIsWhole /\ RefusedOnlyAtTheLimit /\ IsFiniteSet(requestFile)

LEMMA SpoolKeptByOthers ==
    ASSUME TypeOK, Spool, UNCHANGED <<client, requestFile, stateFile, leaseId, lastLease, resultFile>>
    PROVE  Spool'
BY DEF Spool, FilesAgree, DoneIsWhole, RefusedOnlyAtTheLimit, Whole

LEMMA SpoolKeptByStarts ==
    ASSUME TypeOK, Spool, NEW i \in Ids, Start(i) \/ GiveUp(i)
    PROVE  Spool'
<1>1. /\ UNCHANGED <<requestFile, stateFile, leaseId, lastLease, resultFile>>
      /\ \/ client[i] = "idle" /\ client' = [client EXCEPT ![i] = "submitting"]
         \/ client[i] # "idle" /\ client' = [client EXCEPT ![i] = "gone"]
  BY DEF Start, GiveUp, fileVars, leaseVars
<1>2. FilesAgree'
  BY <1>1 DEF TypeOK, Spool, FilesAgree
<1>3. RefusedOnlyAtTheLimit'
  BY <1>1 DEF TypeOK, Spool, RefusedOnlyAtTheLimit
<1> QED BY <1>1, <1>2, <1>3 DEF Spool, DoneIsWhole, Whole

LEMMA SpoolKeptBySubmit ==
    ASSUME TypeOK, Spool, NEW i \in Ids, Submit(i)
    PROVE  Spool'
<1>1. UNCHANGED <<leaseId, lastLease, resultFile>>
  BY DEF Submit, leaseVars
<1>2. CASE i \in requestFile
  <2>1. /\ UNCHANGED <<requestFile, stateFile>>
        /\ client' = client \/ client' = [client EXCEPT ![i] = "waiting"]
    BY <1>2 DEF Submit, Responds
  <2> QED BY <1>1, <1>2, <2>1
          DEF TypeOK, Spool, FilesAgree, DoneIsWhole, RefusedOnlyAtTheLimit, Whole, Submit
<1>3. CASE i \notin requestFile /\ SpoolIsFull
  <2>1. /\ UNCHANGED <<requestFile, stateFile>>
        /\ client' = client \/ client' = [client EXCEPT ![i] = "refused"]
    BY <1>3 DEF Submit, Responds
  <2> QED BY <1>1, <1>3, <2>1
          DEF TypeOK, Spool, FilesAgree, DoneIsWhole, RefusedOnlyAtTheLimit, Whole, SpoolIsFull
<1>4. CASE i \notin requestFile /\ ~SpoolIsFull
  <2>1. /\ requestFile' = requestFile \union {i}
        /\ stateFile' = [stateFile EXCEPT ![i] = "pending"]
        /\ client' = client \/ client' = [client EXCEPT ![i] = "waiting"]
        /\ client[i] = "submitting"
    BY <1>4 DEF Submit, Responds
  <2>2. FilesAgree'
    BY <1>1, <2>1 DEF TypeOK, Spool, FilesAgree
  <2>3. DoneIsWhole'
    BY <1>1, <2>1 DEF TypeOK, Spool, DoneIsWhole, Whole
  <2>4. IsFiniteSet(requestFile')
    BY <2>1, FS_AddElement DEF Spool
  <2>5. \A j \in Ids : client'[j] # "refused"
    <3>1. Cardinality(requestFile) \in Nat /\ ~(Cardinality(requestFile) >= MaxStored)
      BY <1>4, FS_CardinalityType DEF Spool, SpoolIsFull
    <3>2. \A j \in Ids : client[j] # "refused"
      BY <3>1 DEF Spool, RefusedOnlyAtTheLimit
    <3> QED BY <2>1, <3>2 DEF TypeOK
  <2> QED BY <2>2, <2>3, <2>4, <2>5 DEF Spool, RefusedOnlyAtTheLimit
<1> QED BY <1>2, <1>3, <1>4

\* A caller that waits has a state to read.
LEMMA SpoolKeptByResult ==
    ASSUME TypeOK, Spool, NEW i \in Ids, Result(i)
    PROVE  Spool'
<1>1. stateFile[i] = "done" /\ client' = [client EXCEPT ![i] = "answered"]
  BY DEF Spool, FilesAgree, Result
<1> QED BY <1>1 DEF TypeOK, Spool, FilesAgree, DoneIsWhole, RefusedOnlyAtTheLimit, Whole, Result,
                    fileVars, leaseVars

LEMMA SpoolKeptByLease ==
    ASSUME TypeOK, Spool, NEW c \in calls, Handle(c), NEW i \in Unclaimed, Lease(c, i),
           UNCHANGED <<requestFile, stateFile, partFile, resultFile>>
    PROVE  Spool'
<1>1. i \in Ids
  BY DEF Unclaimed, TypeOK
<1>2. /\ lastLease' = lastLease + 1 /\ lastLease \in Nat
      /\ leaseId' = [leaseId EXCEPT ![i] = lastLease + 1]
      /\ UNCHANGED client
  BY DEF Lease, Handle, clientVars, TypeOK
<1>3. DoneIsWhole'
  BY <1>2 DEF Spool, DoneIsWhole, Whole
<1>4. FilesAgree'
  BY <1>1, <1>2 DEF TypeOK, Spool, FilesAgree
<1> QED BY <1>2, <1>3, <1>4 DEF Spool, RefusedOnlyAtTheLimit

LEMMA SealWrites ==
    ASSUME TypeOK, Spool, NEW c \in calls, Sealable(c),
           resultFile' = [resultFile EXCEPT ![c.request] = partFile[c.request]]
    PROVE  /\ \A i \in Ids : i # c.request => resultFile'[i] = resultFile[i]
           /\ c.request \in Ids => /\ stateFile[c.request] = "pending"
                                   /\ \E l \in 1 .. lastLease : resultFile'[c.request] = Whole(l)
<1>1. ASSUME c.request \in Ids PROVE \E l \in 1 .. lastLease : resultFile'[c.request] = Whole(l)
  <2>1. c.lease \in 1 .. lastLease
    BY <1>1 DEF Sealable, RequireLease, TypeOK, Spool, FilesAgree
  <2>2. resultFile'[c.request] = Whole(c.lease)
    BY <1>1 DEF Sealable, TypeOK
  <2> QED BY <2>1, <2>2
<1> QED BY <1>1 DEF TypeOK, Sealable, RequireLease

LEMMA SpoolKeptBySeal ==
    ASSUME TypeOK, Spool, NEW c \in calls, SealResult(c), UNCHANGED client
    PROVE  Spool'
<1>1. CASE ~Sealable(c)
  BY <1>1, SpoolKeptByOthers DEF SealResult
<1>2. CASE Sealable(c)
  <2> DEFINE r == c.request
  <2>1. /\ resultFile' = [resultFile EXCEPT ![r] = partFile[r]]
        /\ stateFile' = [stateFile EXCEPT ![r] = "done"]
        /\ leaseId' = [leaseId EXCEPT ![r] = 0]
        /\ UNCHANGED <<requestFile, lastLease>>
    BY <1>2 DEF SealResult
  <2>2. /\ \A i \in Ids : i # r => resultFile'[i] = resultFile[i]
        /\ r \in Ids => /\ stateFile[r] = "pending"
                        /\ \E l \in 1 .. lastLease : resultFile'[r] = Whole(l)
    BY <1>2, <2>1, SealWrites
  <2> HIDE DEF r
  <2>3. DoneIsWhole'
    BY <2>1, <2>2 DEF TypeOK, Spool, DoneIsWhole, Whole
  <2>4. FilesAgree'
    BY <2>1, <2>2 DEF TypeOK, Spool, FilesAgree
  <2> QED BY <2>1, <2>3, <2>4 DEF Spool, RefusedOnlyAtTheLimit
<1> QED BY <1>1, <1>2

LEMMA SpoolKeptByHandle ==
    ASSUME TypeOK, Spool, NEW c \in calls, Handle(c)
    PROVE  Spool'
<1>1. UNCHANGED client
  BY DEF Handle, clientVars
<1>2. ASSUME HandlePoll(c) PROVE Spool'
  <2>1. ASSUME NothingToLease, UNCHANGED leaseVars PROVE Spool'
    BY <1>1, <1>2, <2>1, SpoolKeptByOthers DEF HandlePoll, leaseVars
  <2>2. ASSUME NEW i \in Unclaimed, Lease(c, i) PROVE Spool'
    BY <1>2, <2>2, SpoolKeptByLease DEF HandlePoll
  <2> QED BY <1>2, <2>1, <2>2 DEF HandlePoll
<1>3. ASSUME BeginResult(c) \/ AppendResult(c) PROVE Spool'
  BY <1>1, <1>3, SpoolKeptByOthers DEF BeginResult, AppendResult, leaseVars
<1>4. ASSUME SealResult(c) PROVE Spool'
  BY <1>1, <1>4, SpoolKeptBySeal
<1> QED BY <1>2, <1>3, <1>4 DEF Handle

LEMMA SpoolKeptByCrash ==
    ASSUME TypeOK, Spool, Crash, UNCHANGED <<requestFile, stateFile>>,
           \A i \in Ids : stateFile[i] = "done" => resultFile'[i] = resultFile[i]
    PROVE  Spool'
<1>1. /\ client' = [i \in Ids |-> IF client[i] \in {"submitting", "waiting"} THEN "gone"
                                 ELSE client[i]]
      /\ UNCHANGED <<leaseId, lastLease>>
  BY DEF Crash, leaseVars
<1>2. FilesAgree'
  BY <1>1 DEF TypeOK, Spool, FilesAgree
<1>3. DoneIsWhole'
  <2> SUFFICES ASSUME NEW i \in Ids, stateFile[i] = "done"
               PROVE  \E l \in 1 .. lastLease : resultFile'[i] = Whole(l)
    BY <1>1 DEF DoneIsWhole, Whole
  <2> QED BY DEF Spool, DoneIsWhole
<1>4. RefusedOnlyAtTheLimit'
  BY <1>1 DEF TypeOK, Spool, RefusedOnlyAtTheLimit
<1> QED BY <1>2, <1>3, <1>4 DEF Spool

LEMMA SpoolKeptBySubmitCutShort ==
    ASSUME TypeOK, Spool, NEW i \in Ids, SubmitCutShort(i)
    PROVE  Spool'
<1>1. /\ client' = [j \in Ids |-> IF client[j] \in {"submitting", "waiting"} THEN "gone"
                                 ELSE client[j]]
      /\ requestFile' = requestFile \union {i}
      /\ client[i] = "submitting"
      /\ UNCHANGED <<leaseId, lastLease, stateFile, resultFile>>
  BY DEF SubmitCutShort, Crash, leaseVars
<1>2. FilesAgree'
  BY <1>1 DEF TypeOK, Spool, FilesAgree
<1>3. DoneIsWhole'
  BY <1>1 DEF TypeOK, Spool, DoneIsWhole, Whole
<1>4. \A j \in Ids : client'[j] # "refused"
  <2>1. ~(Cardinality(requestFile) >= MaxStored)
    BY DEF SubmitCutShort, SpoolIsFull
  <2>2. \A j \in Ids : client[j] # "refused"
    BY <2>1 DEF Spool, RefusedOnlyAtTheLimit
  <2> QED BY <1>1, <2>2 DEF TypeOK
<1>5. IsFiniteSet(requestFile')
  BY <1>1, FS_AddElement DEF Spool
<1> QED BY <1>2, <1>3, <1>4, <1>5 DEF Spool, RefusedOnlyAtTheLimit

LEMMA SpoolInvariant == Spec => []Spool
<1>1. Init => Spool
  BY FS_EmptySet DEF Init, Spool, FilesAgree, DoneIsWhole, RefusedOnlyAtTheLimit
<1>2. TypeOK /\ Spool /\ [Next]_vars => Spool'
  <2> SUFFICES ASSUME TypeOK, Spool, [Next]_vars PROVE Spool'
    OBVIOUS
  <2>1. CASE UNCHANGED vars
    BY <2>1, SpoolKeptByOthers DEF vars, clientVars, fileVars, leaseVars
  <2>2. ASSUME NEW i \in Ids, Start(i) \/ Submit(i) \/ Result(i) \/ GiveUp(i) PROVE Spool'
    BY <2>2, SpoolKeptByStarts, SpoolKeptBySubmit, SpoolKeptByResult
  <2>3. ASSUME NEW i \in Ids, TimePasses(i) \/ Renew(i) PROVE Spool'
    BY <2>3, SpoolKeptByOthers DEF TimePasses, Renew, clientVars
  <2>4. ASSUME SendPoll \/ ModelReturns \/ Abandon PROVE Spool'
    BY <2>4, SpoolKeptByOthers DEF SendPoll, ModelReturns, Abandon, clientVars, fileVars, leaseVars
  <2>5. ASSUME GuestCrash PROVE Spool'
    BY <2>5, SpoolKeptByCrash DEF GuestCrash
  <2>6. ASSUME NEW c \in calls, SealCutShort(c) PROVE Spool'
    <3>1. \A i \in Ids : stateFile[i] = "done" => resultFile'[i] = resultFile[i]
      BY <2>6, SealWrites DEF SealCutShort
    <3> QED BY <2>6, <3>1, SpoolKeptByCrash DEF SealCutShort
  <2> QED BY <2>1, <2>2, <2>3, <2>4, <2>5, <2>6, SpoolKeptByHandle, SpoolKeptBySubmitCutShort
          DEF Next
<1> QED BY <1>1, <1>2, TypeCorrect, PTL DEF Spec

\* A request marked done has the whole answer of one execution: seal checks the
\* digest against the lease that is still its own, and writes the result first.
\* Only a full spool turns a caller away, however crashes and retries fall.
THEOREM SpoolStaysSound == Spec => []SpoolIsSound
BY SpoolInvariant, PTL DEF Spool, SpoolIsSound

-----------------------------------------------------------------------------
(* The promise.                                                            *)

Promise == <<AbstractCaller, AbstractAnswer, received>>

\* What leaves callers, done states and their results alone is not seen.
LEMMA UnseenSteps ==
    ASSUME UNCHANGED <<client, received, stateFile, resultFile>>
    PROVE  UNCHANGED Promise
BY DEF Promise, AbstractCaller, AbstractAnswer

LEMMA CallerKeepsThePromise ==
    ASSUME TypeOK, Spool, NEW i \in Ids, Start(i) \/ Submit(i) \/ Result(i) \/ GiveUp(i)
    PROVE  Broker!Next \/ UNCHANGED Promise
<1>1. ASSUME Start(i) PROVE Broker!Ask(i)
  <2>1. AbstractAnswer' = AbstractAnswer
    BY <1>1 DEF Start, fileVars, AbstractAnswer
  <2>2. AbstractCaller' = [AbstractCaller EXCEPT ![i] = "asking"]
    BY <1>1 DEF Start, TypeOK, AbstractCaller
  <2>3. AbstractCaller[i] = "idle" /\ received' = received
    BY <1>1 DEF Start, AbstractCaller
  <2> QED BY <2>1, <2>2, <2>3 DEF Broker!Ask
<1>2. ASSUME GiveUp(i) PROVE Broker!Leave
  <2>1. AbstractAnswer' = AbstractAnswer /\ received' = received
    BY <1>2 DEF GiveUp, fileVars, AbstractAnswer
  <2>2. {i} \in SUBSET {j \in Ids : AbstractCaller[j] = "asking"}
    BY <1>2 DEF GiveUp, AbstractCaller
  <2>3. AbstractCaller' = [j \in Ids |-> IF j \in {i} THEN "gone" ELSE AbstractCaller[j]]
    BY <1>2 DEF GiveUp, TypeOK, AbstractCaller
  <2> QED BY <2>1, <2>2, <2>3 DEF Broker!Leave
<1>3. ASSUME Submit(i) PROVE Broker!Refuse(i) \/ UNCHANGED Promise
  <2>1. AbstractAnswer' = AbstractAnswer /\ received' = received
    <3>1. i \notin requestFile => stateFile[i] = "missing"
      BY DEF Spool, FilesAgree
    <3> QED BY <1>3, <3>1 DEF Submit, TypeOK, AbstractAnswer
  <2>2. CASE client' = client \/ client' = [client EXCEPT ![i] = "waiting"]
    <3>1. AbstractCaller' = AbstractCaller
      BY <1>3, <2>2 DEF Submit, TypeOK, AbstractCaller
    <3> QED BY <2>1, <3>1 DEF Promise
  <2>3. CASE i \notin requestFile /\ client' = [client EXCEPT ![i] = "refused"]
    <3>1. AbstractCaller' = [AbstractCaller EXCEPT ![i] = "refused"] /\ AbstractCaller[i] = "asking"
      BY <1>3, <2>3 DEF Submit, TypeOK, AbstractCaller
    <3>2. AbstractAnswer[i] = {}
      BY <2>3 DEF Spool, FilesAgree, AbstractAnswer
    <3> QED BY <2>1, <3>1, <3>2 DEF Broker!Refuse
  <2> QED BY <1>3, <2>2, <2>3 DEF Submit, Responds
<1>4. ASSUME Result(i) PROVE Broker!Receive(i)
  <2>1. /\ stateFile[i] = "done" /\ client[i] = "waiting"
        /\ client' = [client EXCEPT ![i] = "answered"]
        /\ received' = [received EXCEPT ![i] = {resultFile[i]}]
        /\ UNCHANGED <<stateFile, resultFile>>
    BY <1>4 DEF Result, Spool, FilesAgree, fileVars
  <2>2. AbstractAnswer' = AbstractAnswer /\ AbstractAnswer[i] = {resultFile[i]}
    BY <2>1 DEF AbstractAnswer
  <2>3. AbstractCaller' = [AbstractCaller EXCEPT ![i] = "answered"] /\ AbstractCaller[i] = "asking"
    BY <2>1 DEF TypeOK, AbstractCaller
  <2> QED BY <2>1, <2>2, <2>3 DEF Broker!Receive
<1> QED BY <1>1, <1>2, <1>3, <1>4 DEF Broker!Next

LEMMA CrashKeepsThePromise ==
    ASSUME TypeOK, Spool, Crash, UNCHANGED stateFile,
           \A i \in Ids : stateFile[i] = "done" => resultFile'[i] = resultFile[i]
    PROVE  Broker!Leave
<1>1. AbstractAnswer' = AbstractAnswer /\ received' = received
  BY DEF Crash, AbstractAnswer
<1>2. AbstractCaller' = [j \in Ids |-> IF j \in {i \in Ids : AbstractCaller[i] = "asking"}
                                      THEN "gone" ELSE AbstractCaller[j]]
  BY DEF Crash, TypeOK, AbstractCaller
<1> QED BY <1>1, <1>2 DEF Broker!Leave

\* The one step that answers.
LEMMA SealKeepsThePromise ==
    ASSUME TypeOK, Spool, NEW c \in calls, SealResult(c), UNCHANGED clientVars
    PROVE  Broker!Next \/ UNCHANGED Promise
<1>1. CASE ~Sealable(c)
  BY <1>1, UnseenSteps DEF SealResult, clientVars
<1>2. CASE Sealable(c)
  <2> DEFINE r == c.request
  <2>1. /\ resultFile' = [resultFile EXCEPT ![r] = partFile[r]]
        /\ stateFile' = [stateFile EXCEPT ![r] = "done"]
        /\ UNCHANGED <<requestFile, client, received>>
    BY <1>2 DEF SealResult, clientVars
  <2>2. partFile[r] = Whole(c.lease) /\ stateFile[r] = "pending" /\ c.lease \in Nat
    BY <1>2 DEF Sealable, RequireLease, TypeOK
  <2> HIDE DEF r
  <2>3. CASE r \notin Ids
    BY <2>1, <2>3, UnseenSteps DEF TypeOK
  <2>4. CASE r \in Ids
    <3>1. Whole(c.lease) \in [1 .. Chunks -> Nat]
      BY <2>2 DEF Whole
    <3>2. AbstractAnswer' = [AbstractAnswer EXCEPT ![r] = {Whole(c.lease)}]
      BY <2>1, <2>2, <2>4 DEF TypeOK, AbstractAnswer
    <3>3. AbstractAnswer[r] = {} /\ AbstractAnswer'[r] = {Whole(c.lease)}
      BY <2>2, <2>4, <3>2 DEF AbstractAnswer
    <3>4. AbstractCaller[r] # "idle" /\ AbstractCaller' = AbstractCaller
      BY <2>1, <2>2, <2>4 DEF Spool, FilesAgree, AbstractCaller
    <3>5. Broker!Answer(r)
      BY <2>1, <3>1, <3>2, <3>3, <3>4 DEF Broker!Answer
    <3> QED BY <2>4, <3>5 DEF Broker!Next
  <2> QED BY <2>3, <2>4
<1> QED BY <1>1, <1>2

\* The spool implements the promise: a completion has at most one answer, whole
\* and never replaced, and its caller is handed that one, through crashes of the
\* guest, lost calls and executions that outlive their lease.
THEOREM QueueKeepsThePromise == Spec => KeepsThePromise
<1>1. Init => Broker!Init
  BY DEF Init, Broker!Init, AbstractCaller, AbstractAnswer
<1>2. TypeOK /\ Spool /\ [Next]_vars => [Broker!Next]_Promise
  <2> SUFFICES ASSUME TypeOK, Spool, [Next]_vars PROVE Broker!Next \/ UNCHANGED Promise
    OBVIOUS
  <2>1. CASE UNCHANGED vars
    BY <2>1, UnseenSteps DEF vars, clientVars, fileVars
  <2>2. ASSUME NEW i \in Ids, TimePasses(i) \/ Renew(i) PROVE UNCHANGED Promise
    BY <2>2, UnseenSteps DEF TimePasses, Renew, clientVars
  <2>3. ASSUME SendPoll \/ ModelReturns \/ Abandon PROVE UNCHANGED Promise
    BY <2>3, UnseenSteps DEF SendPoll, ModelReturns, Abandon, clientVars, fileVars
  <2>4. ASSUME NEW c \in calls, Handle(c) PROVE Broker!Next \/ UNCHANGED Promise
    <3>1. ASSUME HandlePoll(c) \/ BeginResult(c) \/ AppendResult(c) PROVE UNCHANGED Promise
      BY <2>4, <3>1, UnseenSteps DEF HandlePoll, BeginResult, AppendResult, Handle, clientVars
    <3> QED BY <2>4, <3>1, SealKeepsThePromise DEF Handle
  <2>5. ASSUME GuestCrash \/ \E i \in Ids : SubmitCutShort(i) PROVE Broker!Next
    <3>1. Crash /\ UNCHANGED <<stateFile, resultFile>>
      BY <2>5 DEF GuestCrash, SubmitCutShort
    <3> QED BY <3>1, CrashKeepsThePromise DEF Broker!Next
  <2>6. ASSUME NEW c \in calls, SealCutShort(c) PROVE Broker!Next
    <3>1. \A i \in Ids : stateFile[i] = "done" => resultFile'[i] = resultFile[i]
      BY <2>6, SealWrites DEF SealCutShort
    <3> QED BY <2>6, <3>1, CrashKeepsThePromise DEF SealCutShort, Broker!Next
  <2> QED BY <2>1, <2>2, <2>3, <2>4, <2>5, <2>6, CallerKeepsThePromise DEF Next
<1>3. [Broker!Next]_Promise <=> [Broker!Next]_Broker!vars
  BY DEF Promise, Broker!vars
<1> QED BY <1>1, <1>2, <1>3, TypeCorrect, SpoolInvariant, PTL
        DEF Spec, KeepsThePromise, Broker!Spec
=============================================================================
