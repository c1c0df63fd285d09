---------------------------- MODULE SessionsProofs ----------------------------
(***************************************************************************)
(* Proofs about Sessions, for every number of attempts, recoveries and     *)
(* faults: its types, and who owns the workers of the session.             *)
(***************************************************************************)
EXTENDS Sessions, SequenceTheorems, TLAPS

(***************************************************************************)
(* The inductive invariant.  A launch under way has its runtime to itself: *)
(* it found the runtime without a worker, an exit to inspect or a timer of *)
(* a recovery, and none of these comes back before the launch is over.     *)
(***************************************************************************)
Going(a) == task[a] \in {"preparing", "storing", "stored", "launching", "spawning"}
Idle(r) == run[r].worker = Nobody /\ ~run[r].inspecting /\ ~run[r].timer
Quiet(r) == task[r] # "none" /\ Idle(r) /\ \A b \in Attempts : Going(b) => owner[b] # r

\* What is not begun has left no trace.
Begun ==
    /\ \A a \in Attempts : task[a] = "none" =>
           worker[a] = "none" /\ owner[a] = Nobody /\ Idle(a) /\ \A b \in Attempts : owner[b] # a
    /\ \A a \in Attempts : task[a] # "none" => owner[a] \in Attempts
    /\ \A r \in Attempts : run[r].worker # Nobody => task[run[r].worker] # "none"

OneAtATime ==
    \A r \in Attempts : /\ run[r].worker # Nobody => ~run[r].inspecting /\ ~run[r].timer
                        /\ ~(run[r].inspecting /\ run[r].timer)

LaunchesAlone ==
    \A a \in Attempts : Going(a) =>
        /\ Idle(owner[a])
        /\ \A b \in Attempts : Going(b) /\ owner[b] = owner[a] => b = a

\* An operation of a launch is the only one of its launch, and a failed launch
\* is recorded before its runtime does anything else.
LaunchKinds == {"get", "pause", "look", "create", "begin", "activate"}
QueueOrder ==
    \A k \in DOMAIN queue :
        /\ queue[k].kind \in LaunchKinds =>
               /\ queue[k].for \in Attempts /\ task[queue[k].for] = "storing"
               /\ \A j \in DOMAIN queue :
                      queue[j].kind \in LaunchKinds /\ queue[j].for = queue[k].for => j = k
        /\ queue[k].kind = "failure" =>
               queue[k].for \in Attempts /\ owner[queue[k].for] \in Attempts /\ Quiet(owner[queue[k].for])

Owned ==
    \A a \in Attempts : worker[a] = "live" =>
        current = owner[a] /\ current \in Attempts /\ run[current].worker = a /\ Alive(current)

Host == Begun /\ OneAtATime /\ LaunchesAlone /\ Owned
IInv == TypeOK /\ Host /\ QueueOrder

-----------------------------------------------------------------------------
(* Types.                                                                  *)

Phases == {"none", "preparing", "storing", "stored", "launching", "spawning", "over"}
RunType == run \in [Attempts -> Records]

\* Operations go to the end of the queue and leave it at the front.
LEMMA AppendType ==
    ASSUME NEW q \in Seq(Ops), NEW op \in Ops
    PROVE  Append(q, op) \in Seq(Ops)
OBVIOUS

LEMMA TakeType ==
    ASSUME TypeOK, queue # << >>
    PROVE  Head(queue) \in Ops /\ Tail(queue) \in Seq(Ops)
BY HeadTailProperties DEF TypeOK

LEMMA OpType ==
    ASSUME NEW kind \in Kinds, NEW for \in Callers, NEW of \in Callers, NEW state \in Statuses
    PROVE  Op(kind, for, of, state) \in Ops
BY DEF Op, Ops

\* A runtime that takes another record keeps the type of them all.
LEMMA RecordType ==
    ASSUME TypeOK, NEW r, NEW new, r \in Attempts => new \in Records, run' = [run EXCEPT ![r] = new]
    PROVE  RunType'
BY DEF TypeOK, RunType

LEMMA FinishedType ==
    ASSUME NEW ro \in Records, NEW s \in Ended, NEW r \in Attempts
    PROVE  /\ Finished(ro, s) \in Records
           /\ FinalRecord(r, ro, s) \in [for : Callers, attempt : Callers, state : Ended]
BY DEF Finished, FinalRecord, Records, Callers

LEMMA NoRunType == NoRun \in Records
<1>1. 0 \in 0..MaxRecoveries
  BY SessionsAssumption
<1> QED BY <1>1 DEF NoRun, Records, Callers, Nobody

LEMMA BeginsType ==
    ASSUME TypeOK, NEW a \in Attempts, NEW r \in Attempts, NEW why \in {"start", "recover", "resume"},
           NEW phase \in Phases, Begins(a, r, why, phase)
    PROVE  /\ task' \in [Attempts -> Phases]
           /\ owner' \in [Attempts -> Callers]
           /\ origin' \in [Attempts -> {"none", "start", "recover", "resume"}]
BY DEF TypeOK, Begins, Phases, Callers

LEMMA FaultType ==
    ASSUME TypeOK, Fault
    PROVE  faults' \in 0..MaxFaults
BY SessionsAssumption DEF TypeOK, Fault

LEMMA TransitionType ==
    ASSUME TypeOK, NEW s \in Statuses, NEW a, Transition(s, a)
    PROVE  status' \in Statuses /\ attempt' \in [Attempts -> Statuses]
BY DEF TypeOK, Transition

LEMMA LaunchFailedType ==
    ASSUME TypeOK, NEW a \in Attempts, owner[a] \in Attempts, LaunchFailed(a)
    PROVE  task' \in [Attempts -> Phases] /\ queue' \in Seq(Ops) /\ RunType'
<1>1. task' \in [Attempts -> Phases]
  BY DEF LaunchFailed, TypeOK, Phases
<1>2. run[owner[a]] \in Records
  BY DEF TypeOK
<1>3. CASE run[owner[a]].state = "none"
  BY <1>1, <1>3 DEF LaunchFailed, TypeOK, RunType
<1>4. CASE run[owner[a]].state # "none"
  <2>1. RunType'
    <3>1. [run[owner[a]] EXCEPT !.state = IF origin[a] = "start" THEN "failed" ELSE @] \in Records
      BY <1>2 DEF Records, Ended
    <3> QED BY <1>4, <3>1 DEF LaunchFailed, TypeOK, RunType
  <2>2. Op("failure", a, run[owner[a]].attempt, "failed") \in Ops
    BY <1>2, OpType DEF Records, Callers, Kinds, Statuses, Ended
  <2>3. queue' \in Seq(Ops)
    <3> DEFINE op == Op("failure", a, run[owner[a]].attempt, "failed")
    <3>1. queue' = Append(queue, op)
      BY <1>4 DEF LaunchFailed
    <3>2. queue \in Seq(Ops)
      BY DEF TypeOK
    <3> HIDE DEF op
    <3> QED BY <2>2, <3>1, <3>2, AppendType DEF op
  <2> QED BY <1>1, <2>1, <2>3
<1> QED BY <1>3, <1>4

\* The steps of a launch.
LEMMA LaunchType ==
    ASSUME TypeOK, Begun, NEW a \in Attempts,
           \/ Start(a) \/ Prepared(a) \/ PrepareFails(a) \/ Stored(a)
           \/ Launch(a) \/ LaunchRefused(a) \/ SpawnFails(a) \/ Online(a)
    PROVE  TypeOK'
<1>1. task[a] # "none" => owner[a] \in Attempts
  BY DEF Begun
<1>2. CASE Start(a)
  <2>1. /\ task' \in [Attempts -> Phases]
        /\ owner' \in [Attempts -> Callers]
        /\ origin' \in [Attempts -> {"none", "start", "recover", "resume"}]
    BY <1>2, BeginsType DEF Start, Phases
  <2> QED BY <1>2, <2>1 DEF Start, TypeOK, row, host, Phases
<1>3. CASE Prepared(a)
  <2>1. Op("look", a, a, "active") \in Ops
    BY OpType DEF Callers, Kinds, Statuses
  <2>2. queue' \in Seq(Ops)
    BY <1>3, <2>1, AppendType DEF Prepared, TypeOK
  <2> QED BY <1>3, <2>2 DEF Prepared, TypeOK, row, host
<1>4. CASE PrepareFails(a)
  <2>1. task' \in [Attempts -> Phases] /\ queue' \in Seq(Ops) /\ RunType'
    BY <1>1, <1>4, LaunchFailedType DEF PrepareFails
  <2> QED BY <1>4, <2>1, FaultType DEF PrepareFails, TypeOK, row, RunType, Phases
<1>5. CASE Stored(a)
  <2>1. NewRun(a) \in Records
    BY NoRunType DEF NewRun, Records, Callers
  <2>2. RunType'
    BY <1>5, <2>1, RecordType DEF Stored, TypeOK, RunType
  <2>3. current' \in Callers
    BY <1>5 DEF Stored, TypeOK, Callers
  <2>4. task' \in [Attempts -> Phases]
    BY <1>5 DEF Stored, TypeOK, Phases
  <2> QED BY <1>5, <2>2, <2>3, <2>4 DEF Stored, TypeOK, row, RunType, Phases
<1>6. CASE Launch(a)
  BY <1>6 DEF Launch, TypeOK, row, Unwanted
<1>7. CASE LaunchRefused(a)
  <2>1. task' \in [Attempts -> Phases] /\ queue' \in Seq(Ops) /\ RunType'
    BY <1>1, <1>7, LaunchFailedType DEF LaunchRefused
  <2> QED BY <1>7, <2>1, FaultType DEF LaunchRefused, TypeOK, row, RunType, Phases
<1>8. CASE SpawnFails(a)
  <2>1. task' \in [Attempts -> Phases] /\ queue' \in Seq(Ops) /\ RunType'
    BY <1>1, <1>8, LaunchFailedType DEF SpawnFails
  <2>2. worker' \in [Attempts -> {"none", "spawning", "live", "stopping", "exited"}]
    BY <1>8 DEF SpawnFails, TypeOK
  <2> QED BY <1>8, <2>1, <2>2, FaultType DEF SpawnFails, TypeOK, row, RunType, Phases
<1>9. CASE Online(a)
  <2>1. run[owner[a]] \in Records
    BY <1>1, <1>9 DEF Online, TypeOK
  <2>2. [run[owner[a]] EXCEPT !.worker = a, !.attempt = a, !.state = "starting", !.startup = FALSE]
            \in Records
    BY <2>1 DEF Records, Callers
  <2>3. RunType'
    BY <1>9, <2>2 DEF Online, TypeOK, RunType
  <2>4. worker' \in [Attempts -> {"none", "spawning", "live", "stopping", "exited"}]
    BY <1>9 DEF Online, TypeOK
  <2>5. task' \in [Attempts -> Phases]
    BY <1>9 DEF Online, TypeOK, Phases
  <2> QED BY <1>9, <2>3, <2>4, <2>5 DEF Online, TypeOK, row, RunType, Phases
<1> QED BY <1>2, <1>3, <1>4, <1>5, <1>6, <1>7, <1>8, <1>9

\* The steps of a worker and of its runtime.
LEMMA WorkerType ==
    ASSUME TypeOK, Begun, NEW a \in Attempts,
           \/ Ready(a) \/ StartupFails(a) \/ Exit(a)
           \/ \E s \in Controls : Control(a, s)
    PROVE  TypeOK'
<1>1. task[a] # "none" => owner[a] \in Attempts /\ run[owner[a]] \in Records
  BY DEF Begun, TypeOK
<1>2. worker[a] # "none" => owner[a] \in Attempts /\ run[owner[a]] \in Records
  BY <1>1 DEF Begun
<1>3. CASE Ready(a)
  <2>1. [run[owner[a]] EXCEPT !.state = "running"] \in Records
    BY <1>2, <1>3 DEF Ready, Records
  <2>2. RunType'
    BY <1>3, <2>1 DEF Ready, TypeOK, RunType
  <2> QED BY <1>3, <2>2 DEF Ready, TypeOK, RunType, row, launches
<1>4. CASE StartupFails(a)
  <2>1. [run[owner[a]] EXCEPT !.startup = TRUE] \in Records
    BY <1>2, <1>4 DEF StartupFails, Records
  <2>2. RunType'
    BY <1>4, <2>1 DEF StartupFails, TypeOK, RunType
  <2>3. Op("startup", a, a, "failed") \in Ops
    BY OpType DEF Callers, Kinds, Statuses, Ended
  <2>4. queue' \in Seq(Ops)
    BY <1>4, <2>3, AppendType DEF StartupFails, TypeOK
  <2> QED BY <1>4, <2>2, <2>4, FaultType DEF StartupFails, TypeOK, RunType, row, launches
<1>5. CASE Exit(a)
  <2>1. [run[owner[a]] EXCEPT !.worker = Nobody, !.inspecting = TRUE] \in Records
    BY <1>2, <1>5 DEF Exit, Records, Callers
  <2>2. RunType'
    BY <1>5, <2>1 DEF Exit, TypeOK, RunType
  <2>3. registered' \in BOOLEAN
    BY <1>5 DEF Exit, TypeOK
  <2>4. worker' \in [Attempts -> {"none", "spawning", "live", "stopping", "exited"}]
    BY <1>5 DEF Exit, TypeOK
  <2> QED BY <1>5, <2>2, <2>3, <2>4 DEF Exit, TypeOK, RunType, row, launches
<1>6. ASSUME NEW s \in Controls, Control(a, s) PROVE TypeOK'
  <2>1. owner[a] \in Attempts
    BY <1>2, <1>6 DEF Control
  <2>2. Op("control", owner[a], a, s) \in Ops
    BY <1>6, <2>1, OpType, SessionsAssumption DEF Callers, Kinds, Statuses
  <2>3. queue' \in Seq(Ops)
    BY <1>6, <2>2, AppendType DEF Control, TypeOK
  <2> QED BY <1>6, <2>3 DEF Control, TypeOK, row, host, launches
<1> QED BY <1>3, <1>4, <1>5, <1>6

LEMMA RuntimeType ==
    ASSUME TypeOK, NEW r \in Attempts,
           \/ RecoverSession(r) \/ Stop(r) \/ PersistenceTimesOut(r)
           \/ \E result \in Results : Inspected(r, result)
    PROVE  TypeOK'
<1>1. run[r] \in Records
  BY DEF TypeOK
<1>2. CASE RecoverSession(r)
  <2>1. CASE run[r].stop \/ current # r
    <3>1. Finished(run[r], "stopped") \in Records
          /\ FinalRecord(r, run[r], "stopped") \in [for : Callers, attempt : Callers, state : Ended]
      BY <1>1, FinishedType DEF Ended
    <3>2. [run[r] EXCEPT !.timer = FALSE] \in Records
      BY <1>1 DEF Records
    <3>3. RunType'
      BY <1>2, <2>1, <3>1, <3>2 DEF RecoverSession, TypeOK, RunType
    <3>4. closing' \subseteq [for : Callers, attempt : Callers, state : Ended]
      BY <1>2, <2>1, <3>1 DEF RecoverSession, TypeOK
    <3> QED BY <1>2, <2>1, <3>3, <3>4 DEF RecoverSession, TypeOK, RunType, row, launches
  <2>2. CASE ~(run[r].stop \/ current # r)
    <3>1. PICK a \in Attempts :
              /\ Begins(a, r, "recover", "storing")
              /\ queue' = Append(queue, Op("get", a, run[r].attempt, "paused"))
              /\ run' = [run EXCEPT ![r].timer = FALSE]
              /\ UNCHANGED closing
      BY <1>2, <2>2 DEF RecoverSession
    <3>2. /\ task' \in [Attempts -> Phases]
          /\ owner' \in [Attempts -> Callers]
          /\ origin' \in [Attempts -> {"none", "start", "recover", "resume"}]
      BY <3>1, BeginsType DEF Phases
    <3>3. Op("get", a, run[r].attempt, "paused") \in Ops
      BY <1>1, OpType DEF Records, Callers, Kinds, Statuses
    <3>4. queue' \in Seq(Ops)
      BY <3>1, <3>3, AppendType DEF TypeOK
    <3>5. [run[r] EXCEPT !.timer = FALSE] \in Records
      BY <1>1 DEF Records
    <3>6. RunType'
      BY <3>1, <3>5 DEF TypeOK, RunType
    <3> QED BY <1>2, <3>1, <3>2, <3>4, <3>6 DEF RecoverSession, TypeOK, RunType, row, Phases
  <2> QED BY <2>1, <2>2
<1>3. CASE Stop(r)
  <2>1. [run[r] EXCEPT !.stop = TRUE] \in Records
    BY <1>1 DEF Records
  <2>2. Finished([run[r] EXCEPT !.stop = TRUE], "stopped") \in Records
        /\ FinalRecord(r, run[r], "stopped") \in [for : Callers, attempt : Callers, state : Ended]
    BY <1>1, <2>1, FinishedType DEF Ended
  <2>3. RunType'
    BY <1>3, <2>1, <2>2 DEF Stop, TypeOK, RunType
  <2>4. closing' \subseteq [for : Callers, attempt : Callers, state : Ended]
    BY <1>3, <2>2 DEF Stop, TypeOK
  <2>5. Op("control", r, run[r].attempt, "stopped") \in Ops
    BY <1>1, OpType DEF Records, Callers, Kinds, Statuses, Ended
  <2>6. queue' \in Seq(Ops)
    BY <1>3, <2>5, AppendType DEF Stop, TypeOK
  <2>7. worker' \in [Attempts -> {"none", "spawning", "live", "stopping", "exited"}]
    BY <1>3 DEF Stop, TypeOK
  <2> QED BY <1>3, <2>3, <2>4, <2>6, <2>7 DEF Stop, TypeOK, RunType, row, launches
<1>4. CASE PersistenceTimesOut(r)
  <2>1. [run[r] EXCEPT !.persisting = FALSE] \in Records
    BY <1>1 DEF Records
  <2>2. RunType'
    BY <1>4, <2>1 DEF PersistenceTimesOut, TypeOK, RunType
  <2> QED BY <1>4, <2>2, FaultType DEF PersistenceTimesOut, TypeOK, RunType, row, launches
<1>5. ASSUME NEW result \in Results, Inspected(r, result) PROVE TypeOK'
  <2> DEFINE over == [run[r] EXCEPT !.inspecting = FALSE]
             outcome == Outcome(run[r], result)
  <2>1. over \in Records
    BY <1>1 DEF Records
  <2>2. CASE current # r
    <3>1. RunType'
      BY <1>5, <2>1, <2>2 DEF Inspected, TypeOK, RunType
    <3> QED BY <1>5, <2>2, <3>1 DEF Inspected, TypeOK, RunType, row, launches
  <2>3. CASE current = r /\ outcome = "recover"
    <3>1. run[r].recoveries < MaxRecoveries
      BY <2>3 DEF Outcome
    <3>2. run[r].recoveries + 1 \in 0..MaxRecoveries
      BY <1>1, <3>1, SessionsAssumption DEF Records
    <3>3. [over EXCEPT !.timer = TRUE, !.recoveries = @ + 1] \in Records
      BY <1>1, <3>2 DEF Records
    <3>4. RunType'
      BY <1>5, <2>3, <3>3 DEF Inspected, TypeOK, RunType
    <3> QED BY <1>5, <2>3, <3>4 DEF Inspected, TypeOK, RunType, row, launches
  <2>4. CASE current = r /\ outcome # "recover"
    <3>1. outcome \in Ended
      BY <2>4 DEF Outcome, Ended
    <3>2. Finished(over, outcome) \in Records
          /\ FinalRecord(r, run[r], outcome) \in [for : Callers, attempt : Callers, state : Ended]
      BY <1>1, <2>1, <3>1, FinishedType
    <3>3. RunType'
      BY <1>5, <2>4, <3>2 DEF Inspected, TypeOK, RunType
    <3>4. closing' \subseteq [for : Callers, attempt : Callers, state : Ended]
      BY <1>5, <2>4, <3>2 DEF Inspected, TypeOK
    <3> QED BY <1>5, <3>3, <3>4 DEF Inspected, TypeOK, RunType, row, launches
  <2> QED BY <2>2, <2>3, <2>4
<1> QED BY <1>2, <1>3, <1>4, <1>5

\* The map, the final records and the process.
LEMMA HostType ==
    ASSUME TypeOK, Forget \/ Crash \/ Restart \/ \E f \in closing : Released(f)
    PROVE  TypeOK'
<1>1. CASE Forget
  BY <1>1 DEF Forget, TypeOK, row, launches, Callers
<1>2. CASE Crash
  <2>1. RunType'
    BY <1>2, NoRunType DEF Crash, RunType
  <2>2. queue' \in Seq(Ops)
    BY <1>2 DEF Crash
  <2>3. task' \in [Attempts -> Phases] /\ current' \in Callers
    BY <1>2 DEF Crash, Phases, Callers
  <2>4. worker' \in [Attempts -> {"none", "spawning", "live", "stopping", "exited"}]
    BY <1>2 DEF Crash
  <2> QED BY <1>2, <2>1, <2>2, <2>3, <2>4, FaultType DEF Crash, TypeOK, RunType, row, Phases
<1>3. CASE Restart
  <2>1. CASE status = "active"
    <3>1. PICK a, last \in Attempts :
              /\ status' = "paused"
              /\ attempt' = [b \in Attempts |-> IF attempt[b] = "active" THEN "paused" ELSE attempt[b]]
              /\ Begins(a, a, "resume", "storing")
              /\ queue' = Append(queue, Op("get", a, last, "paused"))
      BY <1>3, <2>1 DEF Restart
    <3>2. status' \in Statuses /\ attempt' \in [Attempts -> Statuses]
      BY <3>1 DEF TypeOK, Statuses
    <3>3. /\ task' \in [Attempts -> Phases]
          /\ owner' \in [Attempts -> Callers]
          /\ origin' \in [Attempts -> {"none", "start", "recover", "resume"}]
      BY <3>1, BeginsType DEF Phases
    <3>4. Op("get", a, last, "paused") \in Ops
      BY OpType DEF Callers, Kinds, Statuses
    <3>5. queue' \in Seq(Ops)
      BY <3>1, <3>4, AppendType DEF TypeOK
    <3> QED BY <1>3, <3>2, <3>3, <3>5 DEF Restart, TypeOK, host, Phases
  <2>2. CASE status # "active"
    BY <1>3, <2>2 DEF Restart, TypeOK, row, host, launches
  <2> QED BY <2>1, <2>2
<1>4. ASSUME NEW f \in closing, Released(f) PROVE TypeOK'
  <2>1. f.for \in Callers /\ f.attempt \in Callers /\ f.state \in Statuses
    BY DEF TypeOK, Statuses
  <2>2. Op("last", f.for, f.attempt, f.state) \in Ops
    BY <2>1, OpType DEF Kinds
  <2>3. queue' \in Seq(Ops)
    BY <1>4, <2>2, AppendType DEF Released, TypeOK
  <2> QED BY <1>4, <2>3 DEF Released, TypeOK, row, launches
<1> QED BY <1>1, <1>2, <1>3, <1>4

\* An operation that turns into another one keeps its caller, attempt and state.
LEMMA TurnedType ==
    ASSUME NEW op \in Ops, NEW kind \in Kinds
    PROVE  [op EXCEPT !.kind = kind] \in Ops
BY DEF Ops

LEMMA SetTaskType ==
    ASSUME TypeOK, NEW a, NEW phase \in Phases, task' = [task EXCEPT ![a] = phase]
    PROVE  task' \in [Attempts -> Phases]
BY DEF TypeOK, Phases

LEMMA PersistedType ==
    ASSUME TypeOK, NEW r, run' = [run EXCEPT ![r].persisting = FALSE]
    PROVE  RunType'
<1>1. r \in Attempts => [run[r] EXCEPT !.persisting = FALSE] \in Records
  BY DEF TypeOK, Records
<1> QED BY <1>1 DEF TypeOK, RunType

\* The operation at the front belongs to a launch that waits for it, or to a runtime
\* that has nothing under way.
LEMMA HeadOrder ==
    ASSUME TypeOK, Begun, QueueOrder, queue # << >>
    PROVE  /\ Head(queue).kind \in LaunchKinds =>
                  /\ Head(queue).for \in Attempts /\ task[Head(queue).for] = "storing"
                  /\ owner[Head(queue).for] \in Attempts
           /\ Head(queue).kind = "failure" =>
                  /\ Head(queue).for \in Attempts /\ owner[Head(queue).for] \in Attempts
                  /\ Quiet(owner[Head(queue).for])
<1>1. 1 \in DOMAIN queue /\ Head(queue) = queue[1]
  BY EmptySeq DEF TypeOK
<1> QED BY <1>1 DEF QueueOrder, Begun

\* Operations of the launches.
LEMMA LaunchOperationType ==
    ASSUME TypeOK, Begun, QueueOrder, NEW op \in Ops, queue # << >>, op = Head(queue),
           Get(op) \/ Pause(op) \/ Look(op) \/ Create(op) \/ Begin(op) \/ Activate(op),
           UNCHANGED <<current, registered, owner, origin, faults, recovering>>
    PROVE  TypeOK'
<1>1. op.for \in Callers /\ op.attempt \in Callers /\ op.state \in Statuses /\ Tail(queue) \in Seq(Ops)
  BY TakeType DEF Ops
<1>2. CASE Get(op)
  <2>1. [op EXCEPT !.kind = "pause"] \in Ops
    BY TurnedType DEF Kinds
  <2>2. queue' \in Seq(Ops)
    BY <1>1, <1>2, <2>1, AppendType DEF Get
  <2>3. task' \in [Attempts -> Phases]
    BY <1>2, SetTaskType DEF Get, TypeOK, Phases
  <2> QED BY <1>2, <2>2, <2>3 DEF Get, TypeOK, row, Phases
<1>3. CASE Pause(op)
  <2>1. status' \in Statuses /\ attempt' \in [Attempts -> Statuses]
    BY <1>3, TransitionType DEF Pause, Statuses
  <2>2. task' \in [Attempts -> Phases]
    BY <1>3, SetTaskType DEF Pause, Phases
  <2> QED BY <1>1, <1>3, <2>1, <2>2 DEF Pause, TypeOK, Phases
<1>4. CASE Look(op)
  <2>1. [op EXCEPT !.kind = "create"] \in Ops /\ [op EXCEPT !.kind = "begin"] \in Ops
    BY TurnedType DEF Kinds
  <2>2. queue' \in Seq(Ops)
    BY <1>1, <1>4, <2>1, AppendType DEF Look
  <2> QED BY <1>4, <2>2 DEF Look, TypeOK, row
<1>5. CASE Create(op)
  <2>1. status' \in Statuses /\ attempt' \in [Attempts -> Statuses]
    BY <1>5 DEF Create, TypeOK, row, Statuses
  <2>2. task' \in [Attempts -> Phases]
    BY <1>5, SetTaskType DEF Create, Phases
  <2>3. queue' \in Seq(Ops)
    BY <1>1, <1>5 DEF Create
  <2> QED BY <1>5, <2>1, <2>2, <2>3 DEF Create, TypeOK, Phases
<1>6. CASE Begin(op)
  <2>1. status' \in Statuses /\ attempt' \in [Attempts -> Statuses]
    BY <1>6 DEF Begin, TypeOK, row, Statuses
  <2>2. task' \in [Attempts -> Phases]
    BY <1>6, SetTaskType DEF Begin, TypeOK, Phases
  <2>3. [op EXCEPT !.kind = "activate"] \in Ops
    BY TurnedType DEF Kinds
  <2>4. run[owner[op.for]] \in Records
    BY <1>6, HeadOrder DEF Begin, LaunchKinds, TypeOK
  <2>5. queue' \in Seq(Ops)
    <3>1. CASE status = "active" /\ run[owner[op.for]].state # "none"
      <4>1. run[owner[op.for]].attempt \in Callers
        BY <2>4 DEF Records, Callers
      <4>2. Op("failure", op.for, run[owner[op.for]].attempt, "failed") \in Ops
        BY <1>1, <4>1, OpType DEF Kinds, Statuses, Ended
      <4> QED BY <1>1, <1>6, <3>1, <4>2, AppendType DEF Begin
    <3>2. CASE ~(status = "active" /\ run[owner[op.for]].state # "none")
      BY <1>1, <1>6, <2>3, <3>2, AppendType DEF Begin
    <3> QED BY <3>1, <3>2
  <2> QED BY <1>6, <2>1, <2>2, <2>5 DEF Begin, TypeOK, Phases
<1>7. CASE Activate(op)
  <2>1. status' \in Statuses /\ attempt' \in [Attempts -> Statuses]
    BY <1>7, TransitionType DEF Activate, Statuses
  <2>2. task' \in [Attempts -> Phases]
    BY <1>7, SetTaskType DEF Activate, Phases
  <2> QED BY <1>1, <1>7, <2>1, <2>2 DEF Activate, TypeOK, Phases
<1> QED BY <1>2, <1>3, <1>4, <1>5, <1>6, <1>7

\* Records of controls, failures and ends.
LEMMA RecordOperationType ==
    ASSUME TypeOK, Begun, QueueOrder, NEW op \in Ops, queue # << >>, op = Head(queue),
           \/ RecordControl(op) \/ RecordStartupFailure(op) \/ RecordLaunchFailure(op)
           \/ Last(op) \/ Settle(op),
           UNCHANGED <<current, registered, owner, origin, faults, recovering>>
    PROVE  TypeOK'
<1>1. op.state \in Statuses /\ Tail(queue) \in Seq(Ops)
  BY TakeType DEF Ops
<1>2. CASE RecordControl(op)
  <2>1. status' \in Statuses /\ attempt' \in [Attempts -> Statuses]
    BY <1>1, <1>2, TransitionType DEF RecordControl
  <2> QED BY <1>1, <1>2, <2>1 DEF RecordControl, TypeOK
<1>3. CASE RecordStartupFailure(op)
  <2>1. status' \in Statuses /\ attempt' \in [Attempts -> Statuses]
    BY <1>3, TransitionType DEF RecordStartupFailure, Statuses, Ended
  <2>2. worker' \in [Attempts -> {"none", "spawning", "live", "stopping", "exited"}]
    BY <1>3 DEF RecordStartupFailure, TypeOK
  <2> QED BY <1>1, <1>3, <2>1, <2>2 DEF RecordStartupFailure, TypeOK
<1>4. CASE RecordLaunchFailure(op)
  <2> DEFINE r == owner[op.for]
             end == IF origin[op.for] = "recover" /\ run[r].stop THEN "stopped" ELSE "failed"
  <2>1. status' \in Statuses /\ attempt' \in [Attempts -> Statuses]
    BY <1>4, TransitionType DEF RecordLaunchFailure, Statuses, Ended
  <2>2. r \in Attempts /\ run[r] \in Records /\ end \in Ended
    BY <1>4, HeadOrder DEF RecordLaunchFailure, TypeOK, Ended
  <2>3. Finished(run[r], end) \in Records
        /\ FinalRecord(r, run[r], end) \in [for : Callers, attempt : Callers, state : Ended]
    BY <2>2, FinishedType
  <2>4. RunType'
    BY <1>4, <2>3 DEF RecordLaunchFailure, TypeOK, RunType
  <2>5. closing' \subseteq [for : Callers, attempt : Callers, state : Ended]
    BY <1>4, <2>3 DEF RecordLaunchFailure, TypeOK
  <2> QED BY <1>1, <1>4, <2>1, <2>4, <2>5 DEF RecordLaunchFailure, TypeOK, RunType
<1>5. CASE Last(op)
  <2>1. RunType'
    BY <1>5, PersistedType DEF Last, TypeOK, RunType
  <2>2. [op EXCEPT !.kind = "settle"] \in Ops
    BY TurnedType DEF Kinds
  <2>3. queue' \in Seq(Ops)
    BY <1>1, <1>5, <2>2, AppendType DEF Last
  <2> QED BY <1>5, <2>1, <2>3 DEF Last, TypeOK, RunType, row
<1>6. CASE Settle(op)
  <2>1. status' \in Statuses /\ attempt' \in [Attempts -> Statuses]
    BY <1>1, <1>6, TransitionType DEF Settle
  <2>2. RunType'
    BY <1>6, PersistedType DEF Settle
  <2> QED BY <1>1, <1>6, <2>1, <2>2 DEF Settle, TypeOK, RunType
<1> QED BY <1>2, <1>3, <1>4, <1>5, <1>6

LEMMA TypeStep ==
    ASSUME TypeOK, Begun, QueueOrder, [Next]_vars
    PROVE  TypeOK'
<1>1. ASSUME NEW a \in Attempts,
             \/ Start(a) \/ Prepared(a) \/ PrepareFails(a) \/ Stored(a)
             \/ Launch(a) \/ LaunchRefused(a) \/ SpawnFails(a) \/ Online(a)
      PROVE  TypeOK'
  BY <1>1, LaunchType
<1>2. ASSUME NEW a \in Attempts,
             Ready(a) \/ StartupFails(a) \/ Exit(a) \/ \E s \in Controls : Control(a, s)
      PROVE  TypeOK'
  BY <1>2, WorkerType
<1>3. ASSUME NEW r \in Attempts,
             \/ RecoverSession(r) \/ Stop(r) \/ PersistenceTimesOut(r)
             \/ \E result \in Results : Inspected(r, result)
      PROVE  TypeOK'
  BY <1>3, RuntimeType
<1>4. CASE Forget \/ Crash \/ Restart \/ \E f \in closing : Released(f)
  BY <1>4, HostType
<1>5. CASE Execute
  <2>1. Head(queue) \in Ops
    BY <1>5, TakeType DEF Execute
  <2> QED BY <1>5, <2>1, LaunchOperationType, RecordOperationType DEF Execute
<1>6. CASE UNCHANGED vars
  BY <1>6 DEF TypeOK, vars, row, host, launches
<1> QED BY <1>1, <1>2, <1>3, <1>4, <1>5, <1>6 DEF Next

-----------------------------------------------------------------------------
(* The queue.                                                              *)

\* What a step owes to the operations in the queue.
Steady ==
    /\ \A a \in Attempts : owner[a] \in Attempts => owner'[a] = owner[a]
    /\ \A r \in Attempts : Quiet(r) => Quiet(r)'
StillStoring(a) == task[a] = "storing" => task'[a] = "storing"

\* The operation has its place at the end of the queue.
Placed(op) ==
    /\ op.kind \in LaunchKinds => op.for \in Attempts /\ task[op.for] = "storing"
    /\ op.kind = "failure" =>
           op.for \in Attempts /\ owner[op.for] \in Attempts /\ Quiet(owner[op.for])

LEMMA QueueKept ==
    ASSUME QueueOrder, UNCHANGED queue, Steady, \A a \in Attempts : StillStoring(a)
    PROVE  QueueOrder'
BY DEF QueueOrder, Steady, StillStoring

LEMMA AppendElements ==
    ASSUME NEW q \in Seq(Ops), NEW op \in Ops
    PROVE  \A k \in DOMAIN Append(q, op) :
               \/ k \in DOMAIN q /\ Append(q, op)[k] = q[k]
               \/ k = Len(q) + 1 /\ k \notin DOMAIN q /\ Append(q, op)[k] = op
OBVIOUS

LEMMA TailElements ==
    ASSUME NEW q \in Seq(Ops), q # << >>
    PROVE  /\ Tail(q) \in Seq(Ops)
           /\ 1 \in DOMAIN q /\ Head(q) = q[1]
           /\ \A k \in DOMAIN Tail(q) : k \in Nat /\ k + 1 \in DOMAIN q /\ k + 1 # 1 /\ Tail(q)[k] = q[k + 1]
OBVIOUS

LEMMA QueueLonger ==
    ASSUME TypeOK, QueueOrder, NEW op \in Ops, queue' = Append(queue, op),
           Steady, \A a \in Attempts : StillStoring(a),
           Placed(op)', op.kind \in LaunchKinds => task[op.for] # "storing"
    PROVE  QueueOrder'
<1>1. \A k \in DOMAIN queue' :
          \/ k \in DOMAIN queue /\ queue'[k] = queue[k]
          \/ k = Len(queue) + 1 /\ k \notin DOMAIN queue /\ queue'[k] = op
  BY AppendElements DEF TypeOK
<1>2. (\A k \in DOMAIN queue : Placed(queue[k]))'
  BY <1>1 DEF QueueOrder, Steady, StillStoring, Placed
<1>3. \A k \in DOMAIN queue' : \A j \in DOMAIN queue' :
          queue'[k].kind \in LaunchKinds /\ queue'[j].kind \in LaunchKinds
              /\ queue'[j].for = queue'[k].for => j = k
  BY <1>1 DEF QueueOrder
<1> QED BY <1>2, <1>3 DEF QueueOrder, Placed

LEMMA QueueShorter ==
    ASSUME TypeOK, QueueOrder, queue # << >>, NEW op, op = Head(queue), queue' = Tail(queue), Steady,
           \A a \in Attempts : a # op.for \/ op.kind \notin LaunchKinds => StillStoring(a)
    PROVE  QueueOrder'
<1>1. /\ 1 \in DOMAIN queue /\ op = queue[1]
      /\ \A k \in DOMAIN queue' :
             k \in Nat /\ k + 1 \in DOMAIN queue /\ k + 1 # 1 /\ queue'[k] = queue[k + 1]
  BY TailElements DEF TypeOK
<1>2. (\A k \in DOMAIN queue : Placed(queue[k]))'
  BY <1>1 DEF QueueOrder, Steady, StillStoring, Placed
<1>3. \A k \in DOMAIN queue' : \A j \in DOMAIN queue' :
          queue'[k].kind \in LaunchKinds /\ queue'[j].kind \in LaunchKinds
              /\ queue'[j].for = queue'[k].for => j = k
  BY <1>1 DEF QueueOrder
<1> QED BY <1>2, <1>3 DEF QueueOrder, Placed

LEMMA QueueTurned ==
    ASSUME TypeOK, QueueOrder, queue # << >>, NEW op, op = Head(queue), NEW new \in Ops,
           queue' = Append(Tail(queue), new), Steady,
           \A a \in Attempts : a # op.for \/ op.kind \notin LaunchKinds => StillStoring(a),
           Placed(new)', new.kind \in LaunchKinds => op.kind \in LaunchKinds /\ new.for = op.for
    PROVE  QueueOrder'
<1>1. /\ 1 \in DOMAIN queue /\ op = queue[1] /\ Tail(queue) \in Seq(Ops)
      /\ \A k \in DOMAIN Tail(queue) :
             k \in Nat /\ k + 1 \in DOMAIN queue /\ k + 1 # 1 /\ Tail(queue)[k] = queue[k + 1]
  BY TailElements DEF TypeOK
<1>2. \A k \in DOMAIN queue' :
          \/ k \in Nat /\ k + 1 \in DOMAIN queue /\ k + 1 # 1 /\ queue'[k] = queue[k + 1]
          \/ k = Len(Tail(queue)) + 1 /\ queue'[k] = new
  BY <1>1, AppendElements
<1>3. (\A k \in DOMAIN queue : Placed(queue[k]))'
  BY <1>1, <1>2 DEF QueueOrder, Steady, StillStoring, Placed
<1>4. \A k \in DOMAIN queue' : \A j \in DOMAIN queue' :
          queue'[k].kind \in LaunchKinds /\ queue'[j].kind \in LaunchKinds
              /\ queue'[j].for = queue'[k].for => j = k
  BY <1>1, <1>2 DEF QueueOrder
<1> QED BY <1>3, <1>4 DEF QueueOrder, Placed

-----------------------------------------------------------------------------
(* Steps that leave the ownership as it is.                                *)

\* No launch, worker, exit or recovery begins, and no live worker loses its runtime.
Aside ==
    /\ current' = current /\ owner' = owner
    /\ \A a \in Attempts :
           /\ task'[a] = "none" <=> task[a] = "none"
           /\ Going(a)' => Going(a)
           /\ worker'[a] = "live" => worker[a] = "live" /\ Alive(current)'
           /\ task[a] = "none" /\ worker[a] = "none" => worker'[a] = "none"
    /\ \A r \in Attempts :
           /\ run'[r].worker = run[r].worker /\ run'[r].inspecting = run[r].inspecting
           /\ run'[r].timer => run[r].timer

LEMMA HostKept ==
    ASSUME TypeOK, Host, Aside
    PROVE  Host' /\ Steady
<1>0. \A r \in Attempts : run[r].worker \in Callers
  BY DEF TypeOK, Records
<1>1. \A r \in Attempts : Idle(r) => Idle(r)'
  BY DEF Aside, Idle
<1>2. Begun'
  BY <1>0, <1>1 DEF Host, Begun, Aside, Callers, Nobody
<1>3. OneAtATime'
  BY DEF Host, OneAtATime, Aside
<1>4. LaunchesAlone'
  <2>1. \A a \in Attempts : Going(a) => owner[a] \in Attempts
    BY DEF Host, Begun, Going
  <2> QED BY <1>1, <2>1 DEF Host, LaunchesAlone, Aside
<1>5. Owned'
  BY DEF Host, Owned, Aside
<1>6. Steady
  BY <1>1 DEF Aside, Steady, Quiet
<1> QED BY <1>2, <1>3, <1>4, <1>5, <1>6 DEF Host

\* The runtime of a launch under way was begun and is idle.
LEMMA GoingFacts ==
    ASSUME TypeOK, Host, NEW a \in Attempts, Going(a)
    PROVE  /\ task[a] # "none" /\ owner[a] \in Attempts /\ task[owner[a]] # "none" /\ Idle(owner[a])
           /\ \A b \in Attempts : Going(b) /\ owner[b] = owner[a] => b = a
           /\ \A b \in Attempts : worker[b] = "live" => current # owner[a]
<1>1. task[a] # "none"
  BY DEF Going
<1>2. owner[a] \in Attempts /\ Idle(owner[a])
  BY <1>1 DEF Host, Begun, LaunchesAlone
<1>3. task[owner[a]] # "none"
  BY <1>2 DEF Host, Begun
<1>4. \A b \in Attempts : worker[b] = "live" => current # owner[a]
  BY <1>2 DEF Host, Owned, Idle, Attempts, Nobody
<1> QED BY <1>1, <1>2, <1>3, <1>4 DEF Host, LaunchesAlone

\* A launch that fails, with what its caller did to its worker.
LEMMA LaunchFailedKeeps ==
    ASSUME IInv, NEW a \in Attempts, Going(a), task[a] # "storing", LaunchFailed(a),
           UNCHANGED <<current, owner, origin>>,
           \A b \in Attempts : /\ worker'[b] = "live" => worker[b] = "live"
                               /\ task[b] = "none" /\ worker[b] = "none" => worker'[b] = "none"
    PROVE  Host' /\ QueueOrder'
<1> DEFINE r == owner[a]
<1>1. /\ task[a] # "none" /\ r \in Attempts /\ task[r] # "none" /\ Idle(r)
      /\ \A b \in Attempts : Going(b) /\ owner[b] = r => b = a
      /\ \A b \in Attempts : worker[b] = "live" => current # r
  BY GoingFacts DEF IInv
<1>2. task' = [task EXCEPT ![a] = "over"]
  BY DEF LaunchFailed
<1>3. /\ \A b \in Attempts : run'[b].worker = run[b].worker /\ run'[b].inspecting = run[b].inspecting
                                 /\ run'[b].timer = run[b].timer
      /\ \A b \in Attempts : b # r => run'[b] = run[b]
  <2>1. CASE run' = run
    BY <2>1
  <2>2. CASE run' # run
    <3> DEFINE new == [run[r] EXCEPT !.state = IF origin[a] = "start" THEN "failed" ELSE @]
    <3>1. run' = [run EXCEPT ![r] = new]
      BY <2>2 DEF LaunchFailed
    <3>2. run'[r] = new /\ \A b \in Attempts : b # r => run'[b] = run[b]
      BY <1>1, <3>1 DEF IInv, TypeOK
    <3>3. run[r] \in Records
      BY <1>1 DEF IInv, TypeOK
    <3>4. new.worker = run[r].worker /\ new.inspecting = run[r].inspecting /\ new.timer = run[r].timer
      BY <3>3 DEF Records
    <3> QED BY <3>2, <3>4
  <2> QED BY <2>1, <2>2
<1>4. \A b \in Attempts : worker'[b] = "live" => Alive(current)'
  BY <1>1, <1>3 DEF IInv, Host, Owned, Alive
<1>5. \A b \in Attempts : /\ task'[b] = "none" <=> task[b] = "none"
                          /\ Going(b)' => Going(b) /\ b # a
                          /\ StillStoring(b)
  BY <1>1, <1>2 DEF IInv, TypeOK, Going, StillStoring
<1>6. Aside
  BY <1>3, <1>4, <1>5 DEF Aside
<1>7. Host' /\ Steady
  BY <1>6, HostKept DEF IInv
<1>8. Quiet(r)'
  BY <1>1, <1>3, <1>5 DEF Quiet, Idle
<1>9. CASE UNCHANGED queue
  BY <1>5, <1>7, <1>9, QueueKept DEF IInv
<1>10. CASE queue' = Append(queue, Op("failure", a, run[r].attempt, "failed"))
  <2>1. PICK op \in Ops : op = Op("failure", a, run[r].attempt, "failed")
    <3>1. run[r].attempt \in Callers
      BY <1>1 DEF IInv, TypeOK, Records
    <3> QED BY <3>1, OpType DEF Callers, Kinds, Statuses, Ended
  <2>2. Placed(op)' /\ op.kind \notin LaunchKinds
    BY <1>1, <1>8, <2>1 DEF Op, Placed, LaunchKinds
  <2> QED BY <1>5, <1>7, <1>10, <2>1, <2>2, QueueLonger DEF IInv
<1> QED BY <1>9, <1>10 DEF LaunchFailed

LEMMA LaunchKeeps ==
    ASSUME IInv, NEW a \in Attempts,
           Prepared(a) \/ PrepareFails(a) \/ Launch(a) \/ LaunchRefused(a) \/ SpawnFails(a)
    PROVE  Host' /\ QueueOrder'
<1>1. CASE Prepared(a)
  <2>1. \A b \in Attempts : /\ task'[b] = "none" <=> task[b] = "none"
                            /\ Going(b)' => Going(b)
                            /\ StillStoring(b)
    BY <1>1 DEF Prepared, IInv, TypeOK, Going, StillStoring
  <2>2. Aside
    BY <1>1, <2>1 DEF Aside, Prepared, host, IInv, Host, Owned, Alive
  <2>3. Host' /\ Steady
    BY <2>2, HostKept DEF IInv
  <2>4. PICK op \in Ops : op = Op("look", a, a, "active")
    BY OpType DEF Callers, Kinds, Statuses
  <2>5. Placed(op)' /\ task[op.for] # "storing"
    BY <1>1, <2>4 DEF Op, Placed, LaunchKinds, Prepared, IInv, TypeOK
  <2> QED BY <1>1, <2>1, <2>3, <2>4, <2>5, QueueLonger DEF Prepared, IInv
<1>2. CASE PrepareFails(a) \/ LaunchRefused(a)
  BY <1>2, LaunchFailedKeeps DEF PrepareFails, LaunchRefused, Going
<1>3. CASE SpawnFails(a)
  <2>1. \A b \in Attempts : /\ worker'[b] = "live" => worker[b] = "live"
                            /\ task[b] = "none" /\ worker[b] = "none" => worker'[b] = "none"
    BY <1>3 DEF SpawnFails, IInv, TypeOK
  <2> QED BY <1>3, <2>1, LaunchFailedKeeps DEF SpawnFails, Going
<1>4. CASE Launch(a)
  <2>1. \A b \in Attempts : /\ task'[b] = "none" <=> task[b] = "none"
                            /\ Going(b)' => Going(b)
                            /\ StillStoring(b)
    BY <1>4 DEF Launch, IInv, TypeOK, Going, StillStoring
  <2>2. \A b \in Attempts : /\ worker'[b] = "live" => worker[b] = "live"
                            /\ task[b] = "none" /\ worker[b] = "none" => worker'[b] = "none"
    BY <1>4 DEF Launch, IInv, TypeOK
  <2>3. Aside
    BY <1>4, <2>1, <2>2 DEF Aside, Launch, IInv, Host, Owned, Alive
  <2> QED BY <1>4, <2>1, <2>3, HostKept, QueueKept DEF Launch, IInv
<1> QED BY <1>1, <1>2, <1>3, <1>4

\* A runtime whose record keeps its worker and begins nothing.
LEMMA RunKept ==
    ASSUME TypeOK, NEW r \in Attempts, NEW new, run' = [run EXCEPT ![r] = new],
           new.worker = run[r].worker, new.inspecting = run[r].inspecting, new.timer => run[r].timer
    PROVE  /\ run'[r] = new /\ \A b \in Attempts : b # r => run'[b] = run[b]
           /\ \A b \in Attempts :
                  /\ run'[b].worker = run[b].worker /\ run'[b].inspecting = run[b].inspecting
                  /\ run'[b].timer => run[b].timer
BY DEF TypeOK

LEMMA WorkerKeeps ==
    ASSUME IInv, NEW a \in Attempts,
           Ready(a) \/ StartupFails(a) \/ \E s \in Controls : Control(a, s)
    PROVE  Host' /\ QueueOrder'
<1>1. worker[a] = "live"
  BY DEF Ready, StartupFails, Control
<1>2. owner[a] \in Attempts /\ run[owner[a]] \in Records /\ current = owner[a]
  BY <1>1 DEF IInv, Host, Owned, TypeOK
<1>3. CASE Ready(a)
  <2>1. [run[owner[a]] EXCEPT !.state = "running"].worker = run[owner[a]].worker
        /\ [run[owner[a]] EXCEPT !.state = "running"].inspecting = run[owner[a]].inspecting
        /\ [run[owner[a]] EXCEPT !.state = "running"].timer = run[owner[a]].timer
        /\ [run[owner[a]] EXCEPT !.state = "running"].state = "running"
    BY <1>2 DEF Records
  <2>2. run' = [run EXCEPT ![owner[a]] = [run[owner[a]] EXCEPT !.state = "running"]]
    BY <1>3 DEF Ready
  <2>3. /\ run'[owner[a]].state = "running"
        /\ \A b \in Attempts :
               /\ run'[b].worker = run[b].worker /\ run'[b].inspecting = run[b].inspecting
               /\ run'[b].timer => run[b].timer
    BY <1>2, <2>1, <2>2, RunKept DEF IInv
  <2>4. Aside
    BY <1>2, <1>3, <2>3 DEF Aside, Ready, launches, Going, Alive
  <2> QED BY <1>3, <2>4, HostKept, QueueKept DEF Ready, launches, IInv, StillStoring
<1>4. CASE StartupFails(a)
  <2>1. [run[owner[a]] EXCEPT !.startup = TRUE].worker = run[owner[a]].worker
        /\ [run[owner[a]] EXCEPT !.startup = TRUE].inspecting = run[owner[a]].inspecting
        /\ [run[owner[a]] EXCEPT !.startup = TRUE].timer = run[owner[a]].timer
        /\ [run[owner[a]] EXCEPT !.startup = TRUE].state = run[owner[a]].state
    BY <1>2 DEF Records
  <2>2. run' = [run EXCEPT ![owner[a]] = [run[owner[a]] EXCEPT !.startup = TRUE]]
    BY <1>4 DEF StartupFails
  <2>3. /\ run'[owner[a]].state = "starting"
        /\ \A b \in Attempts :
               /\ run'[b].worker = run[b].worker /\ run'[b].inspecting = run[b].inspecting
               /\ run'[b].timer => run[b].timer
    BY <1>2, <1>4, <2>1, <2>2, RunKept DEF IInv, StartupFails
  <2>4. Aside
    BY <1>2, <1>4, <2>3 DEF Aside, StartupFails, launches, Going, Alive
  <2>5. PICK op \in Ops : op = Op("startup", a, a, "failed")
    BY OpType DEF Callers, Kinds, Statuses, Ended
  <2>6. Placed(op)' /\ op.kind \notin LaunchKinds
    BY <2>5 DEF Op, Placed, LaunchKinds
  <2> QED BY <1>4, <2>4, <2>5, <2>6, HostKept, QueueLonger DEF StartupFails, launches, IInv, StillStoring
<1>5. ASSUME NEW s \in Controls, Control(a, s) PROVE Host' /\ QueueOrder'
  <2>1. Aside
    BY <1>5 DEF Aside, Control, host, launches, Going, Alive, IInv, Host, Owned
  <2>2. PICK op \in Ops : op = Op("control", owner[a], a, s)
    BY <1>2, OpType, SessionsAssumption DEF Callers, Kinds, Statuses
  <2>3. Placed(op)' /\ op.kind \notin LaunchKinds
    BY <2>2 DEF Op, Placed, LaunchKinds
  <2> QED BY <1>5, <2>1, <2>2, <2>3, HostKept, QueueLonger DEF Control, launches, IInv, StillStoring
<1> QED BY <1>3, <1>4, <1>5

\* A runtime of the map that has no worker has no live one.
LEMMA NoWorkerNoneLive ==
    ASSUME IInv, NEW r \in Attempts, run[r].worker = Nobody
    PROVE  \A b \in Attempts : worker[b] = "live" => current # r
BY DEF IInv, Host, Owned, Attempts, Nobody

LEMMA FinishedFields ==
    ASSUME NEW ro \in Records, NEW s \in Ended
    PROVE  /\ Finished(ro, s).worker = ro.worker /\ Finished(ro, s).inspecting = ro.inspecting
           /\ ~Finished(ro, s).timer
BY DEF Finished, Records

LEMMA StopKeeps ==
    ASSUME IInv, NEW r \in Attempts, Stop(r)
    PROVE  Host' /\ QueueOrder'
<1>1. run[r] \in Records
  BY DEF IInv, TypeOK
<1> DEFINE marked == [run[r] EXCEPT !.stop = TRUE]
<1>2. marked \in Records /\ marked.worker = run[r].worker /\ marked.inspecting = run[r].inspecting
      /\ marked.timer = run[r].timer /\ marked.state = run[r].state
  BY <1>1 DEF Records
<1>3. Aside
  <2>1. CASE run[r].worker = Nobody
    <3>1. run' = [run EXCEPT ![r] = Finished(marked, "stopped")] /\ UNCHANGED worker
      BY <2>1 DEF Stop
    <3>2. /\ \A b \in Attempts : b # r => run'[b] = run[b]
          /\ \A b \in Attempts :
                 /\ run'[b].worker = run[b].worker /\ run'[b].inspecting = run[b].inspecting
                 /\ run'[b].timer => run[b].timer
      BY <1>2, <3>1, RunKept, FinishedFields DEF Ended, IInv
    <3>3. \A b \in Attempts : worker[b] = "live" => Alive(current)'
      BY <2>1, NoWorkerNoneLive DEF Stop
    <3> QED BY <3>1, <3>2, <3>3 DEF Stop, Aside, launches, Going
  <2>2. CASE run[r].worker # Nobody
    <3>1. run' = [run EXCEPT ![r] = marked]
          /\ worker' = [worker EXCEPT ![run[r].worker] = "stopping"]
      BY <2>2 DEF Stop
    <3>2. /\ run'[r] = marked
          /\ \A b \in Attempts : b # r => run'[b] = run[b]
          /\ \A b \in Attempts :
                 /\ run'[b].worker = run[b].worker /\ run'[b].inspecting = run[b].inspecting
                 /\ run'[b].timer => run[b].timer
      BY <1>2, <3>1, RunKept DEF IInv
    <3>3. task[run[r].worker] # "none"
      BY <2>2 DEF IInv, Host, Begun
    <3>4. \A b \in Attempts : /\ worker'[b] = "live" => worker[b] = "live"
                              /\ task[b] = "none" /\ worker[b] = "none" => worker'[b] = "none"
      BY <3>1, <3>3 DEF IInv, TypeOK
    <3>5. Alive(current)'
      BY <1>2, <3>2 DEF Stop, Alive
    <3> QED BY <3>2, <3>4, <3>5 DEF Stop, Aside, launches, Going
  <2> QED BY <2>1, <2>2
<1>4. Host' /\ Steady
  BY <1>3, HostKept DEF IInv
<1>5. CASE queue' = queue
  BY <1>4, <1>5, QueueKept DEF Stop, launches, IInv, StillStoring
<1>6. CASE queue' = Append(queue, Op("control", r, run[r].attempt, "stopped"))
  <2>1. PICK op \in Ops : op = Op("control", r, run[r].attempt, "stopped")
    BY <1>1, OpType DEF Records, Callers, Kinds, Statuses, Ended
  <2>2. Placed(op)' /\ op.kind \notin LaunchKinds
    BY <2>1 DEF Op, Placed, LaunchKinds
  <2> QED BY <1>4, <1>6, <2>1, <2>2, QueueLonger DEF Stop, launches, IInv, StillStoring
<1> QED BY <1>4, <1>5, <1>6 DEF Stop

-----------------------------------------------------------------------------
(* Steps that begin a launch, give it its worker, or end something.        *)

\* A launch begins for a runtime of its own, or for one that has just left its timer.
LEMMA BeginsKeeps ==
    ASSUME IInv, NEW a \in Attempts, NEW r \in Attempts, NEW why, NEW phase \in {"preparing", "storing"},
           Begins(a, r, why, phase), r = a \/ ~Idle(r), Idle(r)',
           UNCHANGED <<current, worker>>,
           \A b \in Attempts : /\ run'[b].worker = run[b].worker /\ run'[b].state = run[b].state
                               /\ run'[b].inspecting = run[b].inspecting
                               /\ run'[b].timer => run[b].timer
    PROVE  /\ Host' /\ Steady /\ \A b \in Attempts : StillStoring(b)
           /\ task[a] = "none" /\ task'[a] = phase
<1>1. task[a] = "none" /\ task' = [task EXCEPT ![a] = phase] /\ owner' = [owner EXCEPT ![a] = r]
  BY DEF Begins, IsNext
<1>2. /\ task'[a] = phase /\ owner'[a] = r
      /\ \A b \in Attempts : b # a => task'[b] = task[b] /\ owner'[b] = owner[b]
  BY <1>1 DEF IInv, TypeOK
<1>3. /\ owner[a] = Nobody /\ worker[a] = "none" /\ Idle(a) /\ ~Going(a)
      /\ \A b \in Attempts : owner[b] # a
  BY <1>1 DEF IInv, Host, Begun, Going
<1>4. task'[r] # "none" /\ (r # a => task[r] # "none")
  BY <1>2 DEF IInv, Host, Begun
<1>5. \A b \in Attempts : Going(b) => owner[b] # r
  BY <1>3 DEF IInv, Host, LaunchesAlone
<1>6. \A b \in Attempts : b # a => (Going(b)' <=> Going(b))
  BY <1>2 DEF Going
<1>7. \A b \in Attempts : Idle(b) => Idle(b)'
  BY DEF Idle
<1>8. Begun'
  <2>1. \A b \in Attempts : run[b].worker # Nobody => run[b].worker \in Attempts
    BY DEF IInv, TypeOK, Records, Callers
  <2> QED BY <1>2, <1>3, <1>4, <1>7, <2>1 DEF IInv, Host, Begun
<1>9. OneAtATime'
  BY DEF IInv, Host, OneAtATime
<1>10. LaunchesAlone'
  <2>1. \A b \in Attempts : Going(b) => owner[b] \in Attempts
    BY DEF IInv, Host, Begun, Going
  <2> QED BY <1>2, <1>5, <1>6, <1>7, <2>1 DEF IInv, Host, LaunchesAlone
<1>11. Owned'
  BY <1>2, <1>3 DEF IInv, Host, Owned, Alive
<1>12. Steady
  <2>1. \A x \in Attempts : Quiet(x) => x # r
    BY <1>1 DEF Quiet
  <2>2. \A x \in Attempts : Quiet(x) => Quiet(x)'
    BY <1>2, <1>6, <1>7, <2>1 DEF Quiet
  <2> QED BY <1>2, <1>3, <2>2 DEF Steady, Attempts, Nobody
<1>13. \A b \in Attempts : StillStoring(b)
  BY <1>1, <1>2 DEF StillStoring
<1> QED BY <1>1, <1>2, <1>8, <1>9, <1>10, <1>11, <1>12, <1>13 DEF Host

LEMMA StartKeeps ==
    ASSUME IInv, NEW a \in Attempts, Start(a)
    PROVE  Host' /\ QueueOrder'
<1>1. Idle(a)
  BY DEF Start, Begins, IsNext, IInv, Host, Begun
<1>2. Idle(a)'
  BY <1>1 DEF Start, host, Idle
<1>3. Host' /\ Steady /\ \A b \in Attempts : StillStoring(b)
  BY <1>2, BeginsKeeps DEF Start, host
<1> QED BY <1>3, QueueKept DEF Start, IInv

LEMMA RestartKeeps ==
    ASSUME IInv, Restart
    PROVE  Host' /\ QueueOrder'
<1>1. CASE status = "active"
  <2>1. PICK a, last \in Attempts :
            Begins(a, a, "resume", "storing") /\ queue' = Append(queue, Op("get", a, last, "paused"))
    BY <1>1 DEF Restart
  <2>2. Idle(a)
    BY <2>1 DEF Begins, IsNext, IInv, Host, Begun
  <2>3. Idle(a)'
    BY <2>2 DEF Restart, host, Idle
  <2>4. /\ Host' /\ Steady /\ \A b \in Attempts : StillStoring(b)
        /\ task[a] = "none" /\ task'[a] = "storing"
    BY <2>1, <2>3, BeginsKeeps DEF Restart, host
  <2>5. PICK op \in Ops : op = Op("get", a, last, "paused")
    BY OpType DEF Callers, Kinds, Statuses
  <2>6. Placed(op)' /\ task[op.for] # "storing"
    BY <2>4, <2>5 DEF Op, Placed, LaunchKinds
  <2> QED BY <2>1, <2>4, <2>5, <2>6, QueueLonger DEF IInv
<1>2. CASE status # "active"
  <2>1. Aside
    BY <1>2 DEF Restart, host, launches, Aside, Going, IInv, Host, Owned, Alive
  <2> QED BY <1>2, <2>1, HostKept, QueueKept DEF Restart, launches, IInv, StillStoring
<1> QED BY <1>1, <1>2

LEMMA RecoverKeeps ==
    ASSUME IInv, NEW r \in Attempts, RecoverSession(r)
    PROVE  Host' /\ QueueOrder'
<1>1. run[r] \in Records /\ run[r].timer
  BY DEF IInv, TypeOK, RecoverSession
<1>2. run[r].worker = Nobody /\ ~run[r].inspecting /\ ~Idle(r)
  BY <1>1 DEF IInv, Host, OneAtATime, Idle
<1>3. \A b \in Attempts : worker[b] = "live" => current # r
  BY <1>2, NoWorkerNoneLive
<1> DEFINE cleared == [run[r] EXCEPT !.timer = FALSE]
<1>4. cleared.worker = Nobody /\ ~cleared.inspecting /\ ~cleared.timer /\ cleared.state = run[r].state
  BY <1>1, <1>2 DEF Records
<1>5. CASE run[r].stop \/ current # r
  <2>1. UNCHANGED <<queue, launches, current, worker>>
    BY <1>5 DEF RecoverSession
  <2>2. CASE current = r
    <3>1. run' = [run EXCEPT ![r] = Finished(run[r], "stopped")]
      BY <1>5, <2>2 DEF RecoverSession
    <3>2. \A b \in Attempts :
              /\ run'[b].worker = run[b].worker /\ run'[b].inspecting = run[b].inspecting
              /\ run'[b].timer => run[b].timer
      BY <1>1, <3>1, RunKept, FinishedFields DEF Ended, IInv
    <3>3. Aside
      BY <1>3, <2>1, <2>2, <3>2 DEF Aside, launches, Going
    <3> QED BY <2>1, <3>3, HostKept, QueueKept DEF launches, IInv, StillStoring
  <2>3. CASE current # r
    <3>1. run' = [run EXCEPT ![r] = cleared]
      BY <1>5, <2>3 DEF RecoverSession
    <3>2. /\ \A b \in Attempts : b # r => run'[b] = run[b]
          /\ \A b \in Attempts :
                 /\ run'[b].worker = run[b].worker /\ run'[b].inspecting = run[b].inspecting
                 /\ run'[b].timer => run[b].timer
      BY <1>2, <1>4, <3>1, RunKept DEF IInv
    <3>3. Aside
      BY <2>1, <2>3, <3>2 DEF Aside, launches, Going, IInv, Host, Owned, Alive
    <3> QED BY <2>1, <3>3, HostKept, QueueKept DEF launches, IInv, StillStoring
  <2> QED BY <2>2, <2>3
<1>6. CASE ~(run[r].stop \/ current # r)
  <2>1. PICK a \in Attempts :
            /\ Begins(a, r, "recover", "storing")
            /\ queue' = Append(queue, Op("get", a, run[r].attempt, "paused"))
            /\ run' = [run EXCEPT ![r] = cleared]
    BY <1>6 DEF RecoverSession
  <2>2. UNCHANGED <<current, worker>>
    BY DEF RecoverSession
  <2>3. /\ run'[r] = cleared /\ \A b \in Attempts : b # r => run'[b] = run[b]
        /\ \A b \in Attempts :
               /\ run'[b].worker = run[b].worker /\ run'[b].inspecting = run[b].inspecting
               /\ run'[b].timer => run[b].timer
    <3>1. cleared.worker = run[r].worker /\ cleared.inspecting = run[r].inspecting
          /\ (cleared.timer => run[r].timer)
      BY <1>2, <1>4
    <3> HIDE DEF cleared
    <3> QED BY <2>1, <3>1, RunKept DEF IInv
  <2>4. Idle(r)' /\ \A b \in Attempts : run'[b].state = run[b].state
    BY <1>4, <2>3 DEF Idle
  <2>5. /\ Host' /\ Steady /\ \A b \in Attempts : StillStoring(b)
        /\ task[a] = "none" /\ task'[a] = "storing"
    BY <1>2, <2>1, <2>2, <2>3, <2>4, BeginsKeeps
  <2>6. PICK op \in Ops : op = Op("get", a, run[r].attempt, "paused")
    BY <1>1, OpType DEF Records, Callers, Kinds, Statuses
  <2>7. Placed(op)' /\ task[op.for] # "storing"
    BY <2>5, <2>6 DEF Op, Placed, LaunchKinds
  <2> QED BY <2>1, <2>5, <2>6, <2>7, QueueLonger DEF IInv
<1> QED BY <1>5, <1>6

\* A runtime is made, or an unwanted launch is given up.
LEMMA StoredKeeps ==
    ASSUME IInv, NEW a \in Attempts, Stored(a)
    PROVE  Host' /\ QueueOrder'
<1>1. Going(a) /\ task[a] = "stored"
  BY DEF Stored, Going
<1>2. task[a] # "none" /\ owner[a] \in Attempts
  BY <1>1, GoingFacts DEF IInv
<1>3. \A b \in Attempts : /\ task'[b] = "none" <=> task[b] = "none"
                          /\ Going(b)' => Going(b)
                          /\ StillStoring(b)
  BY <1>1 DEF Stored, IInv, TypeOK, Going, StillStoring
<1>4. CASE UNCHANGED <<current, run>>
  <2>1. Aside
    BY <1>3, <1>4 DEF Stored, Aside, IInv, Host, Owned, Alive
  <2> QED BY <1>3, <2>1, HostKept, QueueKept DEF Stored, IInv
<1>5. CASE ~UNCHANGED <<current, run>>
  <2>1. current' = a /\ run' = [run EXCEPT ![a] = NewRun(a)]
    BY <1>5 DEF Stored
  <2>2. ~(current # Nobody /\ Alive(current))
    BY <1>5 DEF Stored
  <2>3. \A b \in Attempts : worker[b] # "live"
    BY <2>2 DEF IInv, Host, Owned, Attempts, Nobody
  <2>4. \A b \in Attempts : worker'[b] # "live" /\ worker'[b] = worker[b] /\ owner'[b] = owner[b]
    BY <2>3 DEF Stored
  <2>5. run'[a] = NewRun(a) /\ \A b \in Attempts : b # a => run'[b] = run[b]
    BY <2>1 DEF IInv, TypeOK
  <2>6. Idle(a)'
    BY <2>5 DEF Idle, NewRun, NoRun
  <2>7. \A b \in Attempts : Idle(b) => Idle(b)'
    BY <2>5, <2>6 DEF Idle
  <2>8. Begun'
    <3>1. \A b \in Attempts : run'[b].worker # Nobody => run'[b].worker = run[b].worker
      BY <2>5, <2>6 DEF Idle
    <3>2. \A b \in Attempts : run[b].worker \in Callers
      BY DEF IInv, TypeOK, Records
    <3> QED BY <1>3, <2>4, <2>7, <3>1, <3>2 DEF IInv, Host, Begun, Callers, Nobody
  <2>9. OneAtATime'
    BY <2>5, <2>6 DEF IInv, Host, OneAtATime, Idle
  <2>10. LaunchesAlone'
    <3>1. \A b \in Attempts : Going(b) => owner[b] \in Attempts
      BY DEF IInv, Host, Begun, Going
    <3> QED BY <1>3, <2>4, <2>7, <3>1 DEF IInv, Host, LaunchesAlone
  <2>11. Owned'
    BY <2>4 DEF Owned
  <2>12. Steady
    BY <1>3, <2>4, <2>7 DEF Steady, Quiet
  <2> QED BY <1>3, <2>8, <2>9, <2>10, <2>11, <2>12, QueueKept DEF Stored, IInv, Host
<1> QED BY <1>4, <1>5

\* A worker that is still wanted becomes the worker of its runtime.
LEMMA OnlineKeeps ==
    ASSUME IInv, NEW a \in Attempts, Online(a)
    PROVE  Host' /\ QueueOrder'
<1> DEFINE r == owner[a]
<1>1. Going(a)
  BY DEF Online, Going
<1>2. /\ task[a] # "none" /\ r \in Attempts /\ task[r] # "none" /\ Idle(r)
      /\ \A b \in Attempts : Going(b) /\ owner[b] = r => b = a
      /\ \A b \in Attempts : worker[b] = "live" => current # r
  BY <1>1, GoingFacts DEF IInv
<1>3. \A b \in Attempts : /\ task'[b] = "none" <=> task[b] = "none"
                          /\ Going(b)' => Going(b) /\ b # a
                          /\ StillStoring(b)
  BY DEF Online, IInv, TypeOK, Going, StillStoring
<1>4. CASE Unwanted(a)
  <2>1. \A b \in Attempts : /\ worker'[b] = "live" => worker[b] = "live"
                            /\ task[b] = "none" /\ worker[b] = "none" => worker'[b] = "none"
    BY <1>2, <1>4 DEF Online, IInv, TypeOK
  <2>2. Aside
    BY <1>3, <1>4, <2>1 DEF Online, Aside, IInv, Host, Owned, Alive
  <2> QED BY <1>3, <2>2, HostKept, QueueKept DEF Online, IInv
<1>5. CASE ~Unwanted(a)
  <2> DEFINE new == [run[r] EXCEPT !.worker = a, !.attempt = a, !.state = "starting", !.startup = FALSE]
  <2>1. current = r /\ current' = r /\ owner' = owner
    BY <1>5 DEF Unwanted, Online
  <2>2. run[r] \in Records
    BY <1>2 DEF IInv, TypeOK
  <2>3. new.worker = a /\ new.state = "starting" /\ ~new.inspecting /\ ~new.timer
    BY <1>2, <2>2 DEF Records, Idle
  <2>4. run'[r] = new /\ \A b \in Attempts : b # r => run'[b] = run[b]
    BY <1>2, <1>5 DEF Online, IInv, TypeOK
  <2> HIDE DEF new
  <2>5. worker'[a] = "live" /\ \A b \in Attempts : b # a => worker'[b] = worker[b] /\ worker[b] # "live"
    BY <1>2, <1>5, <2>1 DEF Online, IInv, TypeOK, Host, Owned
  <2>6. \A b \in Attempts : b # r /\ Idle(b) => Idle(b)'
    BY <2>4 DEF Idle
  <2>7. Begun'
    <3>1. \A b \in Attempts : run[b].worker \in Callers
      BY DEF IInv, TypeOK, Records
    <3> QED BY <1>2, <1>3, <2>1, <2>3, <2>4, <2>5, <2>6, <3>1 DEF IInv, Host, Begun, Callers, Nobody
  <2>8. OneAtATime'
    BY <2>3, <2>4 DEF IInv, Host, OneAtATime
  <2>9. LaunchesAlone'
    <3>1. \A b \in Attempts : Going(b) => owner[b] \in Attempts
      BY DEF IInv, Host, Begun, Going
    <3> QED BY <1>2, <1>3, <2>1, <2>6, <3>1 DEF IInv, Host, LaunchesAlone
  <2>10. Owned'
    BY <1>2, <2>1, <2>3, <2>4, <2>5 DEF Owned, Alive
  <2>11. Steady
    BY <1>1, <1>3, <2>1, <2>6 DEF Steady, Quiet
  <2> QED BY <1>3, <2>7, <2>8, <2>9, <2>10, <2>11, QueueKept DEF Online, IInv, Host
<1> QED BY <1>4, <1>5

\* A runtime that was not idle goes on without a worker: no launch and no record of a
\* failed one was its own.
LEMMA BusyKeeps ==
    ASSUME IInv, NEW r \in Attempts, ~Idle(r), NEW new, run' = [run EXCEPT ![r] = new],
           new.worker = Nobody, ~(new.inspecting /\ new.timer),
           UNCHANGED <<current, task, owner, queue>>,
           \A b \in Attempts : /\ worker'[b] = "live" => worker[b] = "live" /\ current # r
                               /\ task[b] = "none" /\ worker[b] = "none" => worker'[b] = "none"
    PROVE  Host' /\ QueueOrder'
<1>1. run'[r] = new /\ \A b \in Attempts : b # r => run'[b] = run[b]
  BY DEF IInv, TypeOK
<1>2. \A b \in Attempts : Idle(b) => Idle(b)'
  BY <1>1 DEF Idle
<1>3. \A b \in Attempts : Going(b)' <=> Going(b)
  BY DEF Going
<1>4. task[r] # "none"
  BY DEF IInv, Host, Begun
<1>5. Begun'
  <2>1. \A b \in Attempts : run[b].worker \in Callers
    BY DEF IInv, TypeOK, Records
  <2> QED BY <1>1, <1>2, <1>4, <2>1 DEF IInv, Host, Begun, Callers, Nobody
<1>6. OneAtATime'
  BY <1>1 DEF IInv, Host, OneAtATime
<1>7. LaunchesAlone'
  <2>1. \A b \in Attempts : Going(b) => owner[b] \in Attempts
    BY DEF IInv, Host, Begun, Going
  <2> QED BY <1>2, <1>3, <2>1 DEF IInv, Host, LaunchesAlone
<1>8. Owned'
  BY <1>1 DEF IInv, Host, Owned, Alive
<1>9. Steady
  BY <1>2, <1>3 DEF Steady, Quiet
<1> QED BY <1>5, <1>6, <1>7, <1>8, <1>9, QueueKept DEF IInv, Host, StillStoring

LEMMA ExitKeeps ==
    ASSUME IInv, NEW a \in Attempts, Exit(a)
    PROVE  Host' /\ QueueOrder'
<1> DEFINE r == owner[a]
           new == [run[r] EXCEPT !.worker = Nobody, !.inspecting = TRUE]
<1>1. task[a] # "none" /\ r \in Attempts
  BY DEF Exit, IInv, Host, Begun
<1>2. \A b \in Attempts : /\ worker'[b] = "live" => worker[b] = "live" /\ b # a
                          /\ task[b] = "none" /\ worker[b] = "none" => worker'[b] = "none"
  BY <1>1 DEF Exit, IInv, TypeOK
<1>3. CASE Tracked(a) /\ current = r
  <2>1. run[r].worker = a
    BY <1>3 DEF Tracked
  <2>2. ~Idle(r) /\ ~run[r].timer
    BY <1>1, <2>1 DEF Idle, Attempts, Nobody, IInv, Host, OneAtATime
  <2>3. run' = [run EXCEPT ![r] = new]
    BY <1>3 DEF Exit
  <2>4. run[r] \in Records
    BY <1>1 DEF IInv, TypeOK
  <2>5. new.worker = Nobody /\ ~new.timer
    BY <2>2, <2>4 DEF Records
  <2>6. \A b \in Attempts : worker'[b] = "live" => current # r
    BY <1>2, <2>1 DEF IInv, Host, Owned
  <2> HIDE DEF new
  <2> QED BY <1>1, <1>2, <2>2, <2>3, <2>5, <2>6, BusyKeeps DEF Exit, launches
<1>4. CASE ~(Tracked(a) /\ current = r)
  <2>1. run' = run
    BY <1>4 DEF Exit
  <2>2. Aside
    BY <1>2, <2>1 DEF Exit, Aside, launches, Going, IInv, Host, Owned, Alive
  <2> QED BY <2>2, HostKept, QueueKept DEF Exit, launches, IInv, StillStoring
<1> QED BY <1>3, <1>4

LEMMA InspectedKeeps ==
    ASSUME IInv, NEW r \in Attempts, NEW result \in Results, Inspected(r, result)
    PROVE  Host' /\ QueueOrder'
<1> DEFINE over == [run[r] EXCEPT !.inspecting = FALSE]
           outcome == Outcome(run[r], result)
           timed == [over EXCEPT !.timer = TRUE, !.recoveries = @ + 1]
           ended == Finished(over, outcome)
<1>1. run[r] \in Records /\ run[r].inspecting
  BY DEF IInv, TypeOK, Inspected
<1>2. run[r].worker = Nobody /\ ~run[r].timer /\ ~Idle(r)
  BY <1>1 DEF IInv, Host, OneAtATime, Idle
<1>3. \A b \in Attempts : worker[b] = "live" => current # r
  BY <1>2, NoWorkerNoneLive
<1>4. over.worker = Nobody /\ ~over.inspecting /\ over \in Records
  BY <1>1, <1>2 DEF Records
<1>5. timed.worker = Nobody /\ ~timed.inspecting
  BY <1>1, <1>2 DEF Records
<1>6. outcome # "recover" => ended.worker = Nobody /\ ~ended.inspecting
  BY <1>4, FinishedFields DEF Outcome, Ended
<1>7. \/ run' = [run EXCEPT ![r] = over]
      \/ run' = [run EXCEPT ![r] = timed]
      \/ outcome # "recover" /\ run' = [run EXCEPT ![r] = ended]
  BY DEF Inspected
<1> HIDE DEF over, timed, ended, outcome
<1>8. CASE run' = [run EXCEPT ![r] = over]
  BY <1>2, <1>3, <1>4, <1>8, BusyKeeps DEF Inspected, launches
<1>9. CASE run' = [run EXCEPT ![r] = timed]
  BY <1>2, <1>3, <1>5, <1>9, BusyKeeps DEF Inspected, launches
<1>10. CASE outcome # "recover" /\ run' = [run EXCEPT ![r] = ended]
  BY <1>2, <1>3, <1>6, <1>10, BusyKeeps DEF Inspected, launches
<1> QED BY <1>7, <1>8, <1>9, <1>10

LEMMA PersistenceTimesOutKeeps ==
    ASSUME IInv, NEW r \in Attempts, PersistenceTimesOut(r)
    PROVE  Host' /\ QueueOrder'
<1> DEFINE new == [run[r] EXCEPT !.persisting = FALSE]
<1>1. run[r] \in Records
  BY DEF IInv, TypeOK
<1>2. /\ new.worker = run[r].worker /\ new.inspecting = run[r].inspecting
      /\ new.timer = run[r].timer /\ new.state = run[r].state
  BY <1>1 DEF Records
<1>3. run' = [run EXCEPT ![r] = new]
  BY DEF PersistenceTimesOut
<1> HIDE DEF new
<1>4. /\ run'[r] = new /\ \A b \in Attempts : b # r => run'[b] = run[b]
      /\ \A b \in Attempts :
             /\ run'[b].worker = run[b].worker /\ run'[b].inspecting = run[b].inspecting
             /\ run'[b].timer => run[b].timer
  BY <1>2, <1>3, RunKept DEF IInv
<1>5. Aside
  BY <1>2, <1>4 DEF PersistenceTimesOut, Aside, launches, Going, IInv, Host, Owned, Alive
<1> QED BY <1>5, HostKept, QueueKept DEF PersistenceTimesOut, launches, IInv, StillStoring

LEMMA HostStepKeeps ==
    ASSUME IInv, Forget \/ Crash \/ \E f \in closing : Released(f)
    PROVE  Host' /\ QueueOrder'
<1>1. CASE Forget
  <2>1. \A b \in Attempts : worker[b] # "live"
    BY <1>1 DEF Forget, IInv, Host, Owned, Attempts, Nobody
  <2>2. \A b \in Attempts : (Idle(b)' <=> Idle(b)) /\ (Going(b)' <=> Going(b)) /\ StillStoring(b)
    BY <1>1 DEF Forget, launches, Idle, Going, StillStoring
  <2>3. Host'
    BY <1>1, <2>1, <2>2 DEF Forget, launches, IInv, Host, Begun, OneAtATime, LaunchesAlone, Owned,
                            Idle, Going
  <2>4. Steady
    BY <1>1, <2>2 DEF Forget, launches, Steady, Quiet
  <2> QED BY <1>1, <2>2, <2>3, <2>4, QueueKept DEF Forget, IInv
<1>2. CASE Crash
  <2>1. \A b \in Attempts : /\ Idle(b)' /\ ~Going(b)' /\ run'[b].worker = Nobody
                            /\ task'[b] = "none" <=> task[b] = "none"
                            /\ worker'[b] # "live" /\ (worker[b] = "none" => worker'[b] = "none")
    BY <1>2 DEF Crash, Idle, Going, NoRun
  <2>2. Begun'
    BY <1>2, <2>1 DEF Crash, IInv, Host, Begun
  <2>3. OneAtATime' /\ LaunchesAlone' /\ Owned'
    BY <2>1 DEF OneAtATime, LaunchesAlone, Owned, Idle
  <2>4. QueueOrder'
    BY <1>2 DEF Crash, QueueOrder
  <2> QED BY <2>2, <2>3, <2>4 DEF Host
<1>3. ASSUME NEW f \in closing, Released(f) PROVE Host' /\ QueueOrder'
  <2>1. Aside
    BY <1>3 DEF Released, Aside, launches, Going, IInv, Host, Owned, Alive
  <2>2. PICK op \in Ops : op = Op("last", f.for, f.attempt, f.state)
    <3>1. f.for \in Callers /\ f.attempt \in Callers /\ f.state \in Statuses
      BY DEF IInv, TypeOK, Statuses
    <3> QED BY <3>1, OpType DEF Kinds
  <2>3. Placed(op)' /\ op.kind \notin LaunchKinds
    BY <2>2 DEF Op, Placed, LaunchKinds
  <2> QED BY <1>3, <2>1, <2>2, <2>3, HostKept, QueueLonger DEF Released, launches, IInv, StillStoring
<1> QED BY <1>1, <1>2, <1>3

-----------------------------------------------------------------------------
(* Operations on the row.                                                  *)

\* An operation of a launch moves that launch only.
LEMMA LaunchOperationAside ==
    ASSUME IInv, queue # << >>, NEW op \in Ops, op = Head(queue), op.kind \in LaunchKinds,
           NEW phase \in {"preparing", "stored", "over"},
           task' = task \/ task' = [task EXCEPT ![op.for] = phase],
           UNCHANGED <<current, run, worker, owner>>
    PROVE  /\ Aside
           /\ \A b \in Attempts : b # op.for \/ op.kind \notin LaunchKinds => StillStoring(b)
           /\ op.for \in Attempts /\ task[op.for] = "storing" /\ Going(op.for)
<1>1. op.for \in Attempts /\ task[op.for] = "storing"
  BY HeadOrder DEF IInv, Host
<1>2. \A b \in Attempts : /\ task'[b] = "none" <=> task[b] = "none"
                          /\ Going(b)' => Going(b)
                          /\ b # op.for \/ op.kind \notin LaunchKinds => StillStoring(b)
  BY <1>1 DEF IInv, TypeOK, Going, StillStoring
<1>3. Aside
  BY <1>2 DEF Aside, IInv, Host, Owned, Alive
<1> QED BY <1>1, <1>2, <1>3 DEF Going

LEMMA LaunchOperationKeeps ==
    ASSUME IInv, queue # << >>, NEW op \in Ops, op = Head(queue),
           Get(op) \/ Pause(op) \/ Look(op) \/ Create(op) \/ Begin(op) \/ Activate(op),
           UNCHANGED <<current, owner>>
    PROVE  Host' /\ QueueOrder'
<1>1. op.kind \in LaunchKinds
  BY DEF Get, Pause, Look, Create, Begin, Activate, LaunchKinds
<1>2. UNCHANGED <<current, run, worker, owner>>
  BY DEF Get, Pause, Look, Create, Begin, Activate
<1>3. \/ task' = task \/ task' = [task EXCEPT ![op.for] = "preparing"]
      \/ task' = [task EXCEPT ![op.for] = "stored"] \/ task' = [task EXCEPT ![op.for] = "over"]
  BY DEF Get, Pause, Look, Create, Begin, Activate
<1>4. /\ Aside
      /\ \A b \in Attempts : b # op.for \/ op.kind \notin LaunchKinds => StillStoring(b)
      /\ op.for \in Attempts /\ task[op.for] = "storing" /\ Going(op.for)
  BY <1>1, <1>2, <1>3, LaunchOperationAside
<1>5. Host' /\ Steady
  BY <1>4, HostKept DEF IInv
<1>6. CASE queue' = Tail(queue)
  BY <1>4, <1>5, <1>6, QueueShorter DEF IInv
<1>7. ASSUME NEW kind \in LaunchKinds, queue' = Append(Tail(queue), [op EXCEPT !.kind = kind]), task' = task
      PROVE  QueueOrder'
  <2>1. PICK new \in Ops : new = [op EXCEPT !.kind = kind]
    BY TurnedType DEF LaunchKinds, Kinds
  <2>2. new.kind = kind /\ new.for = op.for
    BY <2>1 DEF Ops
  <2>3. Placed(new)'
    BY <1>4, <1>7, <2>2 DEF Placed, LaunchKinds
  <2> QED BY <1>1, <1>4, <1>5, <1>7, <2>1, <2>2, <2>3, QueueTurned DEF IInv
<1>8. CASE Begin(op) /\ status = "active" /\ queue' # Tail(queue)
  <2> DEFINE r == owner[op.for]
  <2>1. /\ task' = [task EXCEPT ![op.for] = "over"]
        /\ queue' = Append(Tail(queue), Op("failure", op.for, run[r].attempt, "failed"))
    BY <1>8 DEF Begin
  <2>2. /\ r \in Attempts /\ task[r] # "none" /\ Idle(r)
        /\ \A b \in Attempts : Going(b) /\ owner[b] = r => b = op.for
    BY <1>4, GoingFacts DEF IInv
  <2>3. run[r].attempt \in Callers
    BY <2>2 DEF IInv, TypeOK, Records
  <2>4. PICK new \in Ops : new = Op("failure", op.for, run[r].attempt, "failed")
    BY <1>4, <2>3, OpType DEF Callers, Kinds, Statuses, Ended
  <2>5. new.kind = "failure" /\ new.for = op.for
    BY <2>4 DEF Op
  <2>6. Quiet(r)'
    <3>1. ~Going(op.for)'
      BY <1>4, <2>1 DEF Going, IInv, TypeOK
    <3>2. task'[r] # "none"
      BY <1>4, <2>2 DEF Aside
    <3> QED BY <1>2, <1>4, <2>2, <3>1, <3>2 DEF Quiet, Idle, Aside
  <2>7. Placed(new)'
    BY <1>2, <1>4, <2>2, <2>5, <2>6 DEF Placed, LaunchKinds
  <2> QED BY <1>4, <1>5, <2>1, <2>4, <2>5, <2>7, QueueTurned DEF IInv, LaunchKinds
<1>9. \/ queue' = Tail(queue)
      \/ \E kind \in LaunchKinds : queue' = Append(Tail(queue), [op EXCEPT !.kind = kind]) /\ task' = task
      \/ Begin(op) /\ status = "active" /\ queue' # Tail(queue)
  BY DEF Get, Pause, Look, Create, Begin, Activate, LaunchKinds
<1> QED BY <1>5, <1>6, <1>7, <1>8, <1>9

LEMMA RecordOperationKeeps ==
    ASSUME IInv, queue # << >>, NEW op \in Ops, op = Head(queue),
           \/ RecordControl(op) \/ RecordStartupFailure(op) \/ RecordLaunchFailure(op)
           \/ Last(op) \/ Settle(op),
           UNCHANGED <<current, owner>>
    PROVE  Host' /\ QueueOrder'
<1>1. UNCHANGED task
  BY DEF RecordControl, RecordStartupFailure, RecordLaunchFailure, Last, Settle
<1>2. CASE RecordControl(op) \/ RecordStartupFailure(op)
  <2>1. UNCHANGED run /\ queue' = Tail(queue)
    BY <1>2 DEF RecordControl, RecordStartupFailure
  <2>2. \A b \in Attempts : /\ worker'[b] = "live" => worker[b] = "live"
                            /\ worker[b] = "none" => worker'[b] = "none"
    BY <1>2 DEF RecordControl, RecordStartupFailure, IInv, TypeOK
  <2>3. Aside
    BY <1>1, <2>1, <2>2 DEF Aside, Going, IInv, Host, Owned, Alive
  <2> QED BY <1>1, <2>1, <2>3, HostKept, QueueShorter DEF IInv, StillStoring
<1>3. CASE RecordLaunchFailure(op)
  <2> DEFINE r == owner[op.for]
             end == IF origin[op.for] = "recover" /\ run[r].stop THEN "stopped" ELSE "failed"
  <2>1. r \in Attempts /\ Idle(r)
    BY <1>3, HeadOrder DEF RecordLaunchFailure, IInv, Host, Quiet
  <2>2. \A b \in Attempts : worker[b] = "live" => current # r
    BY <2>1, NoWorkerNoneLive DEF Idle
  <2>3. run[r] \in Records /\ end \in Ended
    BY <2>1 DEF IInv, TypeOK, Ended
  <2>4. run' = run \/ run' = [run EXCEPT ![r] = Finished(run[r], end)]
    BY <1>3 DEF RecordLaunchFailure
  <2>5. /\ \A b \in Attempts : b # r => run'[b] = run[b]
        /\ \A b \in Attempts :
               /\ run'[b].worker = run[b].worker /\ run'[b].inspecting = run[b].inspecting
               /\ run'[b].timer => run[b].timer
    BY <2>1, <2>3, <2>4, RunKept, FinishedFields DEF IInv
  <2>6. Aside
    BY <1>1, <1>3, <2>2, <2>5 DEF RecordLaunchFailure, Aside, Going, IInv, Host, Owned, Alive
  <2> QED BY <1>1, <1>3, <2>6, HostKept, QueueShorter DEF RecordLaunchFailure, IInv, StillStoring
<1>4. CASE Last(op) \/ Settle(op)
  <2>1. UNCHANGED worker
    BY <1>4 DEF Last, Settle
  <2>2. run' = run \/ run' = [run EXCEPT ![op.for].persisting = FALSE]
    BY <1>4 DEF Last, Settle
  <2>3. \A b \in Attempts :
            /\ run'[b].worker = run[b].worker /\ run'[b].inspecting = run[b].inspecting
            /\ run'[b].timer = run[b].timer /\ run'[b].state = run[b].state
    <3> DEFINE new == [run[op.for] EXCEPT !.persisting = FALSE]
    <3>1. ASSUME NEW b \in Attempts, b # op.for \/ run' = run PROVE run'[b] = run[b]
      BY <2>2, <3>1 DEF IInv, TypeOK
    <3>2. op.for \in Attempts /\ run' # run => run'[op.for] = new
      BY <2>2 DEF IInv, TypeOK
    <3>3. op.for \in Attempts => run[op.for] \in Records
      BY DEF IInv, TypeOK
    <3>4. op.for \in Attempts =>
              /\ new.worker = run[op.for].worker /\ new.inspecting = run[op.for].inspecting
              /\ new.timer = run[op.for].timer /\ new.state = run[op.for].state
      BY <3>3 DEF Records
    <3> HIDE DEF new
    <3> QED BY <3>1, <3>2, <3>4
  <2>4. Aside
    BY <1>1, <2>1, <2>3 DEF Aside, Going, IInv, Host, Owned, Alive
  <2>5. Host' /\ Steady
    BY <2>4, HostKept DEF IInv
  <2>6. CASE queue' = Tail(queue)
    BY <1>1, <2>5, <2>6, QueueShorter DEF IInv, StillStoring
  <2>7. CASE queue' = Append(Tail(queue), [op EXCEPT !.kind = "settle"])
    <3>1. PICK new \in Ops : new = [op EXCEPT !.kind = "settle"]
      BY TurnedType DEF Kinds
    <3>2. Placed(new)' /\ new.kind \notin LaunchKinds
      BY <3>1 DEF Ops, Placed, LaunchKinds
    <3> QED BY <1>1, <2>5, <2>7, <3>1, <3>2, QueueTurned DEF IInv, StillStoring
  <2> QED BY <1>4, <2>5, <2>6, <2>7 DEF Last, Settle
<1> QED BY <1>2, <1>3, <1>4

-----------------------------------------------------------------------------
(* The theorems.                                                           *)

LEMMA InitInv == Init => IInv
<1> SUFFICES ASSUME Init PROVE IInv
  OBVIOUS
<1>1. TypeOK
  <2>1. 0 \in 0..MaxFaults
    BY SessionsAssumption
  <2>2. << >> \in Seq(Ops)
    OBVIOUS
  <2> QED BY <2>1, <2>2, NoRunType DEF Init, TypeOK, Statuses, Callers
<1>2. Host
  BY DEF Init, Host, Begun, OneAtATime, LaunchesAlone, Owned, Going, Idle, NoRun, Attempts, Nobody
<1>3. QueueOrder
  BY DEF Init, QueueOrder
<1> QED BY <1>1, <1>2, <1>3 DEF IInv

LEMMA InvStep == IInv /\ [Next]_vars => IInv'
<1> SUFFICES ASSUME IInv, [Next]_vars PROVE IInv'
  OBVIOUS
<1>1. TypeOK'
  BY TypeStep DEF IInv, Host
<1>2. Host' /\ QueueOrder'
  <2>1. ASSUME NEW a \in Attempts,
               \/ Start(a) \/ Prepared(a) \/ PrepareFails(a) \/ Stored(a)
               \/ Launch(a) \/ LaunchRefused(a) \/ SpawnFails(a) \/ Online(a)
        PROVE  Host' /\ QueueOrder'
    BY <2>1, StartKeeps, LaunchKeeps, StoredKeeps, OnlineKeeps
  <2>2. ASSUME NEW a \in Attempts,
               Ready(a) \/ StartupFails(a) \/ Exit(a) \/ \E s \in Controls : Control(a, s)
        PROVE  Host' /\ QueueOrder'
    BY <2>2, WorkerKeeps, ExitKeeps
  <2>3. ASSUME NEW r \in Attempts,
               \/ RecoverSession(r) \/ Stop(r) \/ PersistenceTimesOut(r)
               \/ \E result \in Results : Inspected(r, result)
        PROVE  Host' /\ QueueOrder'
    BY <2>3, RecoverKeeps, StopKeeps, PersistenceTimesOutKeeps, InspectedKeeps
  <2>4. CASE Forget \/ Crash \/ \E f \in closing : Released(f)
    BY <2>4, HostStepKeeps
  <2>5. CASE Restart
    BY <2>5, RestartKeeps
  <2>6. CASE Execute
    <3>1. PICK op \in Ops : op = Head(queue)
      BY <2>6, TakeType DEF Execute, IInv
    <3> QED BY <2>6, <3>1, LaunchOperationKeeps, RecordOperationKeeps DEF Execute
  <2>7. CASE UNCHANGED vars
    <3>1. Aside
      BY <2>7 DEF vars, host, launches, Aside, Going, IInv, Host, Owned, Alive
    <3> QED BY <2>7, <3>1, HostKept, QueueKept DEF vars, launches, IInv, StillStoring
  <2> QED BY <2>1, <2>2, <2>3, <2>4, <2>5, <2>6, <2>7 DEF Next
<1> QED BY <1>1, <1>2 DEF IInv

LEMMA InvImplies == IInv => WorkersAreOwned
BY DEF IInv, Host, Owned, WorkersAreOwned

\* The row, the runtimes, the launches and the workers keep their types.
THEOREM TypeCorrect == Spec => []TypeOK
<1>1. IInv => TypeOK
  BY DEF IInv
<1> QED BY <1>1, InitInv, InvStep, PTL DEF Spec

\* However starts, stops, exits, recoveries, crashes and restarts of appServer.ts meet, a
\* session never has two workers that nobody told to stop, nor one that its runtime
\* in the map does not know.
THEOREM WorkersAlwaysOwned == Spec => []WorkersAreOwned
BY InitInv, InvStep, InvImplies, PTL DEF Spec
=============================================================================
