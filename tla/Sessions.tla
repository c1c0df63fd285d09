------------------------------- MODULE Sessions -------------------------------
(***************************************************************************)
(* One session of the app-server: its row in the database, the runtimes    *)
(* that the host keeps for it in memory, and its workers (appServer.ts,    *)
(* hostService.ts, session-store.ts).                                      *)
(*                                                                         *)
(* A launch is a chain of asynchronous steps: prepare, store, spawn.       *)
(* Stops, exits of workers, recoveries and new starts come in between.     *)
(* Operations on the row are executed one by one in the order of the calls;*)
(* while a worker holds the database they wait in the coordinator's queue. *)
(*                                                                         *)
(* An attempt is numbered by its preparation, and a runtime by its first   *)
(* attempt.                                                                *)
(***************************************************************************)
EXTENDS Naturals, Sequences, FiniteSets

CONSTANTS
    MaxAttempts,   \* bound: attempts that are prepared
    MaxRecoveries, \* maxRecoveryAttempts
    Controls,      \* of the states {"active", "paused"}, those that devices ask for
    MaxPendingControls, \* bound: control records that wait to be executed
    MaxFaults      \* bound: failed preparations, launches and startups, records that time out,
                   \* and ends of the host process

ASSUME SessionsAssumption ==
    /\ MaxAttempts \in Nat \ {0} /\ MaxRecoveries \in Nat
    /\ MaxPendingControls \in Nat /\ MaxFaults \in Nat
    /\ Controls \subseteq {"active", "paused"}

Attempts == 1..MaxAttempts
Nobody == 0
Ended == {"completed", "failed", "stopped"}
Statuses == {"none", "active", "paused"} \union Ended

VARIABLES
    status,    \* of the row: the session
    attempt,   \* of the row: its attempts
    queue,     \* operations called and not yet executed
    current,   \* the runtime in the map sessions, or Nobody
    run,       \* the runtimes
    task,      \* how far the launch of an attempt is
    owner,     \* the runtime that a launch is for
    origin,    \* why it was launched: "start", "recover" or "resume" after a restart
    worker,    \* the thread of an attempt
    closing,   \* final records that await the release of the session's target
    registered,\* the session is in workspaceWriters
    faults,
    recovering \* the process has not yet looked for interrupted sessions

row == <<status, attempt>>
launches == <<task, owner, origin>>
host == <<current, run, closing, registered>>
vars == <<row, queue, host, launches, worker, faults, recovering>>

NoRun == [state |-> "none", stop |-> FALSE, attempt |-> Nobody, worker |-> Nobody,
          inspecting |-> FALSE, timer |-> FALSE, recoveries |-> 0, startup |-> FALSE,
          persisting |-> FALSE]
NewRun(a) == [NoRun EXCEPT !.state = "starting", !.attempt = a]

Init ==
    /\ status = "none"
    /\ attempt = [a \in Attempts |-> "none"]
    /\ queue = << >>
    /\ current = Nobody
    /\ run = [a \in Attempts |-> NoRun]
    /\ task = [a \in Attempts |-> "none"]
    /\ owner = [a \in Attempts |-> Nobody]
    /\ origin = [a \in Attempts |-> "none"]
    /\ worker = [a \in Attempts |-> "none"]
    /\ closing = {}
    /\ registered = FALSE
    /\ faults = 0
    /\ recovering = FALSE

\* An operation: what, for whom (an attempt or a runtime), and the transition it makes.
Op(kind, for, of, state) == [kind |-> kind, for |-> for, attempt |-> of, state |-> state]

Alive(r) == run[r].state \in {"starting", "running"}
IsNext(a) == task[a] = "none" /\ \A b \in Attempts : b < a => task[b] # "none"

Begins(a, r, why, phase) ==
    /\ IsNext(a)
    /\ task' = [task EXCEPT ![a] = phase]
    /\ owner' = [owner EXCEPT ![a] = r]
    /\ origin' = [origin EXCEPT ![a] = why]

Fault == faults < MaxFaults /\ faults' = faults + 1

\* finishRuntime: the record ro of r as it is afterwards, and the final record.
Finished(ro, s) == [ro EXCEPT !.state = s, !.timer = FALSE, !.persisting = TRUE]
FinalRecord(r, ro, s) == [for |-> r, attempt |-> ro.attempt, state |-> s]

\* AppServerSessionStore.transition
Transition(s, a) ==
    /\ status' = s
    /\ attempt' = IF attempt[a] = "none" THEN attempt ELSE [attempt EXCEPT ![a] = s]

-----------------------------------------------------------------------------
(* Launches.                                                               *)

\* startSession, up to the await of prepareSession.
Start(a) ==
    /\ current # Nobody => ~Alive(current) /\ ~run[current].persisting
    /\ Begins(a, a, "start", "preparing")
    /\ UNCHANGED <<row, queue, host, worker, faults, recovering>>

\* recoverSession, up to the await of the row.  A recovery that finds its
\* session stopped or replaced does nothing.
RecoverSession(r) ==
    /\ run[r].timer
    /\ IF run[r].stop \/ current # r
       THEN /\ IF current = r
               THEN /\ run' = [run EXCEPT ![r] = Finished(@, "stopped")]
                    /\ closing' = closing \union {FinalRecord(r, run[r], "stopped")}
               ELSE run' = [run EXCEPT ![r].timer = FALSE] /\ UNCHANGED closing
            /\ UNCHANGED <<queue, launches>>
       ELSE \E a \in Attempts :
            /\ Begins(a, r, "recover", "storing")
            /\ queue' = Append(queue, Op("get", a, run[r].attempt, "paused"))
            /\ run' = [run EXCEPT ![r].timer = FALSE]
            /\ UNCHANGED closing
    /\ UNCHANGED <<row, current, registered, worker, faults, recovering>>

\* prepareSession reaches ensureCanonicalSession.
Prepared(a) ==
    /\ task[a] = "preparing"
    /\ task' = [task EXCEPT ![a] = "storing"]
    /\ queue' = Append(queue, Op("look", a, a, "active"))
    /\ UNCHANGED <<row, host, owner, origin, worker, faults, recovering>>

\* What follows a launch that failed.  A runtime that exists is recorded as
\* failed, first as a failed launch and then as at an end.
LaunchFailed(a) ==
    LET r == owner[a]
    IN  /\ task' = [task EXCEPT ![a] = "over"]
        /\ IF run[r].state = "none" THEN UNCHANGED <<queue, run>>
           ELSE /\ queue' = Append(queue, Op("failure", a, run[r].attempt, "failed"))
                /\ run' = [run EXCEPT ![r].state =
                       IF origin[a] = "start" THEN "failed" ELSE @]

PrepareFails(a) ==
    /\ Fault
    /\ task[a] = "preparing"
    /\ LaunchFailed(a)
    /\ UNCHANGED <<row, current, closing, registered, owner, origin, worker, recovering>>

\* The attempt is stored: a start or a resumption makes its runtime, unless there is
\* one; a recovery looks whether its runtime is still wanted.
Stored(a) ==
    LET r == owner[a]
        taken == IF origin[a] = "start"
                 THEN current # Nobody /\ (Alive(current) \/ run[current].persisting)
                 ELSE current # Nobody
        unwanted == IF origin[a] = "recover" THEN run[r].stop \/ current # r ELSE taken
    IN  /\ task[a] = "stored"
        /\ task' = [task EXCEPT ![a] = IF unwanted THEN "over" ELSE "launching"]
        /\ IF unwanted \/ origin[a] = "recover" THEN UNCHANGED <<current, run>>
           ELSE current' = a /\ run' = [run EXCEPT ![a] = NewRun(a)]
        /\ UNCHANGED <<row, queue, closing, registered, owner, origin, worker, faults, recovering>>

Unwanted(a) == run[owner[a]].stop \/ current # owner[a]

\* launchPreparedSession, from the registration of the writer to the await of the worker.
Launch(a) ==
    /\ task[a] = "launching"
    /\ task' = [task EXCEPT ![a] = IF Unwanted(a) THEN "over" ELSE "spawning"]
    /\ worker' = [worker EXCEPT ![a] = IF Unwanted(a) THEN @ ELSE "spawning"]
    /\ registered' = ~Unwanted(a)
    /\ UNCHANGED <<row, queue, current, run, closing, owner, origin, faults, recovering>>

\* A workspace operation excludes writers, or the browser of a target fails.
LaunchRefused(a) ==
    /\ Fault
    /\ task[a] = "launching"
    /\ LaunchFailed(a)
    /\ UNCHANGED <<row, current, closing, registered, owner, origin, worker, recovering>>

SpawnFails(a) ==
    /\ Fault
    /\ task[a] = "spawning"
    /\ worker' = [worker EXCEPT ![a] = "exited"]
    /\ registered' = FALSE
    /\ LaunchFailed(a)
    /\ UNCHANGED <<row, current, closing, owner, origin, recovering>>

\* Mutant: the worker is taken without a second look at the map and the stop.
OnlineTaken(a) ==
    /\ task[a] = "spawning"
    /\ task' = [task EXCEPT ![a] = "over"]
    /\ worker' = [worker EXCEPT ![a] = "live"]
    /\ run' = [run EXCEPT ![owner[a]] = [@ EXCEPT !.worker = a, !.attempt = a,
                                            !.state = "starting", !.startup = FALSE]]
    /\ UNCHANGED <<row, queue, current, closing, registered, owner, origin, faults, recovering>>
\* The worker is online: it becomes the worker of its runtime or is told to stop.
Online(a) ==
    /\ task[a] = "spawning"
    /\ task' = [task EXCEPT ![a] = "over"]
    /\ worker' = [worker EXCEPT ![a] = IF Unwanted(a) THEN "stopping" ELSE "live"]
    /\ run' = IF Unwanted(a) THEN run
              ELSE [run EXCEPT ![owner[a]] = [@ EXCEPT !.worker = a, !.attempt = a,
                                                  !.state = "starting", !.startup = FALSE]]
    /\ UNCHANGED <<row, queue, current, closing, registered, owner, origin, faults, recovering>>

-----------------------------------------------------------------------------
(* Workers.                                                                *)

Tracked(a) == worker[a] \in {"live", "stopping"} /\ run[owner[a]].worker = a

\* markRuntimeReady
Ready(a) ==
    /\ worker[a] = "live" /\ Tracked(a)
    /\ run[owner[a]].state = "starting" /\ ~run[owner[a]].stop /\ ~run[owner[a]].startup
    /\ current = owner[a]
    /\ run' = [run EXCEPT ![owner[a]].state = "running"]
    /\ UNCHANGED <<row, queue, current, closing, registered, launches, worker, faults, recovering>>

\* waitForRuntimeReady: it reports a failure, or the time is over.
StartupFails(a) ==
    /\ Fault
    /\ worker[a] = "live" /\ Tracked(a)
    /\ run[owner[a]].state = "starting" /\ ~run[owner[a]].stop /\ ~run[owner[a]].startup
    /\ current = owner[a]
    /\ run' = [run EXCEPT ![owner[a]].startup = TRUE]
    /\ queue' = Append(queue, Op("startup", a, a, "failed"))
    /\ UNCHANGED <<row, current, closing, registered, launches, worker, recovering>>

\* The worker accepted a pause or a resumption, and the host records it.
\* MaxPendingControls bounds how many of these records wait at a time.
Control(a, s) ==
    /\ worker[a] = "live" /\ Tracked(a)
    /\ run[owner[a]].state = "running" /\ ~run[owner[a]].stop
    /\ Cardinality({k \in DOMAIN queue : queue[k].kind = "control"}) < MaxPendingControls
    /\ queue' = Append(queue, Op("control", owner[a], a, s))
    /\ UNCHANGED <<row, host, launches, worker, faults, recovering>>

\* The thread ends: it has a result, it failed or it was told to stop.
Exit(a) ==
    /\ worker[a] \in {"live", "stopping"}
    /\ worker' = [worker EXCEPT ![a] = "exited"]
    /\ IF Tracked(a)
       THEN /\ UNCHANGED registered
            /\ IF current # owner[a] THEN UNCHANGED run
               ELSE run' = [run EXCEPT ![owner[a]] = [@ EXCEPT !.worker = Nobody, !.inspecting = TRUE]]
       ELSE registered' = FALSE /\ UNCHANGED run
    /\ UNCHANGED <<row, queue, current, closing, launches, faults, recovering>>

\* inspectAppServerSessionCompletion
Results == {"completed", "recoverable", "fatal"}

\* Mutant: one recovery too many.
OutcomeOneMore(ro, result) ==
    IF ro.startup THEN "failed" ELSE
    IF ro.stop THEN "stopped" ELSE
    IF result = "completed" THEN "completed" ELSE
    IF result = "recoverable" /\ ro.recoveries <= MaxRecoveries THEN "recover" ELSE "failed"
Outcome(ro, result) ==
    IF ro.startup THEN "failed" ELSE
    IF ro.stop THEN "stopped" ELSE
    IF result = "completed" THEN "completed" ELSE
    IF result = "recoverable" /\ ro.recoveries < MaxRecoveries THEN "recover" ELSE "failed"

\* The rest of handleSessionExit, after the capture was read.
Inspected(r, result) ==
    LET over == [run[r] EXCEPT !.inspecting = FALSE]
        outcome == Outcome(run[r], result)
    IN  /\ run[r].inspecting
        /\ registered' = FALSE
        /\ IF current # r
           THEN run' = [run EXCEPT ![r] = over] /\ UNCHANGED closing
           ELSE IF outcome = "recover"
           THEN /\ run' = [run EXCEPT ![r] = [over EXCEPT !.timer = TRUE, !.recoveries = @ + 1]]
                /\ UNCHANGED closing
           ELSE /\ run' = [run EXCEPT ![r] = Finished(over, outcome)]
                /\ closing' = closing \union {FinalRecord(r, run[r], outcome)}
        /\ UNCHANGED <<row, queue, current, launches, worker, faults, recovering>>

-----------------------------------------------------------------------------
(* The user, the final record and the host process.                        *)

\* Mutant: a runtime that has no worker at the moment is left to its recovery.
StopNeedsWorker(r) ==
    /\ current = r /\ Alive(r)
    /\ queue' = IF run[r].stop THEN queue
                ELSE Append(queue, Op("control", r, run[r].attempt, "stopped"))
    /\ run' = [run EXCEPT ![r].stop = TRUE]
    /\ worker' = IF run[r].worker = Nobody THEN worker
                 ELSE [worker EXCEPT ![run[r].worker] = "stopping"]
    /\ UNCHANGED <<row, current, closing, registered, launches, faults, recovering>>
\* requestRuntimeStop
Stop(r) ==
    /\ current = r /\ Alive(r)
    /\ queue' = IF run[r].stop THEN queue
                ELSE Append(queue, Op("control", r, run[r].attempt, "stopped"))
    /\ IF run[r].worker = Nobody
       THEN /\ run' = [run EXCEPT ![r] = Finished([@ EXCEPT !.stop = TRUE], "stopped")]
            /\ closing' = closing \union {FinalRecord(r, run[r], "stopped")}
            /\ UNCHANGED worker
       ELSE /\ run' = [run EXCEPT ![r].stop = TRUE]
            /\ worker' = [worker EXCEPT ![run[r].worker] = "stopping"]
            /\ UNCHANGED closing
    /\ UNCHANGED <<row, current, registered, launches, faults, recovering>>

\* stopSession of a runtime at its end takes it out of the map.
Forget ==
    /\ current # Nobody /\ ~Alive(current)
    /\ current' = Nobody
    /\ UNCHANGED <<row, queue, run, closing, registered, launches, worker, faults, recovering>>

\* recordSessionTerminalState, after the target of the session was released.
Released(f) ==
    /\ f \in closing
    /\ closing' = closing \ {f}
    /\ queue' = Append(queue, Op("last", f.for, f.attempt, f.state))
    /\ UNCHANGED <<row, current, run, registered, launches, worker, faults, recovering>>

\* The race of recordSessionTerminalState against its time limit is lost.
PersistenceTimesOut(r) ==
    /\ Fault
    /\ run[r].persisting
    /\ run' = [run EXCEPT ![r].persisting = FALSE]
    /\ UNCHANGED <<row, queue, current, closing, registered, launches, worker, recovering>>

\* The host process ends: close(), or a crash.
Crash ==
    /\ Fault
    /\ queue' = << >> /\ closing' = {} /\ registered' = FALSE /\ current' = Nobody
    /\ run' = [r \in Attempts |-> NoRun]
    /\ task' = [a \in Attempts |-> IF task[a] = "none" THEN "none" ELSE "over"]
    /\ worker' = [a \in Attempts |-> IF worker[a] = "none" THEN "none" ELSE "exited"]
    /\ recovering' = TRUE
    /\ UNCHANGED <<row, owner, origin>>

\* recoverInterruptedSessions of the next process: the session is paused, and
\* resumed from its interrupted attempt.
Restart ==
    /\ recovering
    /\ recovering' = FALSE
    /\ IF status = "active"
       THEN \E a, last \in Attempts :
            /\ attempt[last] = "active" /\ \A b \in Attempts : attempt[b] = "active" => b <= last
            /\ status' = "paused"
            /\ attempt' = [b \in Attempts |-> IF attempt[b] = "active" THEN "paused" ELSE attempt[b]]
            /\ Begins(a, a, "resume", "storing")
            /\ queue' = Append(queue, Op("get", a, last, "paused"))
       ELSE UNCHANGED <<row, queue, launches>>
    /\ UNCHANGED <<host, worker, faults>>

-----------------------------------------------------------------------------
(* Operations on the row, and what their callers do next.                  *)

\* prepareSessionRecovery: an active session is paused first.
Get(op) ==
    /\ op.kind = "get"
    /\ IF status = "active"
       THEN queue' = Append(Tail(queue), [op EXCEPT !.kind = "pause"]) /\ UNCHANGED task
       ELSE queue' = Tail(queue) /\ task' = [task EXCEPT ![op.for] = "preparing"]
    /\ UNCHANGED <<row, run, closing, worker>>

Pause(op) ==
    /\ op.kind = "pause"
    /\ Transition("paused", op.attempt)
    /\ queue' = Tail(queue)
    /\ task' = [task EXCEPT ![op.for] = "preparing"]
    /\ UNCHANGED <<run, closing, worker>>

\* ensureCanonicalSession: a new row, or a new attempt in the row there is.
Look(op) ==
    /\ op.kind = "look"
    /\ queue' = Append(Tail(queue),
           [op EXCEPT !.kind = IF status = "none" THEN "create" ELSE "begin"])
    /\ UNCHANGED <<row, run, closing, task, worker>>

Create(op) ==
    /\ op.kind = "create"
    /\ IF status = "none"
       THEN /\ status' = "active"
            /\ attempt' = [attempt EXCEPT ![op.attempt] = "active"]
            /\ task' = [task EXCEPT ![op.for] = "stored"]
            /\ queue' = Tail(queue)
       ELSE \* the row exists meanwhile
            /\ task' = [task EXCEPT ![op.for] = "over"]
            /\ queue' = Tail(queue)
            /\ UNCHANGED row
    /\ UNCHANGED <<run, closing, worker>>

\* beginAttempt refuses an active session.
Begin(op) ==
    /\ op.kind = "begin"
    /\ IF status = "active"
       THEN /\ task' = [task EXCEPT ![op.for] = "over"]
            /\ queue' = IF run[owner[op.for]].state = "none" THEN Tail(queue)
                        ELSE Append(Tail(queue),
                                 Op("failure", op.for, run[owner[op.for]].attempt, "failed"))
            /\ UNCHANGED row
       ELSE /\ status' = "active"
            /\ attempt' = [attempt EXCEPT ![op.attempt] = "active"]
            /\ queue' = Append(Tail(queue), [op EXCEPT !.kind = "activate"])
            /\ UNCHANGED task
    /\ UNCHANGED <<run, closing, worker>>

Activate(op) ==
    /\ op.kind = "activate"
    /\ Transition("active", op.attempt)
    /\ queue' = Tail(queue)
    /\ task' = [task EXCEPT ![op.for] = "stored"]
    /\ UNCHANGED <<run, closing, worker>>

\* recordSessionControlState
RecordControl(op) ==
    /\ op.kind = "control"
    /\ Transition(op.state, op.attempt)
    /\ queue' = Tail(queue)
    /\ UNCHANGED <<run, closing, task, worker>>

\* recordSessionLaunchFailure of a worker that did not become ready, which is then stopped.
RecordStartupFailure(op) ==
    /\ op.kind = "startup"
    /\ Transition("failed", op.attempt)
    /\ worker' = [worker EXCEPT ![op.for] = IF @ = "live" THEN "stopping" ELSE @]
    /\ queue' = Tail(queue)
    /\ UNCHANGED <<run, closing, task>>

\* recordSessionLaunchFailure of a launch, and the final record after it.
RecordLaunchFailure(op) ==
    LET r == owner[op.for]
        end == IF origin[op.for] = "recover" /\ run[r].stop THEN "stopped" ELSE "failed"
    IN  /\ op.kind = "failure"
        /\ Transition("failed", op.attempt)
        /\ run' = IF origin[op.for] = "start" THEN run
                  ELSE [run EXCEPT ![r] = Finished(@, end)]
        /\ closing' = closing \union {FinalRecord(r, run[r], end)}
        /\ queue' = Tail(queue)
        /\ UNCHANGED <<task, worker>>

\* recordSessionTerminalState: a session that is at an end stays as it is.
Last(op) ==
    /\ op.kind = "last"
    /\ IF status \in Ended
       THEN queue' = Tail(queue) /\ run' = [run EXCEPT ![op.for].persisting = FALSE]
       ELSE queue' = Append(Tail(queue), [op EXCEPT !.kind = "settle"]) /\ UNCHANGED run
    /\ UNCHANGED <<row, closing, task, worker>>

Settle(op) ==
    /\ op.kind = "settle"
    /\ Transition(op.state, op.attempt)
    /\ run' = [run EXCEPT ![op.for].persisting = FALSE]
    /\ queue' = Tail(queue)
    /\ UNCHANGED <<closing, task, worker>>

Execute ==
    /\ queue # << >>
    /\ LET op == Head(queue)
       IN  \/ Get(op) \/ Pause(op) \/ Look(op) \/ Create(op) \/ Begin(op) \/ Activate(op)
           \/ RecordControl(op) \/ RecordStartupFailure(op) \/ RecordLaunchFailure(op)
           \/ Last(op) \/ Settle(op)
    /\ UNCHANGED <<current, registered, owner, origin, faults, recovering>>

-----------------------------------------------------------------------------
Next ==
    \/ \E a \in Attempts :
           \/ Start(a) \/ Prepared(a) \/ PrepareFails(a) \/ Stored(a)
           \/ Launch(a) \/ LaunchRefused(a) \/ SpawnFails(a) \/ Online(a)
           \/ Ready(a) \/ StartupFails(a) \/ Exit(a)
           \/ \E s \in Controls : Control(a, s)
    \/ \E r \in Attempts : RecoverSession(r) \/ Stop(r) \/ PersistenceTimesOut(r)
                         \/ \E result \in Results : Inspected(r, result)
    \/ \E f \in closing : Released(f)
    \/ Forget \/ Crash \/ Restart \/ Execute

Spec == Init /\ [][Next]_vars

\* A worker that was told to stop is terminated after three seconds, and the
\* host goes on with what it began; nothing makes it start, stop or crash.
Fairness ==
    /\ WF_vars(Execute)
    /\ \A a \in Attempts :
           WF_vars(Online(a) \/ SpawnFails(a)) /\ WF_vars(worker[a] = "stopping" /\ Exit(a))
    /\ \A r \in Attempts : WF_vars(\E result \in Results : Inspected(r, result))

FairSpec == Spec /\ Fairness

-----------------------------------------------------------------------------
\* The row, the runtimes, the launches and the workers of the session.
Callers == {Nobody} \union Attempts
Records == [state : {"none", "starting", "running"} \union Ended, stop : BOOLEAN,
            attempt : Callers, worker : Callers,
            inspecting : BOOLEAN, timer : BOOLEAN,
            recoveries : 0..MaxRecoveries, startup : BOOLEAN, persisting : BOOLEAN]
Kinds == {"get", "pause", "look", "create", "begin", "activate", "control", "startup",
          "failure", "last", "settle"}
Ops == [kind : Kinds, for : Callers, attempt : Callers, state : Statuses]
TypeOK ==
    /\ status \in Statuses
    /\ attempt \in [Attempts -> Statuses]
    /\ queue \in Seq(Ops)
    /\ current \in Callers
    /\ run \in [Attempts -> Records]
    /\ task \in [Attempts -> {"none", "preparing", "storing", "stored", "launching", "spawning",
                              "over"}]
    /\ owner \in [Attempts -> Callers]
    /\ origin \in [Attempts -> {"none", "start", "recover", "resume"}]
    /\ worker \in [Attempts -> {"none", "spawning", "live", "stopping", "exited"}]
    /\ closing \subseteq [for : Callers, attempt : Callers, state : Ended]
    /\ registered \in BOOLEAN /\ recovering \in BOOLEAN
    /\ faults \in 0..MaxFaults

\* At any time at most one worker of the session has not been told to stop, and
\* it is the worker of the runtime in the map: whatever starts, stops, recoveries
\* and restarts met in between.
WorkersAreOwned ==
    \A a \in Attempts : worker[a] = "live" =>
        /\ current = owner[a] /\ run[current].worker = a /\ Alive(current)
        /\ \A b \in Attempts \ {a} : worker[b] # "live"

\* A runtime that was stopped reaches an end, or its process does.
StopEnds == \A r \in Attempts : run[r].stop ~> ~run[r].stop \/ ~Alive(r)
=============================================================================
