---------------------------- MODULE ResearchTrack ----------------------------
(***************************************************************************)
(* The research track of one workspace: its rows (research-track.ts), the  *)
(* scan of the app-server that schedules its epochs and starts their       *)
(* workers (appServer.ts, hostService.ts), and the operator.               *)
(*                                                                         *)
(* Operations on the rows are synchronous and read them afresh.  The scan  *)
(* awaits the context of the workspace, the row of a session, and the      *)
(* start of a worker, and goes on with the track it read before.           *)
(*                                                                         *)
(* Every epoch of a track runs in the session whose id is that of the      *)
(* track, so a session stands for its track and its track for it.  Only    *)
(* the scan starts epochs.  The operator may continue such a session when  *)
(* it is inactive, and a restart recovers it when it was active: its       *)
(* worker then is that of an ordinary session, for what the host keeps of  *)
(* a launch is not its mode (GuardianEnabledForTrackSession below).        *)
(***************************************************************************)
EXTENDS Naturals, FiniteSets

CONSTANTS
    Surfaces,    \* surfaces that the map of the workspace may show
    NoSurface,
    MaxTracks,   \* bound: passes that are started
    MaxLaunches, \* bound: workers that are started
    MaxAsks,     \* bound: requests of the operator
    MaxFaults    \* bound: reads, starts, checkpoints and records that fail or time out, and
                 \* ends of the host process

ASSUME TrackAssumption ==
    /\ NoSurface \notin Surfaces
    /\ MaxTracks \in Nat /\ MaxLaunches \in Nat /\ MaxAsks \in Nat /\ MaxFaults \in Nat

Tracks == 1..MaxTracks
NoTrack == 0
NoSession == 0
Statuses == {"running", "paused", "waiting", "complete", "stopped"}
WorkStatuses == {"none", "open", "active", "blocked", "complete", "excluded"}

VARIABLES
    store,    \* the rows of the track and of its surfaces
    row,      \* the status of the row of a session
    runtime,  \* the runtimes of the map sessions
    records,  \* final records on their way to the rows
    scan,     \* where scanDueResearchTracks is, and the track it has read
    continuing,\* sessions whose continuation is prepared and not yet started
    launches, asks, faults  \* counters for the bounds

counters == <<launches, asks, faults>>
vars == <<store, row, runtime, records, scan, continuing, counters>>

NoStore == [id |-> NoTrack, status |-> "stopped", session |-> NoSession, surface |-> NoSurface,
            orphaned |-> FALSE, work |-> [x \in Surfaces |-> "none"]]
NoRuntime == [state |-> "none", launch |-> 0, epoch |-> FALSE]
Idle == [phase |-> "idle", todo |-> {}, active |-> {}, id |-> NoTrack, status |-> "stopped",
         session |-> NoSession, surface |-> NoSurface]

Init ==
    /\ store = NoStore
    /\ row = [s \in Tracks |-> "none"]
    /\ runtime = [s \in Tracks |-> NoRuntime]
    /\ records = {}
    /\ scan = Idle
    /\ continuing = {}
    /\ launches = 0 /\ asks = 0 /\ faults = 0

Works(s) == runtime[s].state \in {"live", "stopping"}
WorksOnEpoch(s) == Works(s) /\ runtime[s].epoch

\* The sessions with a worker or with a final record on its way, and whether one of them
\* runs an epoch
ActiveSessions == {s \in Tracks : runtime[s].state # "none"}
Busy == \E s \in ActiveSessions : runtime[s].epoch
Fault == faults < MaxFaults /\ faults' = faults + 1

\* The map of the workspace, as an await returns it: the eligible surfaces, and those of
\* them with a progress blocker.
Maps == {map \in [visible : SUBSET Surfaces, blocked : SUBSET Surfaces] :
             map.blocked \subseteq map.visible}

-----------------------------------------------------------------------------
(* ResearchTrackStore.  Each operation maps the rows st to those after it. *)

\* pauseWithError; orphaned says that the error is that of an epoch without a worker.
PausedWith(st, orphaned) ==
    IF st.id = NoTrack THEN st ELSE [st EXCEPT !.status = "paused", !.orphaned = orphaned]
Paused(st) == PausedWith(st, FALSE)

\* The work on a surface, as a synchronization with the map leaves it.
Seen(st, map, x) ==
    IF x \notin map.visible THEN IF st.work[x] = "none" THEN "none" ELSE "excluded"
    ELSE IF st.work[x] = "none" THEN "open"
    ELSE IF x \in map.blocked THEN "blocked"
    ELSE IF st.work[x] \in {"excluded", "blocked"} THEN "open" ELSE st.work[x]

Synced(st, map) ==
    LET new == \E x \in map.visible : st.work[x] = "none"
    IN  IF st.id = NoTrack THEN st
        ELSE [st EXCEPT !.work = [x \in Surfaces |-> Seen(st, map, x)],
                        !.status = IF new /\ @ = "complete" THEN "paused" ELSE @]

\* The work on the assigned surface, given up without a checkpoint.
Deferred(st) == [x \in Surfaces |->
    IF x = st.surface /\ st.work[x] = "active" THEN "open" ELSE st.work[x]]

\* Mutant: the surface of the epoch is forgotten and stays active.
FinishedRowOnly(st, s) ==
    IF s = NoSession \/ st.session # s THEN st
    ELSE [st EXCEPT !.session = NoSession, !.surface = NoSurface]
\* finishEpoch
Finished(st, s) ==
    IF s = NoSession \/ st.session # s THEN st
    ELSE [st EXCEPT !.session = NoSession, !.surface = NoSurface, !.work = Deferred(st)]

Started(id, map) ==
    [id |-> id, status |-> "running", session |-> NoSession, surface |-> NoSurface,
     orphaned |-> FALSE, work |-> [x \in Surfaces |-> IF x \in map.visible THEN "open" ELSE "none"]]

Stopped(st) == [st EXCEPT !.status = "stopped", !.session = NoSession, !.surface = NoSurface,
                          !.orphaned = FALSE, !.work = Deferred(st)]
Resumed(st) == [st EXCEPT !.status = "running", !.orphaned = FALSE]

\* The surfaces that reserveNext may choose from, cooled or not.
Actionable(st, map) ==
    {x \in map.visible : st.work[x] \notin {"none", "complete", "blocked", "excluded"}}

\* reserveNext with s as its session: the rows after it.  It assigns a surface, or finds
\* all of them cooling, or has none left to choose.
ReservedNext(st, s, map) ==
    LET now == Synced(st, map)
        assigned == {[now EXCEPT !.session = s, !.surface = x, !.work[x] = "active"] :
                         x \in Actionable(now, map)}
        done == \A x \in Surfaces : now.work[x] \in {"none", "complete", "excluded"}
    IN  IF now.status # "running" \/ now.session # NoSession THEN {now}
        ELSE IF assigned = {} THEN {[now EXCEPT !.status = IF done THEN "complete" ELSE "waiting"]}
        ELSE assigned \union {now}

\* Mutant: reserveWorkersOnly trusts its caller about the status of the track.
MayReserveIfFree(st) == st.id # NoTrack /\ st.session = NoSession
\* The check of reserveWorkersOnly
MayReserveWorkers(st) ==
    st.id # NoTrack /\ st.session = NoSession /\ st.status \in {"running", "waiting", "complete"}
ReservedWorkers(st, s) == [st EXCEPT !.status = "running", !.session = s, !.surface = NoSurface]

\* workspaceResearchTrack("status"), after its await; the authorized scope may have changed.
Inspected(st, map, scope) ==
    LET now == Synced(st, map)
    IN  IF now.status = "running" /\ ~scope THEN Paused(now)
        ELSE IF now.status = "running" /\ now.surface # NoSurface /\ now.surface \notin map.visible
        THEN Finished(now, now.session) ELSE now

\* recordResearchTrackEpochLaunchFailure
LaunchFailed(st, s) == IF s # NoSession /\ st.session = s THEN Paused(Finished(st, s)) ELSE st

\* The catch around the scheduling of a workspace
Caught(st) == Paused(Finished(st, st.session))

-----------------------------------------------------------------------------
(* Sessions of the host; module Sessions has them in detail.               *)

\* stopSession: a runtime that works is told to stop, one that has ended is forgotten.
Stopping(s) ==
    IF s = NoSession THEN runtime
    ELSE IF runtime[s].state = "none" THEN runtime
    ELSE [runtime EXCEPT ![s] = IF Works(s) THEN [@ EXCEPT !.state = "stopping"] ELSE NoRuntime]

\* The worker, or the request to stop it, ends the row of its session.
RowEnds(s) ==
    /\ Works(s)
    /\ row[s] = "active"
    /\ \E state \in {"ended", "failed"} :
          /\ runtime[s].state = "stopping" => state = "ended"
          /\ row' = [row EXCEPT ![s] = state]
    /\ UNCHANGED <<store, runtime, records, scan, continuing, counters>>

\* track.checkpoint.  It knows the epoch by the session and the surface.
Checkpoint(s) ==
    /\ Works(s)
    /\ store.session = s /\ store.surface # NoSurface
    /\ \E state \in {"open", "blocked", "complete", "excluded"} :
          store' = [store EXCEPT !.work[store.surface] = state]
    /\ UNCHANGED <<row, runtime, records, scan, continuing, counters>>

\* An error of the database in a checkpoint pauses the track.
CheckpointFails(s) ==
    /\ Fault
    /\ Works(s)
    /\ store' = Paused(store)
    /\ UNCHANGED <<row, runtime, records, scan, continuing, launches, asks>>

\* The worker exits, and finishRuntime sends the final record.
WorkerEnds(s) ==
    /\ Works(s)
    /\ \E failed \in BOOLEAN :
          /\ runtime[s].state = "stopping" => ~failed
          /\ records' = records \union
                 {[session |-> s, launch |-> runtime[s].launch, epoch |-> runtime[s].epoch,
                   failed |-> failed]}
    /\ runtime' = [runtime EXCEPT ![s].state = "recording"]
    /\ UNCHANGED <<store, row, scan, continuing, counters>>

IsOwn(r) ==
    runtime[r.session] = [state |-> "recording", launch |-> r.launch, epoch |-> r.epoch]
Settled(r) == IF IsOwn(r) THEN [runtime EXCEPT ![r.session] = NoRuntime] ELSE runtime

\* recordSessionTerminalState of the host: it ends the row of the session unless that has
\* ended and, of an epoch, the epoch that runs in this session, whichever it is.
Record(r) ==
    LET done == Finished(store, r.session)
    IN  /\ row' = [row EXCEPT ![r.session] =
               IF @ # "active" THEN @ ELSE IF r.failed THEN "failed" ELSE "ended"]
        /\ store' = IF ~r.epoch THEN store
                    ELSE IF r.failed /\ store.session = r.session THEN Paused(done) ELSE done
        /\ runtime' = Settled(r)
        /\ records' = records \ {r}
        /\ UNCHANGED <<scan, continuing, counters>>

\* The record fails, or takes too long and goes on in the background.
RecordFails(r) ==
    /\ Fault
    /\ IsOwn(r)
    /\ store' = IF r.epoch THEN LaunchFailed(store, r.session) ELSE store
    /\ runtime' = Settled(r)
    /\ records' \in {records, records \ {r}}
    /\ UNCHANGED <<row, scan, continuing, launches, asks>>

-----------------------------------------------------------------------------
(* scanDueResearchTracks                                                   *)

Read(phase) == [phase |-> phase, todo |-> {}, active |-> ActiveSessions,
                id |-> store.id, status |-> store.status,
                session |-> store.session, surface |-> store.surface]

ScanStarts ==
    /\ scan.phase = "idle"
    /\ scan' = [Idle EXCEPT !.phase = "checking", !.todo = {s \in Tracks : WorksOnEpoch(s)}]
    /\ UNCHANGED <<store, row, runtime, records, continuing, counters>>

\* An epoch that has run for 45 minutes is stopped.
Rotate(s) ==
    /\ scan.phase = "checking" /\ s \in scan.todo
    /\ runtime' = IF WorksOnEpoch(s) THEN Stopping(s) ELSE runtime
    /\ scan' = [scan EXCEPT !.todo = @ \ {s}]
    /\ UNCHANGED <<store, row, records, continuing, counters>>

\* Mutant: a running track is taken for a reason to keep any worker.
CheckRuntimeByStatus(s) ==
    /\ scan.phase = "checking" /\ s \in scan.todo
    /\ \E map \in Maps, scope \in BOOLEAN :
          LET now == Inspected(store, map, scope)
          IN  /\ store' = now
              /\ runtime' = IF now.status = "running" THEN runtime ELSE Stopping(s)
    /\ scan' = [scan EXCEPT !.todo = @ \ {s}]
    /\ UNCHANGED <<row, records, continuing, counters>>
\* The worker is stopped unless the track is running in its session.  The await of the
\* status lies before this step, and the worker may have ended meanwhile.
CheckRuntime(s) ==
    /\ scan.phase = "checking" /\ s \in scan.todo
    /\ \E map \in Maps, scope \in BOOLEAN :
          LET now == Inspected(store, map, scope)
          IN  /\ store' = now
              /\ runtime' = IF now.status = "running" /\ now.session = s THEN runtime
                            ELSE Stopping(s)
    /\ scan' = [scan EXCEPT !.todo = @ \ {s}]
    /\ UNCHANGED <<row, records, continuing, counters>>

CheckFails(s) ==
    /\ Fault
    /\ scan.phase = "checking" /\ s \in scan.todo
    /\ scan' = [scan EXCEPT !.todo = @ \ {s}]
    /\ UNCHANGED <<store, row, runtime, records, continuing, launches, asks>>

\* recoveringPriorOrphan
IsOrphanPause(st) == st.status = "paused" /\ st.orphaned /\ st.session = NoSession

\* Mutant: a worker that was told to stop does not keep its workspace busy.
SchedulableBesideStopping ==
    /\ store.id # NoTrack
    /\ store.status \in {"running", "waiting", "complete"} \/ IsOrphanPause(store)
    /\ ~\E s \in Tracks : runtime[s].state = "live" /\ runtime[s].epoch
Schedulable ==
    /\ store.id # NoTrack
    /\ store.status \in {"running", "waiting", "complete"} \/ IsOrphanPause(store)
    /\ ~Busy

\* guardianEnabledForTrackSession asks the stored descriptor of a session for the mode of a
\* research track.  restartLaunchDescriptor (hostService.ts 2700-2739) stores no mode: the
\* answer is no, whatever the Guardian setting of the track is.
GuardianEnabledForTrackSession == FALSE

\* dueResearchTracks, up to the await of the context
Due ==
    /\ scan.phase = "checking" /\ scan.todo = {}
    /\ scan' = IF Schedulable THEN Read("context") ELSE Idle
    /\ UNCHANGED <<store, row, runtime, records, continuing, counters>>

\* The memory of the workspace is disabled.
DueWithoutMemory ==
    /\ Schedulable
    /\ scan.phase = "checking" /\ scan.todo = {}
    /\ store' = Paused(store)
    /\ scan' = Idle
    /\ UNCHANGED <<row, runtime, records, continuing, counters>>

\* The reservation for the track id, found with a status before, of the rows st.  Workers
\* for the findings of the track may be reserved beside a surface or without one, and their
\* own reservation may fail.
Reserves(id, status, st) ==
    \E map \in Maps, workers \in BOOLEAN :
    \E next \in IF status = "running" THEN ReservedNext(st, id, map) ELSE {st} :
        LET assigned == st.session = NoSession /\ next.session # NoSession
            only == ~assigned /\ workers
            begins == /\ launches < MaxLaunches /\ launches' = launches + 1
                      /\ scan' = [Idle EXCEPT !.phase = "launching", !.session = id]
            ends == scan' = Idle /\ UNCHANGED launches
        IN  \/ store' = Paused(st) /\ ends
            \/ assigned /\ store' = next /\ begins
            \/ only /\ MayReserveWorkers(next) /\ store' = ReservedWorkers(next, id) /\ begins
            \/ only /\ ~MayReserveWorkers(next) /\ store' = Caught(next) /\ ends
            \/ ~assigned /\ ~workers /\ store' = next /\ ends

\* The context has come: the track is paused, ...
ContextPauses ==
    /\ scan.phase = "context"
    /\ store' = Paused(store)
    /\ scan' = Idle
    /\ UNCHANGED <<row, runtime, records, continuing, counters>>

\* ... or its surface has left the map, ...
SurfaceLeft ==
    /\ scan.phase = "context"
    /\ scan.session # NoSession /\ scan.surface # NoSurface
    /\ \E map \in Maps :
          /\ scan.surface \notin map.visible
          /\ store' = Finished(Synced(store, map), scan.session)
    /\ scan' = Idle
    /\ UNCHANGED <<row, runtime, records, continuing, counters>>

\* ... or it is paused because of an orphan, whose session is looked up: with a Guardian the
\* track would be resumed, ...
ContextOfOrphan ==
    /\ scan.phase = "context"
    /\ scan.status = "paused"
    /\ store' = IF GuardianEnabledForTrackSession /\ store.status \in {"paused", "waiting"}
                THEN Resumed(store) ELSE store
    /\ scan' = Idle
    /\ UNCHANGED <<row, runtime, records, continuing, counters>>

\* ... or its session had a worker when the scan came here, ...
ContextSkips ==
    /\ scan.phase = "context"
    /\ scan.session \in scan.active
    /\ scan' = Idle
    /\ UNCHANGED <<store, row, runtime, records, continuing, counters>>

\* ... or its session is looked up, ...
ContextLooks ==
    /\ scan.phase = "context"
    /\ scan.session # NoSession /\ scan.session \notin scan.active
    /\ scan' = [Idle EXCEPT !.phase = "lookup", !.session = scan.session]
    /\ UNCHANGED <<store, row, runtime, records, continuing, counters>>

\* ... or an epoch is reserved.
ContextReserves ==
    /\ scan.phase = "context"
    /\ scan.session = NoSession /\ scan.status # "paused"
    /\ Reserves(scan.id, scan.status, store)
    /\ UNCHANGED <<row, runtime, records, continuing, asks, faults>>

ContextFails ==
    /\ Fault
    /\ scan.phase = "context"
    /\ store' = Caught(store)
    /\ scan' = Idle
    /\ UNCHANGED <<row, runtime, records, continuing, launches, asks>>

\* The rest of the scan after the assignment was looked at; the rows are read again.
Proceeds(st) ==
    IF st.session # NoSession \/ st.status # "running"
    THEN store' = st /\ scan' = Idle /\ UNCHANGED launches
    ELSE Reserves(st.id, st.status, st)

\* Mutant: the epoch of a session that has ended is left as it is.
LookupEndedOnly ==
    /\ scan.phase = "lookup"
    /\ row[scan.session] = "ended"
    /\ Proceeds(store)
    /\ UNCHANGED <<row, runtime, records, continuing, asks, faults>>
\* The row of the assigned session has come: it has ended, ...
LookupEnded ==
    /\ scan.phase = "lookup"
    /\ row[scan.session] = "ended"
    /\ Proceeds(Finished(store, scan.session))
    /\ UNCHANGED <<row, runtime, records, continuing, asks, faults>>

\* ... it has failed, or there has been none for two minutes, or it has been active for as
\* long without a sign of life: an orphan, that no Guardian reviews, ...
LookupPauses ==
    /\ scan.phase = "lookup"
    /\ row[scan.session] # "ended"
    /\ ~GuardianEnabledForTrackSession
    /\ store' = PausedWith(Finished(store, scan.session), row[scan.session] = "active")
    /\ scan' = Idle
    /\ UNCHANGED <<row, runtime, records, continuing, counters>>

\* ... or the two minutes are not over.
LookupWaits ==
    /\ scan.phase = "lookup"
    /\ row[scan.session] \in {"none", "active"}
    /\ Proceeds(store)
    /\ UNCHANGED <<row, runtime, records, continuing, asks, faults>>

\* The row could not be read, which counts as a session that does not exist.
LookupFails ==
    /\ Fault
    /\ scan.phase = "lookup"
    /\ \/ store' = Paused(Finished(store, scan.session)) /\ scan' = Idle /\ UNCHANGED launches
       \/ Proceeds(store)
    /\ UNCHANGED <<row, runtime, records, continuing, asks>>

\* prepareSession asks for the surface that is assigned to the session.
HasAssignment(s) == store.status = "running" /\ store.session = s /\ store.surface # NoSurface

\* A session with a worker, or a final record on its way, takes no other: startSession
\* refuses with status 409, before the session is prepared and again after it.
IsFree(s) == runtime[s].state = "none"

PrepareEpoch ==
    LET s == scan.session
    IN  /\ scan.phase = "launching"
        /\ IF IsFree(s) /\ HasAssignment(s)
           THEN /\ row' = [row EXCEPT ![s] = "active"]
                /\ scan' = [scan EXCEPT !.phase = "starting"]
                /\ UNCHANGED store
           ELSE /\ store' = LaunchFailed(store, s)
                /\ scan' = Idle
                /\ UNCHANGED row
        /\ UNCHANGED <<runtime, records, continuing, counters>>

StartEpoch ==
    LET s == scan.session
    IN  /\ scan.phase = "starting"
        /\ IF IsFree(s)
           THEN /\ runtime' = [runtime EXCEPT ![s] =
                                   [state |-> "live", launch |-> launches, epoch |-> TRUE]]
                /\ UNCHANGED store
           ELSE /\ store' = LaunchFailed(store, s)
                /\ UNCHANGED runtime
        /\ scan' = Idle
        /\ UNCHANGED <<row, records, continuing, counters>>

\* Mutant: the row is set to a status that no session has.
LaunchFailsPending ==
    /\ Fault
    /\ scan.phase \in {"launching", "starting"}
    /\ row' = [row EXCEPT ![scan.session] = IF @ = "active" THEN "pending" ELSE @]
    /\ store' = LaunchFailed(store, scan.session)
    /\ scan' = Idle
    /\ UNCHANGED <<runtime, records, continuing, launches, asks>>
LaunchFails ==
    /\ Fault
    /\ scan.phase \in {"launching", "starting"}
    /\ row' = [row EXCEPT ![scan.session] = IF @ = "active" THEN "failed" ELSE @]
    /\ store' = LaunchFailed(store, scan.session)
    /\ scan' = Idle
    /\ UNCHANGED <<runtime, records, continuing, launches, asks>>

-----------------------------------------------------------------------------
(* The operator, time, and restarts.                                       *)

Ask == asks < MaxAsks /\ asks' = asks + 1

\* Only a track that has ended, and has no epoch left, gives way to a new pass; with a
\* changed scope a resumption starts one instead of a paused or waiting track.
Start ==
    /\ Ask
    /\ store.id < MaxTracks
    /\ store.status # "running"
    /\ store.session = NoSession \/ store.status = "stopped"
    /\ \E map \in Maps :
          map.visible # {} /\ store' = Started(store.id + 1, map)
    /\ UNCHANGED <<row, runtime, records, scan, continuing, launches, faults>>

Resume ==
    /\ Ask
    /\ store.status \in {"paused", "waiting"}
    /\ store' = Resumed(store)
    /\ UNCHANGED <<row, runtime, records, scan, continuing, launches, faults>>

Pause ==
    /\ Ask
    /\ \E map \in Maps, scope \in BOOLEAN :
          LET now == Inspected(store, map, scope)
          IN  /\ now.status = "running"
              /\ store' = Paused(now)
              /\ runtime' = Stopping(now.session)
    /\ UNCHANGED <<row, records, scan, continuing, launches, faults>>

Stop ==
    /\ Ask
    /\ store.id # NoTrack
    /\ \E map \in Maps, scope \in BOOLEAN :
          LET now == Inspected(store, map, scope)
          IN  store' = Stopped(now) /\ runtime' = Stopping(now.session)
    /\ UNCHANGED <<row, records, scan, continuing, launches, faults>>

StopSession(s) ==
    /\ Ask
    /\ runtime' = Stopping(s)
    /\ UNCHANGED <<store, row, records, scan, continuing, launches, faults>>

\* A client asks for the status.
Inspect ==
    /\ \E map \in Maps, scope \in BOOLEAN : store' = Inspected(store, map, scope)
    /\ UNCHANGED <<row, runtime, records, scan, continuing, counters>>

\* The operator continues an inactive session of a track.  Preparing it makes its row
\* active, without a look at the track, ...
Continue(s) ==
    /\ Ask
    /\ launches < MaxLaunches /\ launches' = launches + 1
    /\ s \notin continuing
    /\ IsFree(s) /\ row[s] \in {"ended", "failed"}
    /\ row' = [row EXCEPT ![s] = "active"]
    /\ continuing' = continuing \union {s}
    /\ UNCHANGED <<store, runtime, records, scan, faults>>

\* ... and its worker starts, unless the session has got another meanwhile, ...
StartContinuation(s) ==
    /\ s \in continuing
    /\ runtime' = IF ~IsFree(s) THEN runtime
                  ELSE [runtime EXCEPT ![s] =
                            [state |-> "live", launch |-> launches, epoch |-> FALSE]]
    /\ continuing' = continuing \ {s}
    /\ UNCHANGED <<store, row, records, scan, counters>>

\* ... or fails to.
ContinuationFails(s) ==
    /\ Fault
    /\ s \in continuing
    /\ row' = [row EXCEPT ![s] = IF @ = "active" THEN "failed" ELSE @]
    /\ continuing' = continuing \ {s}
    /\ UNCHANGED <<store, runtime, records, scan, launches, asks>>

\* The host ends and is started again: recoverInterruptedSessions starts workers for some of
\* the sessions with an active row.  It would close an epoch that has its checkpoint, and
\* ask for the assignment of the others, if their descriptors had a mode.
Restart ==
    /\ Fault
    /\ \E again \in SUBSET {s \in Tracks : row[s] = "active"} :
          runtime' = [s \in Tracks |->
              IF s \in again THEN [state |-> "live", launch |-> launches + 1, epoch |-> FALSE]
              ELSE NoRuntime]
    /\ launches' = launches + 1
    /\ records' = {}
    /\ scan' = Idle
    /\ continuing' = {}
    /\ UNCHANGED <<store, row, asks>>

-----------------------------------------------------------------------------

ScanStep ==
    \/ ScanStarts \/ Due
    \/ \E s \in Tracks : CheckRuntime(s) \/ Rotate(s)
    \/ DueWithoutMemory
    \/ ContextPauses \/ SurfaceLeft \/ ContextOfOrphan \/ ContextSkips
    \/ ContextLooks \/ ContextReserves
    \/ LookupEnded \/ LookupPauses \/ LookupWaits
    \/ PrepareEpoch \/ StartEpoch

ScanFails == (\E s \in Tracks : CheckFails(s)) \/ ContextFails \/ LookupFails \/ LaunchFails

Operator == Start \/ Resume \/ Pause \/ Stop \/ \E s \in Tracks : StopSession(s) \/ Continue(s)

Continuation(s) == StartContinuation(s) \/ ContinuationFails(s)

WorkerStep(s) == RowEnds(s) \/ Checkpoint(s) \/ CheckpointFails(s) \/ WorkerEnds(s)

Next ==
    \/ ScanStep \/ ScanFails
    \/ Operator \/ Inspect
    \/ \E s \in Tracks : WorkerStep(s) \/ Continuation(s)
    \/ \E r \in records : Record(r) \/ RecordFails(r)
    \/ Restart

Spec == Init /\ [][Next]_vars

\* The timer scans again and again, every await ends, a worker that is told to stop is
\* terminated.  An epoch that nobody works on is not looked up within the two minutes for
\* ever, which strong fairness of the other outcome says.
FairSpec ==
    /\ Spec
    /\ WF_vars(ScanStep)
    /\ WF_vars(\E r \in records : Record(r))
    /\ \A s \in Tracks : WF_vars(runtime[s].state = "stopping" /\ WorkerEnds(s))
    /\ SF_vars(LookupPauses)

-----------------------------------------------------------------------------
(* Properties                                                              *)

Phases == {"idle", "checking", "context", "lookup", "launching", "starting"}
RowStatuses == {"none", "active", "ended", "failed"}
MaxLaunch == MaxLaunches + MaxFaults
RuntimeStates == {"none", "live", "stopping", "recording"}

\* Rows, runtimes, records and the scan have their types, and the counters keep their bounds.
TypeOK ==
    /\ store \in [id : 0..MaxTracks, status : Statuses, session : 0..MaxTracks,
                  surface : Surfaces \union {NoSurface}, orphaned : BOOLEAN,
                  work : [Surfaces -> WorkStatuses]]
    /\ row \in [Tracks -> RowStatuses]
    /\ runtime \in [Tracks -> [state : RuntimeStates, launch : 0..MaxLaunch, epoch : BOOLEAN]]
    /\ records \subseteq [session : Tracks, launch : 0..MaxLaunch, epoch : BOOLEAN, failed : BOOLEAN]
    /\ scan \in [phase : Phases, todo : SUBSET Tracks, active : SUBSET Tracks,
                 id : 0..MaxTracks, status : Statuses,
                 session : 0..MaxTracks, surface : Surfaces \union {NoSurface}]
    /\ continuing \subseteq Tracks
    /\ launches \in 0..MaxLaunch /\ asks \in 0..MaxAsks /\ faults \in 0..MaxFaults

\* A surface is shown as being worked on only while an epoch is assigned to it: finishEpoch,
\* stop and start of ResearchTrackStore leave no surface active behind.
ActiveIsAssigned ==
    /\ \A x \in Surfaces : store.work[x] = "active" => store.surface = x
    /\ store.surface # NoSurface => store.session # NoSession

\* Two epochs never run side by side, although every pass has a session of its own, an epoch
\* can be stopped and another pass started while its worker still ends, sessions of the track
\* are continued and recovered meanwhile, and the scan goes on with what it has read
\* (busyWorkspaceIds, appServer.ts).
EpochsRunAlone == \A s, t \in Tracks : WorksOnEpoch(s) /\ WorksOnEpoch(t) => s = t

\* A track that is paused or stopped does not run again before the operator asks for it: no
\* scan that read it while it was running, no record of an epoch and no scan that takes up a
\* track whose epoch was orphaned sets it going (reserveNext and reserveWorkersOnly of
\* research-track.ts, dueResearchTracks of hostService.ts).
OnlyTheOperatorRestarts ==
    [][store.status \in {"paused", "stopped"} /\ store'.status = "running" => asks' # asks]_vars

IsReserved == store.status = "running" /\ store.session # NoSession

\* A reserved epoch gets its worker or is given up: whatever fails between the reservation,
\* the preparation, the worker and its final record, the track is not blocked for ever by an
\* epoch that nobody works on (dueResearchTracks of hostService.ts).
EpochsAreReleased == IsReserved ~> (~IsReserved \/ Works(store.session))

IsStray(s) == WorksOnEpoch(s) /\ ~(IsReserved /\ store.session = s)

\* The worker of an epoch that is not the one of the running track ends: one that was started
\* while the operator paused or stopped the track, or let another pass begin
\* (researchTrackStopCause).
StrayWorkersEnd == \A s \in Tracks : IsStray(s) ~> ~IsStray(s)

\* reserveWorkersOnly is there to "keep downstream finding work moving when no discovery
\* component is ready": an epoch that is still reserved when its session is prepared is not
\* refused.  prepareSession refuses those without a surface, and the track is paused.
ReservedEpochsArePrepared ==
    [][scan.phase = "launching" /\ IsReserved /\ store.session = scan.session
         /\ IsFree(scan.session) /\ scan'.phase = "idle" => faults' # faults]_vars
=============================================================================
