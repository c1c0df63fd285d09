------------------------- MODULE ResearchTrackProofs -------------------------
(***************************************************************************)
(* What holds of ResearchTrack for all surfaces and all bounds.  The       *)
(* operations on the rows come first: each keeps the rows sound, and none  *)
(* that the scan or a worker uses makes a track run that did not.          *)
(***************************************************************************)
EXTENDS ResearchTrack, TLAPS

Stores == [id : 0..MaxTracks, status : Statuses, session : 0..MaxTracks,
           surface : Surfaces \union {NoSurface}, orphaned : BOOLEAN,
           work : [Surfaces -> WorkStatuses]]

Sound(st) ==
    /\ st \in Stores
    /\ \A x \in Surfaces : st.work[x] = "active" => st.surface = x
    /\ st.surface # NoSurface => st.session # NoSession
    /\ st.id = NoTrack => st.status = "stopped"

\* An operation that takes st to next leaves a track that was held back as it was.
Held == {"paused", "stopped"}
Calm(st, next) == st.status \in Held => next.status \in Held

-----------------------------------------------------------------------------
(* Operations on the rows                                                  *)

\* An update of the rows that gives or takes an epoch keeps their types.
LEMMA Updates ==
    ASSUME NEW st \in Stores, NEW status \in Statuses, NEW s \in 0..MaxTracks,
           NEW x \in Surfaces \union {NoSurface}, NEW orphaned \in BOOLEAN,
           NEW work \in [Surfaces -> WorkStatuses]
    PROVE  [st EXCEPT !.status = status, !.session = s, !.surface = x, !.orphaned = orphaned,
                      !.work = work] \in Stores
  BY DEF Stores

\* Pausing keeps the rows sound, whatever the error.
LEMMA PausedWithIsSound ==
    ASSUME NEW st, Sound(st), NEW orphaned \in BOOLEAN
    PROVE  Sound(PausedWith(st, orphaned)) /\ Calm(st, PausedWith(st, orphaned))
  BY DEF Sound, Stores, Statuses, PausedWith, Calm, Held

LEMMA PausedIsSound ==
    ASSUME NEW st, Sound(st)
    PROVE  Sound(Paused(st)) /\ Calm(st, Paused(st))
  BY PausedWithIsSound DEF Paused

\* So does a synchronization with any map of surfaces.
LEMMA SyncedIsSound ==
    ASSUME NEW st, Sound(st), NEW map \in Maps
    PROVE  Sound(Synced(st, map)) /\ Calm(st, Synced(st, map))
  <1> DEFINE new == \E x \in map.visible : st.work[x] = "none"
             work == [x \in Surfaces |-> Seen(st, map, x)]
             status == IF new /\ st.status = "complete" THEN "paused" ELSE st.status
  <1>1. ASSUME NEW x \in Surfaces
        PROVE  Seen(st, map, x) \in WorkStatuses
                 /\ (Seen(st, map, x) = "active" => st.work[x] = "active")
    BY <1>1 DEF Sound, Stores, WorkStatuses, Seen, NoTrack, NoSession, Statuses
  <1>2. CASE st.id = NoTrack
    BY <1>2 DEF Synced, Calm
  <1>3. CASE st.id # NoTrack
    <2>1. Synced(st, map) = [st EXCEPT !.work = work, !.status = status]
      BY <1>3 DEF Synced
    <2>2. work \in [Surfaces -> WorkStatuses] /\ \A x \in Surfaces : work[x] = Seen(st, map, x)
      BY <1>1
    <2> HIDE DEF work
    <2>3. status \in Statuses /\ (st.status \in Held => status \in Held)
      BY DEF Sound, Stores, Statuses, Calm, Held
    <2> HIDE DEF status
    <2>4. \A x \in Surfaces : work[x] = "active" => st.work[x] = "active"
      BY <1>1, <2>2
    <2> DEFINE next == [st EXCEPT !.work = work, !.status = status]
    <2>5. next \in Stores
      BY <2>2, <2>3 DEF Sound, Stores
    <2>6. next.work = work /\ next.status = status /\ next.id = st.id
            /\ next.surface = st.surface /\ next.session = st.session
      BY DEF Sound, Stores
    <2> HIDE DEF next
    <2>7. Synced(st, map) = next
      BY <2>1 DEF next
    <2> QED  BY <1>3, <2>2, <2>3, <2>4, <2>5, <2>6, <2>7 DEF Sound, Calm, NoTrack
  <1> QED  BY <1>2, <1>3

\* Work that is given up is no longer active.
LEMMA DeferredIsTyped ==
    ASSUME NEW st, Sound(st)
    PROVE  Deferred(st) \in [Surfaces -> WorkStatuses]
             /\ \A x \in Surfaces : Deferred(st)[x] # "active"
  BY DEF Sound, Stores, Deferred, WorkStatuses

\* finishEpoch releases the epoch of the session, if it is that one.
LEMMA FinishedIsSound ==
    ASSUME NEW st, Sound(st), NEW s
    PROVE  Sound(Finished(st, s)) /\ Calm(st, Finished(st, s))
  <1> DEFINE done == [st EXCEPT !.session = NoSession, !.surface = NoSurface,
                                !.work = Deferred(st)]
  <1>1. Finished(st, s) \in {st, done}
    BY DEF Finished
  <1>2. st \in Stores /\ NoSession \in 0..MaxTracks
    BY TrackAssumption DEF Sound, NoSession
  <1>3. done \in Stores
    <2> DEFINE work == Deferred(st)
    <2>1. work \in [Surfaces -> WorkStatuses]
      BY DeferredIsTyped
    <2> HIDE DEF work
    <2>2. [st EXCEPT !.session = NoSession, !.surface = NoSurface, !.work = work] \in Stores
      BY <1>2, <2>1 DEF Stores
    <2> QED  BY <2>2 DEF work
  <1>4. done.work = Deferred(st) /\ done.surface = NoSurface /\ done.status = st.status
          /\ done.id = st.id
    BY <1>2 DEF Stores
  <1> HIDE DEF done
  <1>5. Sound(done)
    BY <1>3, <1>4, DeferredIsTyped DEF Sound
  <1> QED  BY <1>1, <1>4, <1>5 DEF Calm

\* A stop of the track gives up its epoch.
LEMMA StoppedIsSound ==
    ASSUME NEW st, Sound(st)
    PROVE  Sound(Stopped(st))
  <1>1. st \in Stores /\ NoSession \in 0..MaxTracks /\ "stopped" \in Statuses
    BY TrackAssumption DEF Sound, NoSession, Statuses
  <1>2. Stopped(st) \in Stores
    BY <1>1, DeferredIsTyped, Updates DEF Stopped
  <1>3. Stopped(st).work = Deferred(st) /\ Stopped(st).surface = NoSurface
          /\ Stopped(st).status = "stopped"
    BY <1>1 DEF Stores, Stopped
  <1> QED  BY <1>2, <1>3, DeferredIsTyped DEF Sound

\* What the status request does
LEMMA InspectedIsSound ==
    ASSUME NEW st, Sound(st), NEW map \in Maps, NEW scope \in BOOLEAN
    PROVE  Sound(Inspected(st, map, scope)) /\ Calm(st, Inspected(st, map, scope))
  <1> DEFINE now == Synced(st, map)
  <1>1. Sound(now) /\ Calm(st, now)
    BY SyncedIsSound
  <1>2. Sound(Paused(now)) /\ Calm(now, Paused(now))
    BY <1>1, PausedIsSound
  <1>3. Sound(Finished(now, now.session)) /\ Calm(now, Finished(now, now.session))
    BY <1>1, FinishedIsSound
  <1> HIDE DEF now
  <1>4. Inspected(st, map, scope) \in {now, Paused(now), Finished(now, now.session)}
    BY DEF Inspected, now
  <1> QED  BY <1>1, <1>2, <1>3, <1>4 DEF Calm

\* What follows an epoch that could not be launched
LEMMA LaunchFailedIsSound ==
    ASSUME NEW st, Sound(st), NEW s
    PROVE  Sound(LaunchFailed(st, s)) /\ Calm(st, LaunchFailed(st, s))
  BY FinishedIsSound, PausedIsSound DEF LaunchFailed, Calm

\* What follows an error in the scan
LEMMA CaughtIsSound ==
    ASSUME NEW st, Sound(st)
    PROVE  Sound(Caught(st)) /\ Calm(st, Caught(st))
  BY FinishedIsSound, PausedIsSound DEF Caught, Calm

\* reserveNext assigns a surface only in a track that runs.
LEMMA ReservedNextIsSound ==
    ASSUME NEW st, Sound(st), NEW map \in Maps, NEW id \in Tracks,
           NEW next \in ReservedNext(st, id, map)
    PROVE  Sound(next) /\ Calm(st, next)
  <1> DEFINE now == Synced(st, map)
             assigned == {[now EXCEPT !.session = id, !.surface = x, !.work[x] = "active"] :
                              x \in Actionable(now, map)}
  <1>1. Sound(now) /\ Calm(st, now)
    BY SyncedIsSound
  <1>2. \A x \in Surfaces : now.session = NoSession => now.work[x] # "active"
    BY <1>1, TrackAssumption DEF Sound
  <1>3. Actionable(now, map) \subseteq Surfaces
    BY DEF Actionable, Maps
  <1>4. CASE now.status # "running" \/ now.session # NoSession
    BY <1>1, <1>4 DEF ReservedNext
  <1>5. CASE now.status = "running" /\ now.session = NoSession
    <2>1. now.id # NoTrack /\ st.status \notin Held
      BY <1>1, <1>5 DEF Sound, Calm, Held
    <2>2. CASE next \in assigned
      <3>1. PICK x \in Actionable(now, map) :
                next = [now EXCEPT !.session = id, !.surface = x, !.work[x] = "active"]
        BY <2>2
      <3>2. x \in Surfaces
        BY <1>3
      <3> HIDE DEF now
      <3>3. next.work = [now.work EXCEPT ![x] = "active"] /\ next.surface = x
              /\ next.session = id /\ next.status = now.status /\ next.id = now.id
        BY <1>1, <3>1 DEF Sound, Stores
      <3>4. next.work \in [Surfaces -> WorkStatuses]
        BY <1>1, <3>2, <3>3 DEF Sound, Stores, WorkStatuses
      <3>5. next \in Stores
        <4>1. now \in Stores /\ id \in 0..MaxTracks
          BY <1>1 DEF Sound, Tracks
        <4>2. next = [now EXCEPT !.session = id, !.surface = x, !.work = next.work]
          BY <4>1, <3>1 DEF Stores
        <4> DEFINE work == next.work
        <4>3. work \in [Surfaces -> WorkStatuses]
          BY <3>4
        <4> HIDE DEF work
        <4>4. [now EXCEPT !.session = id, !.surface = x, !.work = work] \in Stores
          BY <4>1, <4>3, <3>2 DEF Stores
        <4> QED  BY <4>2, <4>4 DEF work
      <3>6. \A y \in Surfaces : next.work[y] = "active" => y = x
        BY <1>1, <1>2, <1>5, <3>2, <3>3 DEF Sound, Stores
      <3> QED  BY <1>5, <2>1, <3>3, <3>5, <3>6 DEF Sound, Calm, Tracks, NoSession
    <2>3. CASE next = now
      BY <1>1, <2>3
    <2>4. CASE \E status \in {"complete", "waiting"} : next = [now EXCEPT !.status = status]
      <3> HIDE DEF now
      <3> QED  BY <1>1, <2>1, <2>4 DEF Sound, Stores, Calm, Statuses
    <2> QED  BY <1>5, <2>2, <2>3, <2>4 DEF ReservedNext
  <1> QED  BY <1>4, <1>5

\* reserveWorkersOnly sets only such tracks going as have not been paused or stopped.
LEMMA ReservedWorkersIsSound ==
    ASSUME NEW st, Sound(st), NEW id \in Tracks, MayReserveWorkers(st)
    PROVE  /\ Sound(ReservedWorkers(st, id))
           /\ st.status \notin Held
  <1>1. ReservedWorkers(st, id) \in Stores
    <2>1. st \in Stores /\ id \in 0..MaxTracks /\ "running" \in Statuses
      BY DEF Sound, Tracks, Statuses
    <2> DEFINE reserved == [st EXCEPT !.status = "running", !.session = id, !.surface = NoSurface]
    <2>2. reserved \in Stores
      BY <2>1 DEF Stores
    <2> QED  BY <2>2 DEF ReservedWorkers
  <1>2. st.surface = NoSurface
    BY DEF Sound, MayReserveWorkers
  <1>3. \A x \in Surfaces : st.work[x] # "active"
    BY <1>2, TrackAssumption DEF Sound
  <1> QED  BY <1>1, <1>3 DEF Sound, Stores, MayReserveWorkers, ReservedWorkers, Tracks, NoSession, Held

-----------------------------------------------------------------------------
(* Steps                                                                   *)

\* Once the scan is past its check that the workspace is not busy, no epoch runs, ...
Scheduling == {"context", "lookup", "launching", "starting"}
Quiet == scan.phase \in Scheduling => \A s \in Tracks : ~WorksOnEpoch(s)

\* ... and it knows its track or its session.
Ready ==
    /\ scan.phase = "context" => scan.id # NoTrack
    /\ scan.phase \in Scheduling \ {"context"} => scan.session # NoSession

Runtimes == [state : RuntimeStates, launch : 0..MaxLaunch, epoch : BOOLEAN]

Host ==
    /\ row \in [Tracks -> RowStatuses]
    /\ runtime \in [Tracks -> Runtimes]
    /\ records \subseteq [session : Tracks, launch : 0..MaxLaunch, epoch : BOOLEAN,
                          failed : BOOLEAN]
    /\ continuing \subseteq Tracks

Bounds ==
    /\ launches \in 0..MaxLaunch /\ asks \in 0..MaxAsks /\ faults \in 0..MaxFaults
    /\ launches <= MaxLaunches + faults

ScanTyped ==
    scan \in [phase : Phases, todo : SUBSET Tracks, active : SUBSET Tracks,
              id : 0..MaxTracks, status : Statuses, session : 0..MaxTracks, surface : Surfaces \union {NoSurface}]

\* The invariant: the types, sound rows, and a scan that schedules only in a quiet workspace
TrackInvariant ==
    /\ Sound(store) /\ Host /\ Bounds
    /\ ScanTyped /\ Ready /\ Quiet
    /\ EpochsRunAlone

\* A step keeps the invariant and sets a track going only if the operator asked.
Kept == TrackInvariant' /\ (asks' = asks => Calm(store, store'))

\* Where the scan may be after a step on its own: where it was, at its start, or on its way
ScanMoves == scan' = scan \/ scan' = Idle \/ (ScanTyped /\ Ready /\ Quiet)'

\* A step that starts no worker keeps the invariant with what it does to rows and bounds.
LEMMA NothingStarted ==
    ASSUME TrackInvariant, Sound(store'), Host', Bounds',
           asks' = asks => Calm(store, store'),
           \A s \in Tracks : WorksOnEpoch(s)' => WorksOnEpoch(s), ScanMoves
    PROVE  Kept
  <1>1. EpochsRunAlone'
    BY DEF TrackInvariant, EpochsRunAlone
  <1>2. CASE scan' = scan
    BY <1>1, <1>2 DEF Kept, TrackInvariant, ScanTyped, Ready, Quiet
  <1>3. CASE scan' = Idle
    <2>1. ScanTyped' /\ scan'.phase = "idle"
      BY <1>3, TrackAssumption DEF Idle, ScanTyped, Phases, Statuses, NoTrack, NoSession
    <2> QED  BY <1>1, <2>1 DEF Kept, TrackInvariant, Ready, Quiet, Scheduling
  <1>4. CASE (ScanTyped /\ Ready /\ Quiet)'
    BY <1>1, <1>4 DEF Kept, TrackInvariant
  <1> QED  BY <1>2, <1>3, <1>4 DEF ScanMoves

\* So does a step on rows and scan alone.
LEMMA HostUnchanged ==
    ASSUME TrackInvariant, Sound(store'), Bounds', asks' = asks => Calm(store, store'),
           UNCHANGED <<row, runtime, records, continuing>>, ScanMoves
    PROVE  Kept
  <1>1. Host' /\ \A s \in Tracks : WorksOnEpoch(s)' => WorksOnEpoch(s)
    BY DEF TrackInvariant, Host, Works, WorksOnEpoch
  <1> QED  BY <1>1, NothingStarted

\* What a reservation does to the rows, the scan and the bounds
Reserved(st) ==
    /\ Sound(store') /\ Calm(st, store')
    /\ scan' = Idle \/ \E s \in Tracks : scan' = [Idle EXCEPT !.phase = "launching", !.session = s]
    /\ launches' = launches \/ (launches < MaxLaunches /\ launches' = launches + 1)

\* reserveNext and reserveWorkersOnly, as the scan calls them
LEMMA ReservesKeeps ==
    ASSUME NEW st, Sound(st), NEW id \in Tracks, NEW status, Reserves(id, status, st)
    PROVE  Reserved(st)
  <1> DEFINE nexts(map) == IF status = "running" THEN ReservedNext(st, id, map) ELSE {st}
             begins == launches < MaxLaunches /\ launches' = launches + 1
                         /\ scan' = [Idle EXCEPT !.phase = "launching", !.session = id]
             ends == scan' = Idle /\ launches' = launches
             becomes(next) ==
                 \/ store' = Paused(st) /\ ends
                 \/ store' = next /\ (begins \/ ends)
                 \/ MayReserveWorkers(next) /\ store' = ReservedWorkers(next, id) /\ begins
                 \/ store' = Caught(next) /\ ends
  <1>1. \E map \in Maps : \E next \in nexts(map) : becomes(next)
    BY Zenon DEF Reserves
  <1>2. PICK map \in Maps : \E next \in nexts(map) : becomes(next)
    BY <1>1
  <1>3. PICK next \in nexts(map) : becomes(next)
    BY <1>2
  <1>4. Sound(next) /\ Calm(st, next)
    <2>1. CASE status = "running"
      BY <1>3, <2>1, ReservedNextIsSound
    <2>2. CASE status # "running"
      BY <1>3, <2>2 DEF Calm
    <2> QED  BY <2>1, <2>2
  <1>5. store' = next \/ store' = Caught(next)
          \/ (MayReserveWorkers(next) /\ store' = ReservedWorkers(next, id))
          \/ store' = Paused(st)
    BY <1>3
  <1>6. Sound(store') /\ Calm(st, store')
    <2>1. CASE store' = next
      BY <1>4, <2>1
    <2>2. CASE store' = Caught(next)
      BY <1>4, <2>2, CaughtIsSound DEF Calm
    <2>3. CASE MayReserveWorkers(next) /\ store' = ReservedWorkers(next, id)
      BY <1>4, <2>3, ReservedWorkersIsSound DEF Calm
    <2>4. CASE store' = Paused(st)
      BY <2>4, PausedIsSound
    <2> QED  BY <1>5, <2>1, <2>2, <2>3, <2>4
  <1>7. \/ scan' = Idle /\ launches' = launches
        \/ scan' = [Idle EXCEPT !.phase = "launching", !.session = id]
             /\ launches < MaxLaunches /\ launches' = launches + 1
    BY <1>3
  <1> QED  BY <1>6, <1>7 DEF Reserved

\* The rest of the scan does no more than a reservation.
LEMMA ProceedsKeeps ==
    ASSUME NEW st, Sound(st), Proceeds(st)
    PROVE  Reserved(st)
  <1>1. CASE st.session # NoSession \/ st.status # "running"
    BY <1>1 DEF Proceeds, Reserved, Calm
  <1>2. CASE st.session = NoSession /\ st.status = "running"
    <2>1. st.id \in Tracks
      BY <1>2, TrackAssumption DEF Sound, Stores, Tracks, NoTrack
    <2>2. Reserves(st.id, st.status, st)
      BY <1>2 DEF Proceeds
    <2> QED  BY <2>1, <2>2, ReservesKeeps
  <1> QED  BY <1>1, <1>2

\* A step in a quiet workspace that reserves on top of the rows st keeps the invariant.
LEMMA ReservationKept ==
    ASSUME TrackInvariant, scan.phase \in Scheduling,
           NEW st, Calm(store, st), Reserved(st), Host',
           UNCHANGED <<runtime, continuing, asks>>, faults' = faults \/ Fault
    PROVE  Kept
  <1>1. Bounds'
    <2>1. launches' = launches \/ (launches < MaxLaunches /\ launches' = launches + 1)
      BY DEF Reserved
    <2>2. asks' = asks
            /\ (faults' = faults \/ (faults < MaxFaults /\ faults' = faults + 1))
      BY DEF Fault
    <2> QED  BY <2>1, <2>2, TrackAssumption DEF TrackInvariant, Bounds, MaxLaunch
  <1>2. \A s \in Tracks : WorksOnEpoch(s)' => WorksOnEpoch(s)
    BY DEF Works, WorksOnEpoch
  <1>3. ScanMoves
    <2>1. CASE scan' = Idle
      BY <2>1 DEF ScanMoves
    <2>2. ASSUME NEW s \in Tracks, scan' = [Idle EXCEPT !.phase = "launching", !.session = s]
          PROVE  (ScanTyped /\ Ready /\ Quiet)'
      <3>1. scan' = [phase |-> "launching", todo |-> {}, active |-> {}, id |-> NoTrack, status |-> "stopped",
                     session |-> s, surface |-> NoSurface]
        BY <2>2 DEF Idle
      <3>2. ScanTyped'
        BY <3>1, TrackAssumption DEF ScanTyped, Phases, Statuses, NoTrack, Tracks
      <3>3. Ready'
        BY <3>1 DEF Ready, Tracks, NoSession, Scheduling
      <3>4. Quiet'
        BY DEF TrackInvariant, Quiet, Works, WorksOnEpoch
      <3> QED  BY <3>2, <3>3, <3>4
    <2> QED  BY <2>1, <2>2 DEF Reserved, ScanMoves
  <1>4. Sound(store') /\ Calm(store, store')
    BY DEF Reserved, Calm
  <1> QED  BY <1>1, <1>2, <1>3, <1>4, NothingStarted

-----------------------------------------------------------------------------
(* The steps of the scan                                                   *)

\* What a fault does to the bounds
LEMMA FaultBounds ==
    ASSUME TrackInvariant, Fault, UNCHANGED <<launches, asks>>
    PROVE  Bounds'
  BY TrackAssumption DEF Fault, TrackInvariant, Bounds, MaxLaunch

\* The host, as a step leaves it that does not touch it, or ends or forgets runtimes
LEMMA HostStays ==
    ASSUME TrackInvariant, UNCHANGED <<row, records, continuing>>,
           runtime' = runtime \/ \E s \in Tracks \union {NoSession} : runtime' = Stopping(s)
    PROVE  Host' /\ \A s \in Tracks : WorksOnEpoch(s)' => WorksOnEpoch(s)
  <1>1. CASE runtime' = runtime
    BY <1>1 DEF TrackInvariant, Host, Works, WorksOnEpoch
  <1>2. ASSUME NEW s \in Tracks \union {NoSession}, runtime' = Stopping(s)
        PROVE  Host' /\ \A t \in Tracks : WorksOnEpoch(t)' => WorksOnEpoch(t)
    <2>1. CASE runtime' = runtime
      BY <1>1, <2>1
    <2>2. CASE runtime' # runtime
      <3>1. s \in Tracks
        BY <1>2, <2>2 DEF Stopping
      <3>2. \E r \in {NoRuntime, [runtime[s] EXCEPT !.state = "stopping"]} :
                /\ runtime' = [runtime EXCEPT ![s] = r]
                /\ r.state = "none" \/ (Works(s) /\ r.epoch = runtime[s].epoch)
        BY <1>2, <2>2 DEF Stopping, NoRuntime, TrackInvariant, Host, Runtimes
      <3>3. PICK r \in {NoRuntime, [runtime[s] EXCEPT !.state = "stopping"]} :
                /\ runtime' = [runtime EXCEPT ![s] = r]
                /\ r.state = "none" \/ (Works(s) /\ r.epoch = runtime[s].epoch)
        BY <3>2
      <3>4. r \in Runtimes
        <4>1. runtime[s] \in Runtimes
          BY <3>1 DEF TrackInvariant, Host
        <4>2. [runtime[s] EXCEPT !.state = "stopping"] \in Runtimes
          BY <4>1 DEF Runtimes, RuntimeStates
        <4>3. NoRuntime \in Runtimes
          BY TrackAssumption DEF NoRuntime, Runtimes, RuntimeStates, MaxLaunch
        <4> QED  BY <3>3, <4>2, <4>3
      <3>5. Host'
        BY <3>1, <3>3, <3>4 DEF TrackInvariant, Host
      <3> QED  BY <3>1, <3>3, <3>5 DEF TrackInvariant, Host, Runtimes, Works, WorksOnEpoch
    <2> QED  BY <2>1, <2>2
  <1> QED  BY <1>1, <1>2

\* A step within the check of the workers, or back to the start, keeps what the scan has read.
LEMMA ScanChecks ==
    ASSUME TrackInvariant, NEW s, scan.phase = "checking" /\ scan' = [scan EXCEPT !.todo = @ \ {s}]
    PROVE  ScanMoves
  <1>1. ScanTyped' /\ scan'.phase = "checking"
    BY DEF TrackInvariant, ScanTyped
  <1> QED  BY <1>1 DEF ScanMoves, Ready, Quiet, Scheduling

LEMMA CheckingKept ==
    ASSUME TrackInvariant, NEW s \in Tracks, Rotate(s) \/ CheckRuntime(s) \/ CheckFails(s)
    PROVE  Kept
  <1>1. CASE Rotate(s)
    <2>1. Host' /\ (\A t \in Tracks : WorksOnEpoch(t)' => WorksOnEpoch(t)) /\ ScanMoves
      BY <1>1, HostStays, ScanChecks DEF Rotate
    <2> QED  BY <1>1, <2>1, NothingStarted DEF TrackInvariant, Rotate, Bounds, counters, Calm
  <1>2. CASE CheckRuntime(s)
    <2>1. PICK map \in Maps, scope \in BOOLEAN : store' = Inspected(store, map, scope)
                /\ (runtime' = runtime \/ runtime' = Stopping(s))
      BY <1>2 DEF CheckRuntime
    <2>2. Sound(store') /\ Calm(store, store')
      BY <2>1, InspectedIsSound DEF TrackInvariant
    <2>3. Host' /\ (\A t \in Tracks : WorksOnEpoch(t)' => WorksOnEpoch(t)) /\ ScanMoves
      BY <1>2, <2>1, HostStays, ScanChecks DEF CheckRuntime
    <2> QED  BY <1>2, <2>2, <2>3, NothingStarted
             DEF TrackInvariant, CheckRuntime, Bounds, counters
  <1>3. CASE CheckFails(s)
    <2>1. Bounds'
      BY <1>3, FaultBounds DEF CheckFails
    <2>2. ScanMoves
      BY <1>3, ScanChecks DEF CheckFails
    <2> QED  BY <1>3, <2>1, <2>2, HostUnchanged DEF CheckFails, TrackInvariant, Calm
  <1> QED  BY <1>1, <1>2, <1>3

\* A scan starts, and ends or goes on when it has checked the workers.
LEMMA DueKept ==
    ASSUME TrackInvariant, ScanStarts \/ Due \/ DueWithoutMemory
    PROVE  Kept
  <1>1. CASE ScanStarts
    <2> DEFINE working == {s \in Tracks : WorksOnEpoch(s)}
    <2>1. working \in SUBSET Tracks
      OBVIOUS
    <2>2. ScanTyped' /\ scan'.phase = "checking"
      <3>1. scan' = [phase |-> "checking", todo |-> working, active |-> {}, id |-> NoTrack, status |-> "stopped",
                     session |-> NoSession, surface |-> NoSurface]
        BY <1>1 DEF ScanStarts, Idle
      <3> HIDE DEF working
      <3> QED  BY <2>1, <3>1, TrackAssumption
               DEF ScanTyped, Phases, Statuses, NoTrack, NoSession
    <2>3. ScanMoves
      BY <2>2 DEF ScanMoves, Ready, Quiet, Scheduling
    <2> QED  BY <1>1, <2>3, HostUnchanged DEF ScanStarts, TrackInvariant, Bounds, counters, Calm
  <1>2. CASE Due
    <2>1. CASE ~Schedulable
      BY <1>2, <2>1, HostUnchanged DEF Due, TrackInvariant, Bounds, counters, Calm, ScanMoves
    <2>2. CASE Schedulable
      <3>1. scan' = Read("context")
        BY <1>2, <2>2 DEF Due
      <3>2. ScanTyped' /\ scan'.id # NoTrack /\ scan'.phase = "context"
        BY <2>2, <3>1 DEF Schedulable, ActiveSessions, Read, TrackInvariant, Sound, Stores, ScanTyped, Phases
      <3>3. Quiet'
        BY <1>2, <2>2 DEF Due, Schedulable, Busy, Quiet, ActiveSessions, Works, WorksOnEpoch
      <3>4. ScanMoves
        BY <3>2, <3>3 DEF ScanMoves, Ready
      <3> QED  BY <1>2, <3>4, HostUnchanged DEF Due, TrackInvariant, Bounds, counters, Calm
    <2> QED  BY <2>1, <2>2
  <1>3. CASE DueWithoutMemory
    <2>1. Sound(store') /\ Calm(store, store')
      BY <1>3, PausedIsSound DEF DueWithoutMemory, TrackInvariant
    <2> QED  BY <1>3, <2>1, HostUnchanged
             DEF DueWithoutMemory, TrackInvariant, Bounds, counters, ScanMoves
  <1> QED  BY <1>1, <1>2, <1>3

\* What follows the await of the context
LEMMA ContextKept ==
    ASSUME TrackInvariant,
           \/ ContextPauses \/ SurfaceLeft \/ ContextOfOrphan \/ ContextSkips
           \/ ContextLooks \/ ContextReserves \/ ContextFails
    PROVE  Kept
  <1>1. CASE ContextPauses
    <2>1. Sound(store') /\ Calm(store, store')
      BY <1>1, PausedIsSound DEF ContextPauses, TrackInvariant
    <2> QED  BY <1>1, <2>1, HostUnchanged
             DEF ContextPauses, TrackInvariant, Bounds, counters, ScanMoves
  <1>2. CASE SurfaceLeft
    <2>1. PICK map \in Maps : store' = Finished(Synced(store, map), scan.session)
      BY <1>2 DEF SurfaceLeft
    <2>2. Sound(Synced(store, map)) /\ Calm(store, Synced(store, map))
      BY SyncedIsSound DEF TrackInvariant
    <2>3. Sound(store') /\ Calm(store, store')
      BY <2>1, <2>2, FinishedIsSound DEF Calm
    <2> QED  BY <1>2, <2>3, HostUnchanged
             DEF SurfaceLeft, TrackInvariant, Bounds, counters, ScanMoves
  <1>3. CASE ContextLooks
    <2>1. scan' = [phase |-> "lookup", todo |-> {}, active |-> {}, id |-> NoTrack, status |-> "stopped",
                   session |-> scan.session, surface |-> NoSurface]
      BY <1>3 DEF ContextLooks, Idle
    <2>2. ScanTyped' /\ Ready'
      BY <1>3, <2>1, TrackAssumption
      DEF ContextLooks, TrackInvariant, ScanTyped, Phases, Statuses, NoTrack, Ready
    <2>3. Quiet'
      BY <1>3 DEF ContextLooks, TrackInvariant, Quiet, Works, WorksOnEpoch, Scheduling
    <2>4. ScanMoves
      BY <2>2, <2>3 DEF ScanMoves
    <2> QED  BY <1>3, <2>4, HostUnchanged
             DEF ContextLooks, TrackInvariant, Bounds, counters, Calm
  <1>4. CASE ContextReserves
    <2>1. scan.id \in Tracks /\ scan.phase \in Scheduling
      BY <1>4, TrackAssumption
      DEF ContextReserves, TrackInvariant, ScanTyped, Ready, Tracks, NoTrack, Scheduling
    <2>2. Reserved(store)
      BY <1>4, <2>1, ReservesKeeps DEF ContextReserves, TrackInvariant
    <2>3. Host'
      BY <1>4 DEF ContextReserves, TrackInvariant, Host
    <2> QED  BY <1>4, <2>1, <2>2, <2>3, ReservationKept DEF ContextReserves, Calm
  <1>5. CASE ContextFails
    <2>1. Sound(store') /\ Calm(store, store')
      BY <1>5, CaughtIsSound DEF ContextFails, TrackInvariant
    <2>2. Bounds'
      BY <1>5, FaultBounds DEF ContextFails
    <2> QED  BY <1>5, <2>1, <2>2, HostUnchanged DEF ContextFails, ScanMoves
  <1>6. CASE ContextOfOrphan \/ ContextSkips
    <2>1. UNCHANGED <<store, row, runtime, records, continuing, counters>> /\ scan' = Idle
      BY <1>6 DEF ContextOfOrphan, ContextSkips, GuardianEnabledForTrackSession
    <2> QED  BY <2>1, HostUnchanged DEF TrackInvariant, Bounds, counters, Calm, ScanMoves
  <1> QED  BY <1>1, <1>2, <1>3, <1>4, <1>5, <1>6

\* What follows the await of the row of the session
LEMMA LookupKept ==
    ASSUME TrackInvariant,
           LookupEnded \/ LookupPauses \/ LookupWaits \/ LookupFails
    PROVE  Kept
  <1> DEFINE done == Finished(store, scan.session)
  <1>1. Sound(store) /\ Sound(done) /\ Calm(store, done) /\ Calm(store, store)
    BY FinishedIsSound DEF TrackInvariant, Calm
  <1> HIDE DEF done
  <1>2. CASE LookupEnded
    <2>1. Proceeds(done) /\ scan.phase \in Scheduling
      BY <1>2 DEF LookupEnded, done, Scheduling
    <2>2. Host'
      BY <1>2 DEF LookupEnded, TrackInvariant, Host
    <2> QED  BY <1>1, <1>2, <2>1, <2>2, ProceedsKeeps, ReservationKept DEF LookupEnded
  <1>3. CASE LookupPauses
    <2>1. Sound(store') /\ Calm(store, store')
      BY <1>1, <1>3, PausedWithIsSound DEF LookupPauses, done, Calm
    <2> QED  BY <1>3, <2>1, HostUnchanged
             DEF LookupPauses, TrackInvariant, Bounds, counters, ScanMoves
  <1>4. CASE LookupWaits
    <2>1. Proceeds(store) /\ scan.phase \in Scheduling
      BY <1>4 DEF LookupWaits, Scheduling
    <2>2. Host'
      BY <1>4 DEF LookupWaits, TrackInvariant, Host
    <2> QED  BY <1>1, <1>4, <2>1, <2>2, ProceedsKeeps, ReservationKept DEF LookupWaits
  <1>5. CASE LookupFails
    <2>1. CASE Proceeds(store)
      <3>1. Host' /\ scan.phase \in Scheduling
        BY <1>5 DEF LookupFails, TrackInvariant, Host, Scheduling
      <3> QED  BY <1>1, <1>5, <2>1, <3>1, ProceedsKeeps, ReservationKept DEF LookupFails
    <2>2. CASE store' = Paused(done) /\ scan' = Idle /\ UNCHANGED launches
      <3>1. Sound(store') /\ Calm(store, store')
        BY <1>1, <2>2, PausedIsSound DEF Calm
      <3>2. Bounds'
        BY <1>5, <2>2, FaultBounds DEF LookupFails
      <3> QED  BY <1>5, <2>2, <3>1, <3>2, HostUnchanged DEF LookupFails, ScanMoves
    <2> QED  BY <1>5, <2>1, <2>2 DEF LookupFails, done
  <1> QED  BY <1>2, <1>3, <1>4, <1>5

\* The session is prepared, and its worker starts in the quiet workspace, or does not.
LEMMA LaunchKept ==
    ASSUME TrackInvariant, PrepareEpoch \/ StartEpoch \/ LaunchFails
    PROVE  Kept
  <1>1. Sound(LaunchFailed(store, scan.session))
          /\ Calm(store, LaunchFailed(store, scan.session))
    BY LaunchFailedIsSound DEF TrackInvariant
  <1>2. CASE PrepareEpoch
    <2>1. Sound(store') /\ Calm(store, store')
      BY <1>1, <1>2 DEF PrepareEpoch, TrackInvariant, Calm
    <2>2. Host'
      BY <1>2 DEF PrepareEpoch, TrackInvariant, Host, RowStatuses
    <2>3. \A s \in Tracks : WorksOnEpoch(s)' => WorksOnEpoch(s)
      BY <1>2 DEF PrepareEpoch, Works, WorksOnEpoch
    <2>4. scan' = Idle \/ (scan.phase = "launching" /\ scan' = [scan EXCEPT !.phase = "starting"])
      BY <1>2 DEF PrepareEpoch
    <2>5. ScanMoves
      <3>1. CASE scan.phase = "launching" /\ scan' = [scan EXCEPT !.phase = "starting"]
        <4>1. ScanTyped' /\ scan'.phase = "starting" /\ scan'.session = scan.session
          BY <3>1 DEF TrackInvariant, ScanTyped, Phases
        <4>2. Ready'
          BY <3>1, <4>1 DEF TrackInvariant, Ready, Scheduling
        <4>3. Quiet'
          BY <1>2, <3>1 DEF PrepareEpoch, TrackInvariant, Quiet, Works, WorksOnEpoch, Scheduling
        <4> QED  BY <4>1, <4>2, <4>3 DEF ScanMoves
      <3> QED  BY <2>4, <3>1 DEF ScanMoves
    <2> QED  BY <1>2, <2>1, <2>2, <2>3, <2>5, NothingStarted
             DEF PrepareEpoch, TrackInvariant, Bounds, counters
  <1>3. CASE StartEpoch
    <2>1. scan.session \in Tracks /\ \A s \in Tracks : ~WorksOnEpoch(s)
      BY <1>3, TrackAssumption
      DEF StartEpoch, TrackInvariant, ScanTyped, Ready, Quiet, Scheduling, Tracks, NoSession
    <2>2. Sound(store') /\ Calm(store, store')
      BY <1>1, <1>3 DEF StartEpoch, TrackInvariant, Calm
    <2>3. \/ runtime' = runtime
          \/ runtime' = [runtime EXCEPT ![scan.session] =
                             [state |-> "live", launch |-> launches, epoch |-> TRUE]]
      BY <1>3 DEF StartEpoch
    <2>4. [state |-> "live", launch |-> launches, epoch |-> TRUE] \in Runtimes
      BY DEF TrackInvariant, Bounds, Runtimes, RuntimeStates
    <2>5. Host'
      BY <1>3, <2>1, <2>3, <2>4 DEF StartEpoch, TrackInvariant, Host
    <2>6. \A s \in Tracks : WorksOnEpoch(s)' => s = scan.session
      BY <2>1, <2>3 DEF TrackInvariant, Host, Works, WorksOnEpoch
    <2>7. EpochsRunAlone'
      BY <2>6 DEF EpochsRunAlone
    <2>8. scan' = Idle /\ ScanTyped' /\ Ready' /\ Quiet'
      BY <1>3, TrackAssumption
      DEF StartEpoch, Idle, ScanTyped, Phases, Statuses, NoTrack, NoSession, Ready, Quiet,
          Scheduling
    <2> QED  BY <1>3, <2>2, <2>5, <2>7, <2>8
             DEF StartEpoch, Kept, TrackInvariant, Bounds, counters
  <1>4. CASE LaunchFails
    <2>1. scan.session \in Tracks
      BY <1>4, TrackAssumption
      DEF LaunchFails, TrackInvariant, ScanTyped, Ready, Scheduling, Tracks, NoSession
    <2>2. Host' /\ \A s \in Tracks : WorksOnEpoch(s)' => WorksOnEpoch(s)
      BY <1>4, <2>1 DEF LaunchFails, TrackInvariant, Host, RowStatuses, Works, WorksOnEpoch
    <2>3. Bounds'
      BY <1>4, FaultBounds DEF LaunchFails
    <2> QED  BY <1>1, <1>4, <2>2, <2>3, NothingStarted DEF LaunchFails, ScanMoves
  <1> QED  BY <1>2, <1>3, <1>4

-----------------------------------------------------------------------------
(* The steps of the workers, of the records and of the operator            *)

LEMMA WorkerKept ==
    ASSUME TrackInvariant, NEW s \in Tracks, WorkerStep(s)
    PROVE  Kept
  <1>1. CASE RowEnds(s)
    <2>1. Host' /\ \A t \in Tracks : WorksOnEpoch(t)' => WorksOnEpoch(t)
      BY <1>1 DEF RowEnds, TrackInvariant, Host, RowStatuses, Works, WorksOnEpoch
    <2> QED  BY <1>1, <2>1, NothingStarted
             DEF RowEnds, TrackInvariant, Bounds, counters, Calm, ScanMoves
  <1>2. CASE Checkpoint(s)
    <2>1. PICK state \in {"open", "blocked", "complete", "excluded"} :
               store' = [store EXCEPT !.work[store.surface] = state]
      BY <1>2 DEF Checkpoint
    <2>2. store.surface \in Surfaces
      BY <1>2 DEF Checkpoint, TrackInvariant, Sound, Stores
    <2>3. Sound(store') /\ store'.status = store.status
      BY <2>1, <2>2 DEF TrackInvariant, Sound, Stores, WorkStatuses, NoTrack, NoSession
    <2> QED  BY <1>2, <2>3, HostUnchanged
             DEF Checkpoint, TrackInvariant, Bounds, counters, Calm, ScanMoves
  <1>3. CASE CheckpointFails(s)
    <2>1. Sound(store') /\ Calm(store, store')
      BY <1>3, PausedIsSound DEF CheckpointFails, TrackInvariant
    <2>2. Bounds'
      BY <1>3, FaultBounds DEF CheckpointFails
    <2> QED  BY <1>3, <2>1, <2>2, HostUnchanged DEF CheckpointFails, ScanMoves
  <1>4. CASE WorkerEnds(s)
    <2>1. PICK failed \in BOOLEAN :
               records' = records \union
                   {[session |-> s, launch |-> runtime[s].launch,
                     epoch |-> runtime[s].epoch, failed |-> failed]}
      BY <1>4 DEF WorkerEnds
    <2>2. Host'
      BY <1>4, <2>1 DEF WorkerEnds, TrackInvariant, Host, Runtimes, RuntimeStates
    <2>3. \A t \in Tracks : WorksOnEpoch(t)' => WorksOnEpoch(t)
      BY <1>4 DEF WorkerEnds, TrackInvariant, Host, Works, WorksOnEpoch
    <2> QED  BY <1>4, <2>2, <2>3, NothingStarted
             DEF WorkerEnds, TrackInvariant, Bounds, counters, Calm, ScanMoves
  <1> QED  BY <1>1, <1>2, <1>3, <1>4 DEF WorkerStep

LEMMA RecordKept ==
    ASSUME TrackInvariant, NEW r \in records, Record(r) \/ RecordFails(r)
    PROVE  Kept
  <1>1. r.session \in Tracks
    BY DEF TrackInvariant, Host
  <1>2. /\ Settled(r) \in [Tracks -> Runtimes]
        /\ \A s \in Tracks : Settled(r)[s].state \in {"live", "stopping"} /\ Settled(r)[s].epoch => WorksOnEpoch(s)
    BY <1>1, TrackAssumption DEF TrackInvariant, Host, Runtimes, RuntimeStates, Settled, NoRuntime, MaxLaunch, Works, WorksOnEpoch
  <1>3. CASE Record(r)
    <2> DEFINE done == Finished(store, r.session)
    <2>1. Sound(done) /\ Calm(store, done)
      BY FinishedIsSound DEF TrackInvariant
    <2>2. Sound(Paused(done)) /\ Calm(done, Paused(done))
      BY <2>1, PausedIsSound
    <2>3. store' \in {store, done, Paused(done)}
      BY <1>3 DEF Record
    <2> HIDE DEF done
    <2>4. Sound(store') /\ Calm(store, store')
      BY <2>1, <2>2, <2>3 DEF Calm, TrackInvariant
    <2>5. row' \in [Tracks -> RowStatuses]
      BY <1>1, <1>3 DEF Record, TrackInvariant, Host, RowStatuses
    <2>6. Host' /\ \A s \in Tracks : WorksOnEpoch(s)' => WorksOnEpoch(s)
      BY <1>2, <1>3, <2>5 DEF Record, TrackInvariant, Host, Works, WorksOnEpoch
    <2> QED  BY <1>3, <2>4, <2>6, NothingStarted
             DEF Record, TrackInvariant, Bounds, counters, ScanMoves
  <1>4. CASE RecordFails(r)
    <2>1. Sound(store') /\ Calm(store, store')
      BY <1>4, LaunchFailedIsSound DEF RecordFails, TrackInvariant, Calm
    <2>2. Host' /\ \A s \in Tracks : WorksOnEpoch(s)' => WorksOnEpoch(s)
      BY <1>2, <1>4 DEF RecordFails, TrackInvariant, Host, Works, WorksOnEpoch
    <2>3. Bounds'
      BY <1>4, FaultBounds DEF RecordFails
    <2> QED  BY <1>4, <2>1, <2>2, <2>3, NothingStarted DEF RecordFails, ScanMoves
  <1> QED  BY <1>3, <1>4

\* What a request does to the bounds
LEMMA AskBounds ==
    ASSUME TrackInvariant, Ask, UNCHANGED <<launches, faults>>
    PROVE  Bounds' /\ asks' # asks
  BY TrackAssumption DEF Ask, TrackInvariant, Bounds, MaxLaunch

\* A continuation starts no epoch.
LEMMA ContinuationKept ==
    ASSUME TrackInvariant, NEW s \in Tracks, Continue(s) \/ Continuation(s)
    PROVE  Kept
  <1>1. CASE Continue(s)
    <2>1. Host' /\ \A t \in Tracks : WorksOnEpoch(t)' => WorksOnEpoch(t)
      BY <1>1 DEF Continue, TrackInvariant, Host, Works, WorksOnEpoch, RowStatuses
    <2>2. Bounds' /\ asks' # asks
      BY <1>1, TrackAssumption DEF Continue, Ask, TrackInvariant, Bounds, MaxLaunch
    <2> QED  BY <1>1, <2>1, <2>2, NothingStarted
             DEF Continue, TrackInvariant, ScanMoves
  <1>2. CASE StartContinuation(s)
    <2>1. [state |-> "live", launch |-> launches, epoch |-> FALSE] \in Runtimes
      BY DEF TrackInvariant, Bounds, Runtimes, RuntimeStates
    <2>2. Host' /\ \A t \in Tracks : WorksOnEpoch(t)' => WorksOnEpoch(t)
      BY <1>2, <2>1 DEF StartContinuation, TrackInvariant, Host, Works, WorksOnEpoch
    <2> QED  BY <1>2, <2>2, NothingStarted
             DEF StartContinuation, TrackInvariant, Bounds, counters, Calm, ScanMoves
  <1>3. CASE ContinuationFails(s)
    <2>1. Host' /\ \A t \in Tracks : WorksOnEpoch(t)' => WorksOnEpoch(t)
      BY <1>3 DEF ContinuationFails, TrackInvariant, Host, Works, WorksOnEpoch, RowStatuses
    <2>2. Bounds'
      BY <1>3, FaultBounds DEF ContinuationFails
    <2> QED  BY <1>3, <2>1, <2>2, NothingStarted
             DEF ContinuationFails, TrackInvariant, Calm, ScanMoves
  <1> QED  BY <1>1, <1>2, <1>3 DEF Continuation

LEMMA OperatorKept ==
    ASSUME TrackInvariant, Operator \/ Inspect
    PROVE  Kept
  <1>1. CASE Start
    <2>1. PICK map \in Maps : store' = Started(store.id + 1, map)
      BY <1>1 DEF Start
    <2>2. store.id + 1 \in 1..MaxTracks
      BY <1>1, TrackAssumption DEF Start, TrackInvariant, Sound, Stores
    <2> DEFINE work == [x \in Surfaces |-> IF x \in map.visible THEN "open" ELSE "none"]
    <2>3. work \in [Surfaces -> WorkStatuses] /\ \A x \in Surfaces : work[x] # "active"
      BY DEF WorkStatuses
    <2>4. store' = [id |-> store.id + 1, status |-> "running", session |-> NoSession,
                    surface |-> NoSurface, orphaned |-> FALSE, work |-> work]
      BY <2>1 DEF Started
    <2> HIDE DEF work
    <2>5. Sound(store')
      BY <2>2, <2>3, <2>4, TrackAssumption DEF Sound, Stores, Statuses, NoSession, NoTrack
    <2> QED  BY <1>1, <2>5, AskBounds, HostUnchanged DEF Start, ScanMoves
  <1>2. CASE Resume
    <2>1. Sound(store')
      BY <1>2 DEF Resume, Resumed, TrackInvariant, Sound, Stores, Statuses, NoTrack
    <2> QED  BY <1>2, <2>1, AskBounds, HostUnchanged DEF Resume, ScanMoves
  <1>3. CASE Pause \/ Stop
    <2>1. PICK map \in Maps, scope \in BOOLEAN :
               /\ store' \in {Paused(Inspected(store, map, scope)),
                              Stopped(Inspected(store, map, scope))}
               /\ runtime' = Stopping(Inspected(store, map, scope).session)
      BY <1>3 DEF Pause, Stop
    <2> DEFINE now == Inspected(store, map, scope)
    <2>2. Sound(now)
      BY InspectedIsSound DEF TrackInvariant
    <2>3. Sound(store')
      BY <2>1, <2>2, PausedIsSound, StoppedIsSound
    <2>4. now.session \in Tracks \union {NoSession}
      BY <2>2, TrackAssumption DEF Sound, Stores, Tracks, NoSession
    <2>5. Host' /\ \A s \in Tracks : WorksOnEpoch(s)' => WorksOnEpoch(s)
      BY <1>3, <2>1, <2>4, HostStays DEF Pause, Stop
    <2> QED  BY <1>3, <2>3, <2>5, AskBounds, NothingStarted DEF Pause, Stop, ScanMoves
  <1>4. ASSUME NEW s \in Tracks, StopSession(s)
        PROVE  Kept
    <2>1. Host' /\ \A t \in Tracks : WorksOnEpoch(t)' => WorksOnEpoch(t)
      BY <1>4, HostStays DEF StopSession
    <2> QED  BY <1>4, <2>1, AskBounds, NothingStarted
             DEF StopSession, TrackInvariant, Calm, ScanMoves
  <1>5. CASE Inspect
    <2>1. Sound(store') /\ Calm(store, store')
      BY <1>5, InspectedIsSound DEF Inspect, TrackInvariant
    <2> QED  BY <1>5, <2>1, HostUnchanged
             DEF Inspect, TrackInvariant, Bounds, counters, ScanMoves
  <1> QED  BY <1>1, <1>2, <1>3, <1>4, <1>5, ContinuationKept DEF Operator

\* Neither does a restart.
LEMMA RestartKept ==
    ASSUME TrackInvariant, Restart
    PROVE  Kept
  <1>1. Bounds' /\ launches + 1 \in 0..MaxLaunch
    BY TrackAssumption DEF Restart, Fault, TrackInvariant, Bounds, MaxLaunch
  <1>2. PICK again \in SUBSET Tracks :
             runtime' = [s \in Tracks |->
                 IF s \in again THEN [state |-> "live", launch |-> launches + 1, epoch |-> FALSE]
                 ELSE NoRuntime]
    BY DEF Restart
  <1>3. Host'
    <2>1. NoRuntime \in Runtimes
            /\ [state |-> "live", launch |-> launches + 1, epoch |-> FALSE] \in Runtimes
      BY <1>1, TrackAssumption DEF NoRuntime, Runtimes, RuntimeStates, MaxLaunch
    <2>2. runtime' \in [Tracks -> Runtimes]
      BY <1>2, <2>1
    <2> QED  BY <2>2 DEF Restart, TrackInvariant, Host
  <1>4. \A s \in Tracks : ~WorksOnEpoch(s)'
    BY <1>2 DEF Works, WorksOnEpoch, NoRuntime
  <1> QED  BY <1>1, <1>3, <1>4, NothingStarted DEF Restart, TrackInvariant, Calm, ScanMoves

-----------------------------------------------------------------------------
(* The theorems                                                            *)

\* Every step keeps the invariant.
LEMMA NextKept == ASSUME TrackInvariant, Next PROVE Kept
  <1>1. CASE ScanStep
    BY <1>1, DueKept, CheckingKept, ContextKept, LookupKept, LaunchKept DEF ScanStep
  <1>2. CASE ScanFails
    BY <1>2, CheckingKept, ContextKept, LookupKept, LaunchKept DEF ScanFails
  <1>3. CASE Operator \/ Inspect
    BY <1>3, OperatorKept
  <1>4. CASE \E s \in Tracks : WorkerStep(s) \/ Continuation(s)
    BY <1>4, WorkerKept, ContinuationKept
  <1>5. CASE \E r \in records : Record(r) \/ RecordFails(r)
    BY <1>5, RecordKept
  <1>6. CASE Restart
    BY <1>6, RestartKept
  <1> QED  BY <1>1, <1>2, <1>3, <1>4, <1>5, <1>6 DEF Next

LEMMA StutterKept == ASSUME TrackInvariant, UNCHANGED vars PROVE Kept
  <1>1. Host' /\ Bounds' /\ \A s \in Tracks : WorksOnEpoch(s)' => WorksOnEpoch(s)
    BY DEF TrackInvariant, vars, counters, Host, Bounds, Works, WorksOnEpoch
  <1> QED  BY <1>1, NothingStarted DEF vars, TrackInvariant, Calm, ScanMoves

LEMMA InitialInvariant == Init => TrackInvariant
  <1> SUFFICES ASSUME Init PROVE TrackInvariant
    OBVIOUS
  <1> DEFINE work == [x \in Surfaces |-> "none"]
  <1>1. work \in [Surfaces -> WorkStatuses] /\ \A x \in Surfaces : work[x] # "active"
    BY DEF WorkStatuses
  <1>2. store = [id |-> NoTrack, status |-> "stopped", session |-> NoSession,
                 surface |-> NoSurface, orphaned |-> FALSE, work |-> work]
    BY DEF Init, NoStore
  <1> HIDE DEF work
  <1>3. Sound(store)
    BY <1>1, <1>2, TrackAssumption DEF Sound, Stores, Statuses, NoTrack, NoSession
  <1>4. Host /\ Bounds /\ \A s \in Tracks : ~WorksOnEpoch(s)
    BY TrackAssumption DEF Init, Host, Bounds, Runtimes, RuntimeStates, RowStatuses, NoRuntime, MaxLaunch, Works, WorksOnEpoch
  <1>5. ScanTyped /\ Ready /\ Quiet
    BY TrackAssumption
    DEF Init, Idle, ScanTyped, Phases, Statuses, NoTrack, NoSession, Ready, Quiet, Scheduling
  <1> QED  BY <1>3, <1>4, <1>5 DEF TrackInvariant, EpochsRunAlone

LEMMA InvariantHolds == Spec => [](TrackInvariant)
  <1>1. TrackInvariant /\ [Next]_vars => TrackInvariant'
    BY NextKept, StutterKept DEF Kept
  <1> QED  BY InitialInvariant, <1>1, PTL DEF Spec

\* Rows, runtimes, records and the scan always have their types, for all surfaces and bounds.
THEOREM TypeCorrect == Spec => []TypeOK
  <1>1. TrackInvariant => TypeOK
    BY DEF TrackInvariant, Sound, Stores, Host, Runtimes, Bounds, ScanTyped, TypeOK
  <1> QED  BY InvariantHolds, <1>1, PTL

\* The scan never lets two epochs run side by side, whatever the operator continues, stops and
\* starts and a restart recovers meanwhile (busyWorkspaceIds of appServer.ts).
THEOREM EpochsNeverOverlap == Spec => []EpochsRunAlone
  <1>1. TrackInvariant => EpochsRunAlone
    BY DEF TrackInvariant
  <1> QED  BY InvariantHolds, <1>1, PTL

\* No surface is left as being worked on without an epoch that is assigned to it
\* (finishEpoch, stop and start of ResearchTrackStore).
THEOREM AssignmentsAreShown == Spec => []ActiveIsAssigned
  <1>1. TrackInvariant => ActiveIsAssigned
    BY DEF TrackInvariant, Sound, ActiveIsAssigned
  <1> QED  BY InvariantHolds, <1>1, PTL

\* A track that the operator has paused or stopped, or that an error has paused, runs again
\* only at a request of the operator, whatever the scan has read before.
THEOREM RestartsAreAsked == Spec => OnlyTheOperatorRestarts
  <1>1. TrackInvariant /\ [Next]_vars =>
            [store.status \in {"paused", "stopped"} /\ store'.status = "running"
                 => asks' # asks]_vars
    <2>1. TrackInvariant /\ [Next]_vars => Kept
      BY NextKept, StutterKept
    <2> QED  BY <2>1 DEF Kept, Calm, Held
  <1> QED  BY InvariantHolds, <1>1, PTL DEF Spec, OnlyTheOperatorRestarts

=============================================================================
