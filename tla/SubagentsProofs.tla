--------------------------- MODULE SubagentsProofs ---------------------------
(***************************************************************************)
(* Proofs about Subagents, for every set of tasks and surfaces and every   *)
(* value of the limits.                                                    *)
(***************************************************************************)
EXTENDS Subagents, FiniteSetTheorems, TLAPS

-----------------------------------------------------------------------------
(* Typing.                                                                 *)

\* A session of the map was launched: spawn and the scouts launch at once.
SessionsHaveTurns == \A c \in Children : status[c] # "absent" => launches[c] > 0

\* Turns beyond the last launch do not exist yet.
FutureTurnsAreUnused ==
    \A r \in Turns : r[2] > launches[r[1]] => turn[r] = "none" /\ r \notin aborted

\* The inductive invariant behind RunningTurnIsLive.
TreeInvariant == TypeOK /\ SessionsHaveTurns /\ FutureTurnsAreUnused /\ RunningTurnIsLive

\* The session variables and the turns are all TreeInvariant is about.
TreeCore ==
    /\ status \in [Children -> Statuses]
    /\ launches \in [Children -> 0 .. MaxLaunches]
    /\ turn \in [Turns -> TurnPhases]
    /\ aborted \subseteq Turns
    /\ SessionsHaveTurns /\ FutureTurnsAreUnused /\ RunningTurnIsLive

\* The turn function a launch may start from: nothing begins or ends a turn.
Continues(t) ==
    /\ t \in [Turns -> TurnPhases]
    /\ \A r \in Turns : turn[r] = "none" => t[r] = "none"
    /\ \A r \in Turns : t[r] \in {"none", "reported", "settled"} => Ended(r)

\* Waking everybody who waits neither begins nor ends a turn.
LEMMA WokenContinues ==
  ASSUME NEW t, Continues(t)
  PROVE  Continues(Woken(t))
  BY DEF Continues, Woken, TurnPhases, Ended

\* Nor does settling a turn that has reported.
LEMMA SettledContinues ==
  ASSUME TypeOK, NEW r \in Turns, turn[r] = "reported"
  PROVE  Continues([turn EXCEPT ![r] = "settled"])
  BY DEF Continues, TypeOK, TurnPhases, Ended

LEMMA SameTurnContinues ==
  ASSUME TypeOK
  PROVE  Continues(turn)
  BY DEF Continues, TypeOK, Ended

\* Turns are pairs.
LEMMA TurnIsPair ==
  ASSUME NEW r \in Turns
  PROVE  r = <<r[1], r[2]>> /\ r[1] \in Children /\ r[2] \in 1 .. MaxLaunches
  BY DEF Turns

\* launch keeps the invariant, whichever sessions it launches.
LEMMA LaunchStep ==
  ASSUME TreeInvariant, SubagentsAssumption,
         NEW L, L \subseteq Children, NEW t, Continues(t), Launch(L, t), aborted' = aborted
  PROVE  TreeCore'
<1> USE DEF TreeInvariant
<1>1. /\ status \in [Children -> Statuses] /\ launches \in [Children -> 0 .. MaxLaunches]
      /\ turn \in [Turns -> TurnPhases] /\ aborted \subseteq Turns
  BY DEF TypeOK
<1>2. \A c \in L : launches[c] < MaxLaunches
  BY DEF Launch
<1>3. status' \in [Children -> Statuses]
  BY <1>1 DEF Launch, Statuses
<1>4. launches' \in [Children -> 0 .. MaxLaunches]
  <2>1. \A c \in Children : launches'[c] = IF c \in L THEN launches[c] + 1 ELSE launches[c]
    BY DEF Launch
  <2>2. launches' = [c \in Children |-> IF c \in L THEN launches[c] + 1 ELSE launches[c]]
    BY DEF Launch
  <2>3. MaxLaunches \in Nat
    BY DEF SubagentsAssumption
  <2>4. \A c \in Children : launches[c] \in 0 .. MaxLaunches /\ (c \in L => launches[c] + 1 \in 0 .. MaxLaunches)
    BY <1>1, <1>2, <2>3
  <2> QED BY <2>2, <2>4
<1>5. turn' \in [Turns -> TurnPhases]
  <2>1. CASE L = {}
    BY <2>1 DEF Launch, Launched, Continues
  <2>2. CASE L # {}
    <3>1. turn' = [r \in Turns |-> IF r[1] \in L /\ r[2] = launches[r[1]] + 1 THEN "working" ELSE Woken(t)[r]]
      BY <2>2 DEF Launch, Launched
    <3>2. Woken(t) \in [Turns -> TurnPhases]
      BY WokenContinues DEF Continues
    <3> QED BY <3>1, <3>2 DEF TurnPhases
  <2> QED BY <2>1, <2>2
<1>6. ASSUME NEW r \in Turns, turn[r] = "none"
      PROVE  turn'[r] = "none" \/ (r[1] \in L /\ r[2] = launches[r[1]] + 1)
  BY <1>6 DEF Launch, Launched, Woken, Continues
<1>7. ASSUME NEW r \in Turns, turn'[r] \in {"none", "reported", "settled"}
      PROVE  Ended(r) /\ ~(r[1] \in L /\ r[2] = launches[r[1]] + 1)
  <2>1. CASE L = {}
    BY <1>7, <2>1 DEF Launch, Launched, Continues
  <2>2. CASE L # {}
    <3>1. turn' = [q \in Turns |-> IF q[1] \in L /\ q[2] = launches[q[1]] + 1 THEN "working" ELSE Woken(t)[q]]
      BY <2>2 DEF Launch, Launched
    <3>2. \A q \in Turns : Woken(t)[q] \in {"none", "reported", "settled"} => Ended(q)
      BY WokenContinues DEF Continues
    <3> QED BY <3>1, <3>2, <1>7
  <2> QED BY <2>1, <2>2
<1>8. SessionsHaveTurns'
  <2>1. \A c \in Children : /\ launches'[c] = IF c \in L THEN launches[c] + 1 ELSE launches[c]
                            /\ status'[c] = IF c \in L THEN "running" ELSE status[c]
    BY DEF Launch
  <2> QED BY <2>1, <1>1 DEF SessionsHaveTurns
<1>9. FutureTurnsAreUnused'
  <2> SUFFICES ASSUME NEW r \in Turns, r[2] > launches'[r[1]]
               PROVE  turn'[r] = "none" /\ r \notin aborted'
    BY DEF FutureTurnsAreUnused
  <2>1. r[1] \in Children /\ r[2] \in Nat
    BY TurnIsPair
  <2>2. launches'[r[1]] = IF r[1] \in L THEN launches[r[1]] + 1 ELSE launches[r[1]]
    BY <2>1 DEF Launch
  <2>3. launches[r[1]] \in Nat
    BY <1>1, <2>1
  <2>4. r[2] > launches[r[1]] /\ ~(r[1] \in L /\ r[2] = launches[r[1]] + 1)
    BY <2>1, <2>2, <2>3
  <2>5. turn[r] = "none" /\ r \notin aborted
    BY <2>4 DEF FutureTurnsAreUnused
  <2> QED BY <1>6, <2>4, <2>5
<1>10. RunningTurnIsLive'
  <2> SUFFICES ASSUME NEW c \in Children, status'[c] = "running"
               PROVE  ~Ended(<<c, launches[c]>>)' /\ <<c, launches'[c]>> \notin aborted'
    BY DEF RunningTurnIsLive, Running
  <2>1. CASE c \in L
    <3>1. launches'[c] = launches[c] + 1
      BY <2>1 DEF Launch
    <3>2. <<c, launches[c] + 1>> \in Turns
      BY <1>1, <1>2, <2>1 DEF Turns, SubagentsAssumption
    <3>3. turn'[<<c, launches[c] + 1>>] \notin {"none", "reported", "settled"}
      BY <1>7, <3>2, <2>1
    <3>4. <<c, launches[c] + 1>> \notin aborted
      BY <3>2, <1>1 DEF FutureTurnsAreUnused
    <3> QED BY <3>1, <3>3, <3>4 DEF Ended
  <2>2. CASE c \notin L
    <3>1. launches'[c] = launches[c] /\ status[c] = "running"
      BY <2>2 DEF Launch
    <3>2. ~Ended(<<c, launches[c]>>) /\ <<c, launches[c]>> \notin aborted
      BY <3>1 DEF RunningTurnIsLive, Running
    <3>3. launches[c] \in 1 .. MaxLaunches
      BY <3>1, <1>1 DEF SessionsHaveTurns
    <3>4. <<c, launches[c]>> \in Turns
      BY <3>3 DEF Turns
    <3> QED BY <3>1, <3>2, <3>4, <1>7 DEF Ended
  <2> QED BY <2>1, <2>2
<1> QED BY <1>1, <1>3, <1>4, <1>5, <1>8, <1>9, <1>10 DEF TreeCore

\* A step that launches nothing keeps the invariant when a session it leaves
\* running keeps its last turn going.
LEMMA QuietStep ==
  ASSUME TreeInvariant, launches' = launches,
         status' \in [Children -> Statuses], turn' \in [Turns -> TurnPhases],
         aborted' \subseteq aborted \cup {<<c, launches[c]>> : c \in Running},
         \A c \in Children : status'[c] # "absent" => status[c] # "absent" \/ launches[c] > 0,
         \A c \in Children : status'[c] = "running" =>
             status[c] = "running" /\ turn'[<<c, launches[c]>>] \notin {"none", "reported", "settled"}
               /\ <<c, launches[c]>> \notin aborted',
         \A r \in Turns : turn[r] = "none" => turn'[r] = "none"
  PROVE  TreeCore'
<1> USE DEF TreeInvariant
<1>1. /\ launches \in [Children -> 0 .. MaxLaunches] /\ aborted \subseteq Turns
  BY DEF TypeOK
<1>2. \A c \in Running : launches[c] \in 1 .. MaxLaunches
  BY <1>1 DEF Running, SessionsHaveTurns
<1>3. aborted' \subseteq Turns
  BY <1>1, <1>2 DEF Turns, Running
<1>4. SessionsHaveTurns'
  BY DEF SessionsHaveTurns
<1>5. FutureTurnsAreUnused'
  <2> SUFFICES ASSUME NEW r \in Turns, r[2] > launches[r[1]]
               PROVE  turn'[r] = "none" /\ r \notin aborted'
    BY DEF FutureTurnsAreUnused
  <2>1. turn[r] = "none" /\ r \notin aborted
    BY DEF FutureTurnsAreUnused
  <2>2. \A c \in Running : r # <<c, launches[c]>>
    BY <1>2
  <2> QED BY <2>1, <2>2
<1>6. RunningTurnIsLive'
  BY DEF RunningTurnIsLive, Running, Ended
<1> QED BY <1>1, <1>3, <1>4, <1>5, <1>6 DEF TreeCore

\* The part of TypeOK that TreeCore leaves out.
RestTyped ==
    /\ parent \in [Children -> Agents]
    /\ depth \in [Children -> 0 .. MaxDepth]
    /\ mailbox \in [Agents -> SUBSET Mail]
    /\ touched \subseteq Surfaces
    /\ queue \in Seq(Surfaces)
    /\ stopped \in BOOLEAN
    /\ rootPhase \in RootPhases
    /\ awaited \subseteq Turns /\ overrun \subseteq Turns
    /\ continuations \in 0 .. MaxContinuations
    /\ asks \in 0 .. MaxAsks

LEMMA TreeInvariantParts == TreeInvariant <=> TreeCore /\ RestTyped
  BY DEF TreeInvariant, TreeCore, RestTyped, TypeOK

LEMMA TreeInvariantRebuilt ==
  ASSUME TreeCore', RestTyped'
  PROVE  TreeInvariant'
  BY DEF TreeInvariant, TreeCore, RestTyped, TypeOK

LEMMA PutTyped ==
  ASSUME NEW box \in [Agents -> SUBSET Mail], NEW a \in Agents, NEW kind \in Mail
  PROVE  Put(box, a, kind) \in [Agents -> SUBSET Mail]
  BY DEF Put

LEMMA RootWokenTyped == rootPhase \in RootPhases => RootWoken \in RootPhases
  BY DEF RootWoken, RootPhases

\* Draining the scout queue launches sessions and keeps the types.
LEMMA DrainStep ==
  ASSUME TreeInvariant, SubagentsAssumption, NEW t, Continues(t), Drain(t), aborted' = aborted
  PROVE  /\ TreeCore' /\ queue' \in Seq(Surfaces)
         /\ depth' \in [Children -> 0 .. MaxDepth] /\ mailbox' \in [Agents -> SUBSET Mail]
<1>1. PICK lost \in SUBSET Surfaces, n \in 0 .. Len(queue) :
        /\ Launch(Startable(lost, n), t)
        /\ queue' = SubSeq(queue, n + 1, Len(queue))
        /\ depth' = [c \in Children |-> IF c \in Startable(lost, n) THEN 1 ELSE depth[c]]
        /\ mailbox' = IF \E i \in 1 .. n : queue[i] \in lost THEN Put(mailbox, Root, "note") ELSE mailbox
  BY DEF Drain
<1>2. RestTyped
  BY TreeInvariantParts
<1>3. Startable(lost, n) \subseteq Children
  BY <1>2 DEF RestTyped, Startable, Children
<1>4. TreeCore'
  BY <1>1, <1>3, LaunchStep
<1>5. queue' \in Seq(Surfaces)
  BY <1>1, <1>2 DEF RestTyped
<1>6. depth' \in [Children -> 0 .. MaxDepth]
  BY <1>1, <1>2 DEF RestTyped, SubagentsAssumption
<1>7. mailbox' \in [Agents -> SUBSET Mail]
  BY <1>1, <1>2, PutTyped DEF RestTyped, Agents, Mail
<1> QED BY <1>4, <1>5, <1>6, <1>7

-----------------------------------------------------------------------------
(* One lemma per group of actions.                                         *)

LEMMA FirstTouchStep ==
  ASSUME TreeInvariant, SubagentsAssumption, NEW a \in Agents, NEW s \in Surfaces, FirstTouch(a, s)
  PROVE  TreeInvariant'
<1>1. RestTyped
  BY TreeInvariantParts
<1>2. StartedBy({s}) \subseteq Children
  BY DEF StartedBy, Children
<1>3. TreeCore'
  BY <1>2, LaunchStep, SameTurnContinues DEF FirstTouch, TreeInvariant
<1>4. depth' \in [Children -> 0 .. MaxDepth]
  BY <1>1 DEF FirstTouch, RestTyped, SubagentsAssumption
<1>5. mailbox' \in [Agents -> SUBSET Mail]
  BY <1>1, PutTyped DEF FirstTouch, RestTyped, Agents, Mail
<1>6. queue' \in Seq(Surfaces) /\ touched' \subseteq Surfaces /\ rootPhase' \in RootPhases
  BY <1>1, RootWokenTyped DEF FirstTouch, RestTyped
<1>7. RestTyped'
  BY <1>1, <1>4, <1>5, <1>6 DEF FirstTouch, RestTyped, rootVars
<1> QED BY <1>3, <1>7, TreeInvariantRebuilt

LEMMA SpawnStep ==
  ASSUME TreeInvariant, SubagentsAssumption, NEW a \in Agents, NEW c \in Tasks,
         NEW fresh, fresh \subseteq Surfaces, Spawn(a, c, fresh)
  PROVE  TreeInvariant'
<1>1. RestTyped
  BY TreeInvariantParts
<1>2. {c} \cup StartedBy(fresh) \subseteq Children
  BY DEF StartedBy, Children
<1>3. TreeCore'
  BY <1>2, LaunchStep, SameTurnContinues DEF Spawn, TreeInvariant
<1>4. depth' \in [Children -> 0 .. MaxDepth]
  <2>1. DepthOf(a) + 1 \in 0 .. MaxDepth
    BY <1>1 DEF Spawn, DepthOf, RestTyped, SubagentsAssumption, Agents
  <2> QED BY <2>1, <1>1 DEF Spawn, RestTyped, SubagentsAssumption
<1>5. mailbox' \in [Agents -> SUBSET Mail]
  BY <1>1, PutTyped DEF Spawn, RestTyped, Agents, Mail
<1>6. parent' \in [Children -> Agents] /\ touched' \subseteq Surfaces /\ rootPhase' \in RootPhases
  BY <1>1, RootWokenTyped DEF Spawn, RestTyped
<1>7. RestTyped'
  BY <1>1, <1>4, <1>5, <1>6 DEF Spawn, RestTyped, rootVars
<1> QED BY <1>3, <1>7, TreeInvariantRebuilt

LEMMA DeliveredStep ==
  ASSUME TreeInvariant, SubagentsAssumption, NEW a \in Agents, NEW b \in Agents,
         NEW kind \in Mail, Delivered(a, b, kind)
  PROVE  TreeInvariant'
<1>1. RestTyped /\ TreeCore
  BY TreeInvariantParts
<1>2. Continues(Woken(turn))
  BY SameTurnContinues, WokenContinues DEF TreeInvariant
<1>3. TreeCore'
  <2>1. \A c \in Running : ~Ended(<<c, launches[c]>>) /\ <<c, launches[c]>> \notin aborted /\ <<c, launches[c]>> \in Turns
    BY <1>1 DEF TreeCore, RunningTurnIsLive, Running, SessionsHaveTurns, Turns
  <2> QED BY <1>1, <1>2, <2>1, QuietStep DEF Delivered, sessionVars, TreeCore, Continues, Running
<1>4. mailbox' \in [Agents -> SUBSET Mail] /\ rootPhase' \in RootPhases
  BY <1>1, PutTyped, RootWokenTyped DEF Delivered, RestTyped
<1>5. asks' \in 0 .. MaxAsks
  BY <1>1 DEF Delivered, RestTyped, SubagentsAssumption
<1>6. RestTyped'
  BY <1>1, <1>4, <1>5 DEF Delivered, RestTyped, rootVars, sessionVars
<1> QED BY <1>3, <1>6, TreeInvariantRebuilt

LEMMA FollowUpLaunchesStep ==
  ASSUME TreeInvariant, SubagentsAssumption, NEW a \in Agents, NEW c \in Children, FollowUpLaunches(a, c)
  PROVE  TreeInvariant'
<1>1. RestTyped
  BY TreeInvariantParts
<1>2. TreeCore'
  BY LaunchStep, SameTurnContinues DEF FollowUpLaunches, TreeInvariant
<1>3. asks' \in 0 .. MaxAsks /\ rootPhase' \in RootPhases
  BY <1>1, RootWokenTyped DEF FollowUpLaunches, RestTyped, SubagentsAssumption
<1>4. RestTyped'
  BY <1>1, <1>3 DEF FollowUpLaunches, RestTyped, rootVars
<1> QED BY <1>2, <1>4, TreeInvariantRebuilt

LEMMA InterruptStep ==
  ASSUME TreeInvariant, SubagentsAssumption, NEW a \in Agents, NEW c \in Children, Interrupt(a, c)
  PROVE  TreeInvariant'
<1>1. RestTyped /\ TreeCore
  BY TreeInvariantParts
<1>2. Continues(Woken(turn))
  BY SameTurnContinues, WokenContinues DEF TreeInvariant
<1>3. TreeCore'
  <2>1. \A d \in Running : ~Ended(<<d, launches[d]>>) /\ <<d, launches[d]>> \notin aborted /\ <<d, launches[d]>> \in Turns
    BY <1>1 DEF TreeCore, RunningTurnIsLive, Running, SessionsHaveTurns, Turns
  <2>2. status' \in [Children -> Statuses] /\ launches' = launches /\ turn' \in [Turns -> TurnPhases]
    BY <1>1, <1>2 DEF Interrupt, TreeCore, Statuses, Continues
  <2>3. \A d \in Children : /\ d # c => status'[d] = status[d]
                            /\ status'[c] = "interrupted"
    BY <1>1 DEF Interrupt, TreeCore
  <2>4. \A d \in Children : status'[d] = "running" =>
             status[d] = "running" /\ turn'[<<d, launches[d]>>] \notin {"none", "reported", "settled"}
               /\ <<d, launches[d]>> \notin aborted'
    BY <1>2, <2>1, <2>3 DEF Interrupt, Continues, Running, Ended
  <2>5. \A d \in Children : status'[d] # "absent" => status[d] # "absent"
    BY <2>3 DEF Interrupt, Running
  <2>6. \A r \in Turns : turn[r] = "none" => turn'[r] = "none"
    BY <1>2 DEF Interrupt, Continues
  <2>7. aborted' \subseteq aborted \cup {<<d, launches[d]>> : d \in Running}
    BY DEF Interrupt
  <2> QED BY <2>2, <2>4, <2>5, <2>6, <2>7, QuietStep
<1>4. mailbox' \in [Agents -> SUBSET Mail] /\ rootPhase' \in RootPhases
  BY <1>1, PutTyped, RootWokenTyped DEF Interrupt, RestTyped, Notified, Mail
<1>5. RestTyped'
  BY <1>1, <1>4 DEF Interrupt, RestTyped, rootVars
<1> QED BY <1>3, <1>5, TreeInvariantRebuilt

\* wait_agent and its timeout: a turn is suspended or goes on.
LEMMA WaitStep ==
  ASSUME TreeInvariant, SubagentsAssumption, NEW r \in Turns, ChildWaits(r) \/ ChildWaitTimesOut(r)
  PROVE  TreeInvariant'
<1>1. RestTyped /\ TreeCore
  BY TreeInvariantParts
<1>2. \A c \in Running : ~Ended(<<c, launches[c]>>) /\ <<c, launches[c]>> \notin aborted /\ <<c, launches[c]>> \in Turns
  BY <1>1 DEF TreeCore, RunningTurnIsLive, Running, SessionsHaveTurns, Turns
<1>3. /\ turn' \in [Turns -> TurnPhases]
      /\ \A q \in Turns : turn[q] = "none" => turn'[q] = "none"
      /\ \A q \in Turns : turn'[q] \in {"none", "reported", "settled"} => Ended(q)
  BY <1>1 DEF ChildWaits, ChildWaitTimesOut, TreeCore, TurnPhases, Ended
<1>4. TreeCore'
  BY <1>1, <1>2, <1>3, QuietStep DEF ChildWaits, ChildWaitTimesOut, sessionVars, TreeCore, Running
<1>5. RestTyped'
  BY <1>1 DEF ChildWaits, ChildWaitTimesOut, RestTyped, sessionVars, rootVars
<1> QED BY <1>4, <1>5, TreeInvariantRebuilt

LEMMA ReadMailStep ==
  ASSUME TreeInvariant, SubagentsAssumption, NEW r \in Turns, ReadMail(r)
  PROVE  TreeInvariant'
<1>1. RestTyped /\ TreeCore
  BY TreeInvariantParts
<1>2. TreeCore'
  BY <1>1 DEF ReadMail, TreeCore, sessionVars, SessionsHaveTurns, FutureTurnsAreUnused, RunningTurnIsLive, Running, Ended
<1>3. RestTyped'
  BY <1>1 DEF ReadMail, RestTyped, sessionVars, rootVars
<1> QED BY <1>2, <1>3, TreeInvariantRebuilt

LEMMA LastBoundaryStep ==
  ASSUME TreeInvariant, SubagentsAssumption, NEW r \in Turns, LastBoundary(r)
  PROVE  TreeInvariant'
<1>1. RestTyped /\ TreeCore
  BY TreeInvariantParts
<1>2. \A c \in Running : ~Ended(<<c, launches[c]>>) /\ <<c, launches[c]>> \notin aborted /\ <<c, launches[c]>> \in Turns
  BY <1>1 DEF TreeCore, RunningTurnIsLive, Running, SessionsHaveTurns, Turns
<1>3. /\ turn' \in [Turns -> TurnPhases]
      /\ \A q \in Turns : turn[q] = "none" => turn'[q] = "none"
      /\ \A q \in Turns : turn'[q] \in {"none", "reported", "settled"} => Ended(q)
  BY <1>1 DEF LastBoundary, TreeCore, TurnPhases, Ended
<1>4. TreeCore'
  BY <1>1, <1>2, <1>3, QuietStep DEF LastBoundary, sessionVars, TreeCore, Running
<1>5. RestTyped'
  BY <1>1 DEF LastBoundary, RestTyped, sessionVars, rootVars
<1> QED BY <1>4, <1>5, TreeInvariantRebuilt

\* A turn reports: its session is no longer running, unless an earlier turn of
\* the session reports a failure that its abort hides.
LEMMA EndOfTurnStep ==
  ASSUME TreeInvariant, SubagentsAssumption, NEW r \in Turns, EndOfTurn(r)
  PROVE  TreeInvariant'
<1>1. RestTyped /\ TreeCore
  BY TreeInvariantParts
<1>2. r = <<r[1], r[2]>> /\ r[1] \in Children
  BY TurnIsPair
<1>3. \A c \in Running : ~Ended(<<c, launches[c]>>) /\ <<c, launches[c]>> \notin aborted /\ <<c, launches[c]>> \in Turns
  BY <1>1 DEF TreeCore, RunningTurnIsLive, Running, SessionsHaveTurns, Turns
<1>4. /\ turn' = [turn EXCEPT ![r] = "reported"] /\ turn[r] # "none"
      /\ UNCHANGED <<parent, depth, launches, aborted, touched, queue, stopped, rootPhase, rootVars, asks>>
      /\ overrun' \subseteq overrun \cup {r}
      /\ \/ UNCHANGED <<status, mailbox>> /\ (status[r[1]] = "interrupted" \/ r \in aborted)
         \/ /\ status' = [status EXCEPT ![r[1]] = "completed"] \/ status' = [status EXCEPT ![r[1]] = "errored"]
            /\ mailbox' = Notified(r[1])
  BY DEF EndOfTurn, Complete, Fail
<1>5. turn' \in [Turns -> TurnPhases]
      /\ \A q \in Turns : (turn[q] = "none" => turn'[q] = "none") /\ (q # r => turn'[q] = turn[q])
  BY <1>1, <1>4 DEF TreeCore, TurnPhases
<1>6. status' \in [Children -> Statuses]
  BY <1>1, <1>2, <1>4 DEF TreeCore, Statuses
<1>7. launches[r[1]] > 0
  <2>1. r[2] \in Nat \ {0} /\ launches[r[1]] \in Nat
    BY <1>1, <1>2, TurnIsPair DEF TreeCore
  <2>2. ~(r[2] > launches[r[1]])
    BY <1>1, <1>4 DEF TreeCore, FutureTurnsAreUnused
  <2> QED BY <2>1, <2>2
<1>8. \A c \in Children : status'[c] # "absent" => status[c] # "absent" \/ launches[c] > 0
  BY <1>1, <1>4, <1>7 DEF TreeCore
<1>9. ASSUME NEW c \in Children, status'[c] = "running"
      PROVE  /\ status[c] = "running" /\ turn'[<<c, launches[c]>>] \notin {"none", "reported", "settled"}
             /\ <<c, launches[c]>> \notin aborted'
  <2>1. status[c] = "running" /\ c \in Running
    BY <1>1, <1>2, <1>4, <1>9 DEF TreeCore, Running
  <2>2. <<c, launches[c]>> # r
    <3>1. CASE c = r[1]
      <4>1. r \in aborted
        BY <1>1, <1>4, <1>9, <2>1, <3>1 DEF TreeCore
      <4> QED BY <4>1, <1>3, <2>1
    <3>2. CASE c # r[1]
      BY <1>2, <3>2
    <3> QED BY <3>1, <3>2
  <2> QED BY <1>3, <1>4, <1>5, <2>1, <2>2 DEF Ended
<1>10. TreeCore'
  BY <1>1, <1>4, <1>5, <1>6, <1>8, <1>9, QuietStep
<1>11. mailbox' \in [Agents -> SUBSET Mail]
  BY <1>1, <1>2, <1>4, PutTyped DEF RestTyped, Notified, Mail
<1>12. RestTyped'
  BY <1>1, <1>4, <1>11 DEF RestTyped, rootVars
<1> QED BY <1>10, <1>12, TreeInvariantRebuilt

\* The finally callback and the rounds of settle drain the scout queue.
LEMMA TidyStep ==
  ASSUME TreeInvariant, SubagentsAssumption, NEW r \in Turns, Tidy(r)
  PROVE  TreeInvariant'
<1>1. RestTyped
  BY TreeInvariantParts
<1>2. Continues(Woken([turn EXCEPT ![r] = "settled"]))
  BY SettledContinues, WokenContinues DEF Tidy, TreeInvariant
<1>3. /\ TreeCore' /\ queue' \in Seq(Surfaces)
      /\ depth' \in [Children -> 0 .. MaxDepth] /\ mailbox' \in [Agents -> SUBSET Mail]
  BY <1>2, DrainStep DEF Tidy
<1>4. RestTyped'
  BY <1>1, <1>3, RootWokenTyped DEF Tidy, RestTyped, rootVars
<1> QED BY <1>3, <1>4, TreeInvariantRebuilt

LEMMA SettleStep ==
  ASSUME TreeInvariant, SubagentsAssumption, Settle
  PROVE  TreeInvariant'
<1>1. RestTyped
  BY TreeInvariantParts
<1>2. /\ TreeCore' /\ queue' \in Seq(Surfaces)
      /\ depth' \in [Children -> 0 .. MaxDepth] /\ mailbox' \in [Agents -> SUBSET Mail]
  BY SameTurnContinues, DrainStep DEF Settle, TreeInvariant
<1>3. awaited' \subseteq Turns
  <2>1. \A c \in Children : launches'[c] > 0 => <<c, launches'[c]>> \in Turns
    BY <1>2 DEF TreeCore, Turns
  <2> QED BY <2>1 DEF Settle, Promises
<1>4. rootPhase' \in RootPhases
  BY <1>1 DEF Settle, RestTyped, RootPhases
<1>5. RestTyped'
  BY <1>1, <1>2, <1>3, <1>4 DEF Settle, RestTyped
<1> QED BY <1>2, <1>5, TreeInvariantRebuilt

\* interruptAll, whoever calls it.
LEMMA InterruptAllStep ==
  ASSUME TreeInvariant, InterruptAll, launches' = launches
  PROVE  TreeCore' /\ queue' \in Seq(Surfaces) /\ stopped' \in BOOLEAN
<1>1. TreeCore
  BY TreeInvariantParts
<1>2. Continues(Woken(turn))
  BY SameTurnContinues, WokenContinues DEF TreeInvariant
<1>3. status' \in [Children -> Statuses] /\ \A c \in Children : status'[c] # "running"
  BY <1>1 DEF InterruptAll, TreeCore, Statuses, Running
<1>4. \A c \in Children : status'[c] # "absent" => status[c] # "absent" \/ launches[c] > 0
  BY <1>1 DEF InterruptAll, TreeCore, Running
<1>5. turn' \in [Turns -> TurnPhases] /\ \A r \in Turns : turn[r] = "none" => turn'[r] = "none"
  BY <1>2 DEF InterruptAll, Continues
<1>6. aborted' \subseteq aborted \cup {<<c, launches[c]>> : c \in Running}
  BY DEF InterruptAll
<1>7. TreeCore'
  BY <1>3, <1>4, <1>5, <1>6, QuietStep
<1> QED BY <1>7 DEF InterruptAll

LEMMA StopStep ==
  ASSUME TreeInvariant, SubagentsAssumption, HostStop \/ RootFails
  PROVE  TreeInvariant'
<1>1. RestTyped /\ TreeCore
  BY TreeInvariantParts
<1>2. rootPhase' \in RootPhases
  BY <1>1, RootWokenTyped DEF HostStop, RootFails, RestTyped, RootPhases
<1>3. CASE InterruptAll
  <2>1. TreeCore' /\ queue' \in Seq(Surfaces) /\ stopped' \in BOOLEAN
    BY <1>3, InterruptAllStep DEF HostStop, RootFails
  <2>2. RestTyped'
    BY <1>1, <1>2, <2>1 DEF HostStop, RootFails, RestTyped, rootVars
  <2> QED BY <2>1, <2>2, TreeInvariantRebuilt
<1>4. CASE ~InterruptAll
  <2>1. UNCHANGED <<status, turn, aborted, overrun, queue, stopped, parent, depth, launches, mailbox, touched, awaited, continuations, asks>>
    BY <1>4 DEF HostStop, RootFails, rootVars
  <2>2. TreeCore'
    BY <1>1, <2>1 DEF TreeCore, SessionsHaveTurns, FutureTurnsAreUnused, RunningTurnIsLive, Running, Ended
  <2>3. RestTyped'
    BY <1>1, <1>2, <2>1 DEF RestTyped
  <2> QED BY <2>2, <2>3, TreeInvariantRebuilt
<1> QED BY <1>3, <1>4

\* The steps of the root that touch no child session.
LEMMA RootStep ==
  ASSUME TreeInvariant, SubagentsAssumption,
         RootWaits \/ RootWaitTimesOut \/ RootReadsMail \/ RootLastBoundary \/ RootCompletes \/ Conclude
  PROVE  TreeInvariant'
<1>1. RestTyped /\ TreeCore
  BY TreeInvariantParts
<1>2. UNCHANGED <<sessionVars, turn, aborted, overrun, touched, queue, stopped, awaited, asks>>
  BY DEF RootWaits, RootWaitTimesOut, RootReadsMail, RootLastBoundary, RootCompletes, Conclude, rootVars
<1>3. TreeCore'
  BY <1>1, <1>2 DEF TreeCore, sessionVars, SessionsHaveTurns, FutureTurnsAreUnused, RunningTurnIsLive, Running, Ended
<1>4. rootPhase' \in RootPhases
  BY <1>1 DEF RootWaits, RootWaitTimesOut, RootReadsMail, RootLastBoundary, RootCompletes, Conclude,
              RestTyped, RootPhases
<1>5. mailbox' \in [Agents -> SUBSET Mail]
  BY <1>1 DEF RootWaits, RootWaitTimesOut, RootReadsMail, RootLastBoundary, RootCompletes, Conclude, RestTyped
<1>6. continuations' \in 0 .. MaxContinuations
  BY <1>1 DEF RootWaits, RootWaitTimesOut, RootReadsMail, RootLastBoundary, RootCompletes, Conclude,
              RestTyped, rootVars, MayContinue, SubagentsAssumption
<1>7. RestTyped'
  BY <1>1, <1>2, <1>4, <1>5, <1>6 DEF RestTyped, sessionVars
<1> QED BY <1>3, <1>7, TreeInvariantRebuilt

LEMMA HostSteersStep ==
  ASSUME TreeInvariant, SubagentsAssumption, HostSteers
  PROVE  TreeInvariant'
<1>1. RestTyped /\ TreeCore
  BY TreeInvariantParts
<1>2. Continues(Woken(turn))
  BY SameTurnContinues, WokenContinues DEF TreeInvariant
<1>3. TreeCore'
  <2>1. \A c \in Running : ~Ended(<<c, launches[c]>>) /\ <<c, launches[c]>> \notin aborted /\ <<c, launches[c]>> \in Turns
    BY <1>1 DEF TreeCore, RunningTurnIsLive, Running, SessionsHaveTurns, Turns
  <2> QED BY <1>1, <1>2, <2>1, QuietStep DEF HostSteers, sessionVars, TreeCore, Continues, Running
<1>4. mailbox' \in [Agents -> SUBSET Mail]
  BY <1>1 DEF HostSteers, RestTyped, Mail
<1>5. asks' \in 0 .. MaxAsks
  BY <1>1 DEF HostSteers, RestTyped, SubagentsAssumption
<1>6. RestTyped'
  BY <1>1, <1>4, <1>5, RootWokenTyped DEF HostSteers, RestTyped, rootVars, sessionVars
<1> QED BY <1>3, <1>6, TreeInvariantRebuilt

-----------------------------------------------------------------------------
(* The invariant and its theorems.                                         *)

LEMMA TreeInit == SubagentsAssumption /\ Init => TreeInvariant
<1> SUFFICES ASSUME SubagentsAssumption, Init PROVE TreeInvariant
  OBVIOUS
<1>1. TypeOK
  <2>1. /\ status \in [Children -> Statuses] /\ launches \in [Children -> 0 .. MaxLaunches]
        /\ depth \in [Children -> 0 .. MaxDepth]
    BY DEF Init, SubagentsAssumption, Statuses
  <2>2. parent \in [Children -> Agents] /\ mailbox \in [Agents -> SUBSET Mail] /\ turn \in [Turns -> TurnPhases]
    BY DEF Init, Agents, TurnPhases
  <2>3. queue \in Seq(Surfaces) /\ touched \subseteq Surfaces /\ aborted \subseteq Turns /\ awaited \subseteq Turns
        /\ overrun \subseteq Turns
    BY DEF Init
  <2>4. stopped \in BOOLEAN /\ rootPhase \in RootPhases
    BY DEF Init, RootPhases
  <2>5. continuations \in 0 .. MaxContinuations /\ asks \in 0 .. MaxAsks
    <3>1. MaxContinuations \in Nat /\ MaxAsks \in Nat
      BY DEF SubagentsAssumption
    <3> QED BY <3>1 DEF Init
  <2> QED BY <2>1, <2>2, <2>3, <2>4, <2>5 DEF TypeOK
<1>2. SessionsHaveTurns /\ FutureTurnsAreUnused /\ RunningTurnIsLive
  BY TurnIsPair DEF Init, SessionsHaveTurns, FutureTurnsAreUnused, RunningTurnIsLive, Running
<1> QED BY <1>1, <1>2 DEF TreeInvariant

LEMMA TreeStutter == TreeInvariant /\ UNCHANGED vars => TreeInvariant'
  BY DEF TreeInvariant, TypeOK, SessionsHaveTurns, FutureTurnsAreUnused, RunningTurnIsLive, Running, Ended,
         vars, sessionVars, rootVars

LEMMA ToolsStep ==
  ASSUME TreeInvariant, SubagentsAssumption, NEW a \in Agents, Tools(a)
  PROVE  TreeInvariant'
<1>1. CASE \E s \in Surfaces : FirstTouch(a, s)
  BY <1>1, FirstTouchStep
<1>2. CASE \E c \in Tasks : Spawn(a, c, {}) \/ \E s \in Surfaces \ touched : Spawn(a, c, {s})
  BY <1>2, SpawnStep
<1>3. CASE \E b \in Agents : SendMessage(a, b)
  BY <1>3, DeliveredStep DEF SendMessage, Mail
<1>4. CASE \E c \in Children : FollowUpQueued(a, c) \/ FollowUpLaunches(a, c) \/ Interrupt(a, c)
  BY <1>4, DeliveredStep, FollowUpLaunchesStep, InterruptStep DEF FollowUpQueued, Agents, Mail
<1> QED BY <1>1, <1>2, <1>3, <1>4 DEF Tools

LEMMA TreeNext == SubagentsAssumption /\ TreeInvariant /\ [Next]_vars => TreeInvariant'
<1> SUFFICES ASSUME SubagentsAssumption, TreeInvariant, [Next]_vars PROVE TreeInvariant'
  OBVIOUS
<1>1. CASE \E a \in Agents : Tools(a)
  BY <1>1, ToolsStep
<1>2. CASE \E r \in Turns : Loop(r) \/ ChildWaitTimesOut(r) \/ EndOfTurn(r) \/ Tidy(r)
  BY <1>2, WaitStep, ReadMailStep, LastBoundaryStep, EndOfTurnStep, TidyStep DEF Loop
<1>3. CASE RootWaits \/ RootWaitTimesOut \/ RootReadsMail \/ RootLastBoundary \/ RootEnds \/ Conclude
  BY <1>3, RootStep, StopStep DEF RootEnds
<1>4. CASE Settle \/ HostStop \/ HostSteers
  BY <1>4, SettleStep, StopStep, HostSteersStep
<1>5. CASE UNCHANGED vars
  BY <1>5, TreeStutter
<1> QED BY <1>1, <1>2, <1>3, <1>4, <1>5 DEF Next

\* Every variable keeps its type, whatever the agents call and however slowly
\* an abort takes effect.
THEOREM TypeCorrect == Spec => []TypeOK
<1>1. Init => TreeInvariant
  BY TreeInit, SubagentsAssumption
<1>2. TreeInvariant /\ [Next]_vars => TreeInvariant'
  BY TreeNext, SubagentsAssumption
<1>3. TreeInvariant => TypeOK
  BY DEF TreeInvariant
<1> QED BY <1>1, <1>2, <1>3, PTL DEF Spec

\* A session shown as running (launch, interrupt, interruptAll and the callbacks
\* of launch set the status) always has a turn that will still report.
THEOREM NoSlotIsLost == Spec => []RunningTurnIsLive
<1>1. Init => TreeInvariant
  BY TreeInit, SubagentsAssumption
<1>2. TreeInvariant /\ [Next]_vars => TreeInvariant'
  BY TreeNext, SubagentsAssumption
<1>3. TreeInvariant => RunningTurnIsLive
  BY DEF TreeInvariant
<1> QED BY <1>1, <1>2, <1>3, PTL DEF Spec

-----------------------------------------------------------------------------
(* Turns that are shown, and what a stop reaches.                          *)

\* A queued scout was touched once and never launched, so draining the queue
\* launches no session that has a turn.
QueueIsFresh ==
    /\ \A s \in Surfaces : status[s] # "absent" => s \in touched
    /\ \A i \in 1 .. Len(queue) : queue[i] \in touched /\ status[queue[i]] = "absent"
    /\ \A i, j \in 1 .. Len(queue) : queue[i] = queue[j] => i = j

\* A session that was launched is in the map for good.
LaunchedStayKnown == \A c \in Children : launches[c] > 0 => status[c] # "absent"

\* The inductive invariant behind LiveTurnsAreShown and StopIsFinal.
ShownInvariant == TreeInvariant /\ LiveTurnsAreShown /\ QueueIsFresh /\ LaunchedStayKnown

\* Launching sessions that are not running keeps every live turn shown.
LEMMA LaunchShows ==
  ASSUME ShownInvariant, SubagentsAssumption, NEW L, L \subseteq Children, NEW t, Continues(t),
         Launch(L, t), aborted' = aborted, overrun' = overrun, \A c \in L : c \notin Running,
         \A r \in Turns : Ended(r) => t[r] \in {"none", "reported", "settled"}
  PROVE  LiveTurnsAreShown' /\ LaunchedStayKnown'
<1>1. LiveTurnsAreShown'
  <2> SUFFICES ASSUME NEW r \in Turns, ~Ended(r)', r \notin aborted, ~Overtaken(r)'
               PROVE  status'[r[1]] = "running" /\ r[2] = launches'[r[1]]
    BY DEF LiveTurnsAreShown
  <2>1. r[1] \in Children /\ ~Overtaken(r)
    BY TurnIsPair DEF Overtaken
  <2>2. /\ status'[r[1]] = IF r[1] \in L THEN "running" ELSE status[r[1]]
        /\ launches'[r[1]] = IF r[1] \in L THEN launches[r[1]] + 1 ELSE launches[r[1]]
    BY <2>1 DEF Launch
  <2>3. CASE r[1] \in L /\ r[2] = launches[r[1]] + 1
    BY <2>2, <2>3
  <2>4. CASE ~(r[1] \in L /\ r[2] = launches[r[1]] + 1)
    <3>1. ~Ended(r)
      BY <2>4 DEF Launch, Launched, Woken, Ended
    <3>2. status[r[1]] = "running" /\ r[2] = launches[r[1]]
      BY <2>1, <3>1 DEF ShownInvariant, LiveTurnsAreShown
    <3>3. r[1] \notin L
      BY <3>2, <2>1 DEF Running
    <3> QED BY <2>2, <3>2, <3>3
  <2> QED BY <2>3, <2>4
<1>2. LaunchedStayKnown'
  BY DEF Launch, ShownInvariant, LaunchedStayKnown
<1> QED BY <1>1, <1>2

\* A step that changes neither the sessions nor the aborts, and revives no turn.
LEMMA QuietShows ==
  ASSUME ShownInvariant, UNCHANGED <<status, launches, aborted, queue, touched>>,
         overrun \subseteq overrun', \A r \in Turns : Ended(r) => Ended(r)'
  PROVE  LiveTurnsAreShown' /\ QueueIsFresh' /\ LaunchedStayKnown'
<1>1. \A r \in Turns : Overtaken(r) => Overtaken(r)'
  BY DEF Overtaken
<1> QED BY <1>1 DEF ShownInvariant, LiveTurnsAreShown, QueueIsFresh, LaunchedStayKnown

\* A step that only interrupts running sessions and aborts their last turns.
LEMMA InterruptsShow ==
  ASSUME ShownInvariant, NEW C, C \subseteq Running,
         status' = [c \in Children |-> IF c \in C THEN "interrupted" ELSE status[c]],
         aborted' = aborted \cup {<<c, launches[c]>> : c \in C},
         launches' = launches, touched' = touched, overrun' = overrun, queue' \in {queue, << >>},
         \A r \in Turns : Ended(r) => Ended(r)'
  PROVE  LiveTurnsAreShown' /\ QueueIsFresh' /\ LaunchedStayKnown'
<1>1. LiveTurnsAreShown'
  <2> SUFFICES ASSUME NEW r \in Turns, ~Ended(r)', r \notin aborted', ~Overtaken(r)'
               PROVE  status'[r[1]] = "running" /\ r[2] = launches[r[1]]
    BY DEF LiveTurnsAreShown
  <2>1. r = <<r[1], r[2]>> /\ r[1] \in Children /\ ~Overtaken(r)
    BY TurnIsPair DEF Overtaken
  <2>2. status[r[1]] = "running" /\ r[2] = launches[r[1]]
    BY <2>1 DEF ShownInvariant, LiveTurnsAreShown
  <2>3. r[1] \notin C
    BY <2>1, <2>2
  <2> QED BY <2>1, <2>2, <2>3
<1>2. \A c \in Children : status'[c] = "absent" <=> status[c] = "absent"
  BY DEF Running
<1>3. QueueIsFresh'
  <2>1. \A i \in 1 .. Len(queue) : queue[i] \in Children
    BY DEF ShownInvariant, TreeInvariant, TypeOK, Children
  <2>2. CASE queue' = queue
    BY <1>2, <2>1, <2>2 DEF ShownInvariant, QueueIsFresh, Children
  <2>3. CASE queue' = << >>
    <3>1. Len(queue') = 0
      BY <2>3
    <3>2. \A i : i \notin 1 .. Len(queue')
      BY <3>1
    <3>3. \A s \in Surfaces : status'[s] # "absent" => s \in touched'
      BY <1>2 DEF ShownInvariant, QueueIsFresh, Children
    <3> QED BY <3>2, <3>3 DEF QueueIsFresh
  <2> QED BY <2>2, <2>3
<1>4. LaunchedStayKnown'
  BY <1>2 DEF ShownInvariant, LaunchedStayKnown
<1> QED BY <1>1, <1>3, <1>4

LEMMA ToolsShow ==
  ASSUME ShownInvariant, SubagentsAssumption, NEW a \in Agents, Tools(a)
  PROVE  LiveTurnsAreShown' /\ QueueIsFresh' /\ LaunchedStayKnown'
<1>1. /\ TypeOK /\ Continues(turn) /\ LiveTurnsAreShown /\ QueueIsFresh /\ LaunchedStayKnown
      /\ \A r \in Turns : Ended(r) => turn[r] \in {"none", "reported", "settled"}
  BY SameTurnContinues DEF ShownInvariant, TreeInvariant, Ended
<1>2. ASSUME NEW s \in Surfaces, FirstTouch(a, s)
      PROVE  LiveTurnsAreShown' /\ QueueIsFresh' /\ LaunchedStayKnown'
  <2>1. status[s] = "absent" /\ s \in Children
    BY <1>1, <1>2, TurnIsPair DEF FirstTouch, QueueIsFresh, Children
  <2>2. LiveTurnsAreShown' /\ LaunchedStayKnown'
    BY <1>1, <1>2, <2>1, LaunchShows DEF FirstTouch, StartedBy, Running, Children
  <2>3. status' = [c \in Children |-> IF c \in StartedBy({s}) THEN "running" ELSE status[c]]
    BY <1>2 DEF FirstTouch, Launch
  <2>4. QueueIsFresh'
    <3>1. queue \in Seq(Surfaces) /\ \A i \in 1 .. Len(queue) : queue[i] # s /\ queue[i] \in Surfaces
      BY <1>1, <1>2 DEF TypeOK, FirstTouch, QueueIsFresh
    <3>2. touched' = touched \cup {s}
      BY <1>2 DEF FirstTouch
    <3>3. CASE StartedBy({s}) = {s} /\ queue' = queue
      BY <1>1, <2>3, <3>1, <3>2, <3>3 DEF QueueIsFresh, Children
    <3>4. CASE StartedBy({s}) = {} /\ queue' = Append(queue, s)
      <4>1. \A c \in Children : status'[c] = status[c]
        BY <2>3, <3>4
      <4>2. Len(queue') = Len(queue) + 1 /\ \A i \in 1 .. Len(queue') : queue'[i] = IF i = Len(queue) + 1 THEN s ELSE queue[i]
        BY <3>1, <3>4
      <4> QED BY <1>1, <2>1, <3>1, <3>2, <4>1, <4>2 DEF QueueIsFresh, Children
    <3>5. CASE StartedBy({s}) = {} /\ queue' = queue
      BY <1>1, <2>3, <3>1, <3>2, <3>5 DEF QueueIsFresh, Children
    <3> QED BY <1>2, <3>3, <3>4, <3>5 DEF FirstTouch, StartedBy, QueuedBy
  <2> QED BY <2>2, <2>4
<1>3. ASSUME NEW c \in Tasks, NEW fresh, fresh \subseteq Surfaces, fresh \cap touched = {}, Spawn(a, c, fresh)
      PROVE  LiveTurnsAreShown' /\ QueueIsFresh' /\ LaunchedStayKnown'
  <2> DEFINE L == {c} \cup StartedBy(fresh)
  <2>1. L \subseteq Children /\ \A d \in L : status[d] = "absent" /\ (d \in Surfaces => d \in fresh)
    BY <1>1, <1>3 DEF Spawn, StartedBy, Children, QueueIsFresh, SubagentsAssumption
  <2>2. LiveTurnsAreShown' /\ LaunchedStayKnown'
    BY <1>1, <1>3, <2>1, LaunchShows DEF Spawn, Running
  <2>3. status' = [d \in Children |-> IF d \in L THEN "running" ELSE status[d]]
    BY <1>3 DEF Spawn, Launch
  <2>4. queue' = queue /\ touched' = touched \cup fresh
    BY <1>3 DEF Spawn
  <2>5. \A i \in 1 .. Len(queue) : queue[i] \in Surfaces /\ queue[i] \notin L /\ queue[i] \in Children
    BY <1>1, <1>3, <2>1 DEF TypeOK, QueueIsFresh, Children
  <2>6. QueueIsFresh'
    BY <1>1, <2>1, <2>3, <2>4, <2>5 DEF QueueIsFresh, Children
  <2> QED BY <2>2, <2>6
<1>4. ASSUME NEW b \in Agents, NEW kind, Delivered(a, b, kind)
      PROVE  LiveTurnsAreShown' /\ QueueIsFresh' /\ LaunchedStayKnown'
  <2>1. \A r \in Turns : Ended(r) => Ended(r)'
    BY <1>4 DEF Delivered, Woken, Ended
  <2> QED BY <1>4, <2>1, QuietShows DEF Delivered, sessionVars
<1>5. ASSUME NEW c \in Children, FollowUpLaunches(a, c)
      PROVE  LiveTurnsAreShown' /\ QueueIsFresh' /\ LaunchedStayKnown'
  <2>1. LiveTurnsAreShown' /\ LaunchedStayKnown'
    BY <1>1, <1>5, LaunchShows DEF FollowUpLaunches, Running
  <2>2. status' = [d \in Children |-> IF d \in {c} THEN "running" ELSE status[d]] /\ status[c] # "absent"
    BY <1>5 DEF FollowUpLaunches, Launch
  <2>3. \A i \in 1 .. Len(queue) : queue[i] \in Children
    BY <1>1 DEF TypeOK, Children
  <2>4. QueueIsFresh'
    BY <1>1, <1>5, <2>2, <2>3 DEF QueueIsFresh, FollowUpLaunches, Children
  <2> QED BY <2>1, <2>4
<1>6. ASSUME NEW c \in Children, Interrupt(a, c)
      PROVE  LiveTurnsAreShown' /\ QueueIsFresh' /\ LaunchedStayKnown'
  <2>1. \A r \in Turns : Ended(r) => Ended(r)'
    BY <1>6 DEF Interrupt, Woken, Ended
  <2>2. status' = [d \in Children |-> IF d \in {c} THEN "interrupted" ELSE status[d]]
    BY <1>1, <1>6 DEF Interrupt, TypeOK
  <2>3. aborted' = aborted \cup {<<d, launches[d]>> : d \in {c}}
    BY <1>6 DEF Interrupt
  <2> QED BY <1>6, <2>1, <2>2, <2>3, InterruptsShow DEF Interrupt
<1>7. CASE \E s \in Surfaces : FirstTouch(a, s)
  BY <1>2, <1>7
<1>8. CASE \E c \in Tasks : Spawn(a, c, {}) \/ \E s \in Surfaces \ touched : Spawn(a, c, {s})
  <2>1. PICK c \in Tasks : Spawn(a, c, {}) \/ \E s \in Surfaces \ touched : Spawn(a, c, {s})
    BY <1>8
  <2>2. CASE Spawn(a, c, {})
    BY <1>3, <2>2
  <2>3. CASE \E s \in Surfaces \ touched : Spawn(a, c, {s})
    <3>1. PICK s \in Surfaces \ touched : Spawn(a, c, {s})
      BY <2>3
    <3>2. {s} \subseteq Surfaces /\ {s} \cap touched = {}
      OBVIOUS
    <3> QED BY <1>3, <3>1, <3>2
  <2> QED BY <2>1, <2>2, <2>3
<1>9. CASE \E b \in Agents : SendMessage(a, b)
  BY <1>4, <1>9 DEF SendMessage
<1>10. CASE \E c \in Children : FollowUpQueued(a, c) \/ FollowUpLaunches(a, c) \/ Interrupt(a, c)
  BY <1>4, <1>5, <1>6, <1>10 DEF FollowUpQueued, Agents
<1> QED BY <1>7, <1>8, <1>9, <1>10 DEF Tools

\* Draining the queue launches fresh scouts only.
LEMMA DrainShows ==
  ASSUME ShownInvariant, SubagentsAssumption, NEW t, Continues(t), Drain(t),
         UNCHANGED <<aborted, overrun, touched>>,
         \A r \in Turns : Ended(r) => t[r] \in {"none", "reported", "settled"}
  PROVE  LiveTurnsAreShown' /\ QueueIsFresh' /\ LaunchedStayKnown'
<1>1. PICK lost \in SUBSET Surfaces, n \in 0 .. Len(queue) :
        /\ Launch(Startable(lost, n), t)
        /\ queue' = SubSeq(queue, n + 1, Len(queue))
  BY DEF Drain
<1> DEFINE L == Startable(lost, n)
<1>2. queue \in Seq(Surfaces) /\ Len(queue) \in Nat /\ QueueIsFresh
  BY DEF ShownInvariant, TreeInvariant, TypeOK
<1>3. \A i \in 1 .. Len(queue) : queue[i] \in Surfaces /\ queue[i] \in Children
  BY <1>2 DEF Children
<1>4. L \subseteq Children /\ \A c \in L : status[c] = "absent"
  BY <1>2, <1>3 DEF Startable, QueueIsFresh
<1>5. LiveTurnsAreShown' /\ LaunchedStayKnown'
  BY <1>1, <1>4, LaunchShows DEF Running
<1>6. status' = [c \in Children |-> IF c \in L THEN "running" ELSE status[c]]
  BY <1>1 DEF Launch
<1>7. Len(queue') = Len(queue) - n /\ \A i \in 1 .. Len(queue') : i + n \in 1 .. Len(queue) /\ queue'[i] = queue[i + n]
  BY <1>1, <1>2
<1>8. QueueIsFresh'
  <2>1. \A s \in Surfaces : status'[s] # "absent" => s \in touched
    BY <1>2, <1>6 DEF QueueIsFresh, Startable, Children
  <2>2. \A i \in 1 .. Len(queue') : queue'[i] \in touched /\ status'[queue'[i]] = "absent"
    <3> SUFFICES ASSUME NEW i \in 1 .. Len(queue')
                 PROVE  queue'[i] \in touched /\ status'[queue'[i]] = "absent"
      OBVIOUS
    <3>1. i + n \in 1 .. Len(queue) /\ queue'[i] = queue[i + n]
      BY <1>7
    <3>2. \A j \in 1 .. n : j \in 1 .. Len(queue) /\ j # i + n
      BY <1>2, <1>7
    <3>3. queue[i + n] \notin L
      BY <1>2, <3>1, <3>2 DEF Startable, QueueIsFresh
    <3> QED BY <1>2, <1>3, <1>6, <3>1, <3>3 DEF QueueIsFresh
  <2>3. \A i, j \in 1 .. Len(queue') : queue'[i] = queue'[j] => i = j
    <3> SUFFICES ASSUME NEW i \in 1 .. Len(queue'), NEW j \in 1 .. Len(queue'), queue'[i] = queue'[j]
                 PROVE  i = j
      OBVIOUS
    <3>1. i + n = j + n
      BY <1>2, <1>7 DEF QueueIsFresh
    <3> QED BY <3>1, <1>2, <1>7
  <2> QED BY <2>1, <2>2, <2>3 DEF QueueIsFresh
<1> QED BY <1>5, <1>8

\* A turn that reports changes the status for its session only.  Of a later turn
\* that still works it may speak only when it is itself overtaken, or overruns.
LEMMA EndOfTurnShows ==
  ASSUME ShownInvariant, SubagentsAssumption, NEW r \in Turns, EndOfTurn(r), status' # status
  PROVE  LiveTurnsAreShown' /\ QueueIsFresh' /\ LaunchedStayKnown'
<1>1. TypeOK /\ LiveTurnsAreShown /\ QueueIsFresh /\ LaunchedStayKnown /\ FutureTurnsAreUnused
  BY DEF ShownInvariant, TreeInvariant
<1>2. r = <<r[1], r[2]>> /\ r[1] \in Children /\ r[2] \in 1 .. MaxLaunches
  BY TurnIsPair
<1>3. /\ ~Ended(r) /\ turn' = [turn EXCEPT ![r] = "reported"]
      /\ UNCHANGED <<launches, aborted, touched, queue>>
      /\ status' = [status EXCEPT ![r[1]] = "completed"] \/ status' = [status EXCEPT ![r[1]] = "errored"]
      /\ overrun \subseteq overrun' /\ (r \in aborted => r \in overrun')
  BY DEF EndOfTurn, Complete, Fail, Ended
<1>4. \A c \in Children : c # r[1] => status'[c] = status[c]
  BY <1>1, <1>3 DEF TypeOK
<1>5. \A q \in Turns : (q # r => (Ended(q)' <=> Ended(q))) /\ Ended(r)'
  BY <1>1, <1>3 DEF Ended, TypeOK
<1>6. \A q \in Turns : Overtaken(q) => Overtaken(q)'
  BY <1>3 DEF Overtaken
<1>7. launches[r[1]] \in Nat /\ r[2] <= launches[r[1]] /\ status[r[1]] # "absent"
  <2>1. launches[r[1]] \in Nat
    BY <1>1, <1>2 DEF TypeOK
  <2>2. ~(r[2] > launches[r[1]])
    BY <1>1, <1>3 DEF FutureTurnsAreUnused, Ended
  <2>3. r[2] <= launches[r[1]] /\ launches[r[1]] > 0
    BY <1>2, <2>1, <2>2
  <2> QED BY <1>1, <1>2, <2>1, <2>3 DEF LaunchedStayKnown
<1>8. LiveTurnsAreShown'
  <2> SUFFICES ASSUME NEW q \in Turns, ~Ended(q)', q \notin aborted, ~Overtaken(q)'
               PROVE  status'[q[1]] = "running" /\ q[2] = launches[q[1]]
    BY <1>3 DEF LiveTurnsAreShown
  <2>1. q = <<q[1], q[2]>> /\ q[1] \in Children /\ q # r /\ q[2] \in 1 .. MaxLaunches
    BY <1>5, TurnIsPair
  <2>2. status[q[1]] = "running" /\ q[2] = launches[q[1]]
    BY <1>1, <1>5, <1>6, <2>1 DEF LiveTurnsAreShown
  <2>3. CASE q[1] # r[1]
    BY <1>4, <2>1, <2>2, <2>3
  <2>4. CASE q[1] = r[1]
    <3>1. r[2] < q[2]
      BY <1>2, <1>7, <2>1, <2>2, <2>4
    <3>2. CASE r \in aborted
      BY <1>2, <1>3, <2>4, <3>1, <3>2 DEF Overtaken
    <3>3. CASE r \notin aborted
      <4>1. Overtaken(r)
        BY <1>1, <1>3, <2>2, <2>4, <3>1, <3>3, <1>2, <1>7 DEF LiveTurnsAreShown
      <4>2. PICK k \in 1 .. MaxLaunches : k < r[2] /\ <<r[1], k>> \in overrun
        BY <4>1 DEF Overtaken
      <4>3. k < q[2]
        BY <1>2, <2>1, <3>1, <4>2
      <4> QED BY <1>3, <2>4, <4>2, <4>3 DEF Overtaken
    <3> QED BY <3>2, <3>3
  <2> QED BY <2>3, <2>4
<1>9. QueueIsFresh'
  <2>1. \A i \in 1 .. Len(queue) : queue[i] \in Children /\ queue[i] # r[1]
    BY <1>1, <1>7 DEF TypeOK, QueueIsFresh, Children
  <2>2. \A s \in Surfaces : status'[s] # "absent" => status[s] # "absent"
    BY <1>2, <1>4, <1>7 DEF Children
  <2> QED BY <1>1, <1>3, <1>4, <2>1, <2>2 DEF QueueIsFresh
<1>10. LaunchedStayKnown'
  BY <1>1, <1>2, <1>3, <1>4 DEF LaunchedStayKnown, TypeOK
<1> QED BY <1>8, <1>9, <1>10

LEMMA TurnsShow ==
  ASSUME ShownInvariant, SubagentsAssumption, NEW r \in Turns,
         Loop(r) \/ ChildWaitTimesOut(r) \/ EndOfTurn(r) \/ Tidy(r)
  PROVE  LiveTurnsAreShown' /\ QueueIsFresh' /\ LaunchedStayKnown'
<1>1. TypeOK
  BY DEF ShownInvariant, TreeInvariant
<1>2. CASE Loop(r) \/ ChildWaitTimesOut(r)
  <2>1. \A q \in Turns : Ended(q) => Ended(q)'
    BY <1>1, <1>2 DEF Loop, ChildWaits, ReadMail, LastBoundary, ChildWaitTimesOut, Ended, TypeOK
  <2> QED BY <1>2, <2>1, QuietShows DEF Loop, ChildWaits, ReadMail, LastBoundary, ChildWaitTimesOut, sessionVars
<1>3. CASE EndOfTurn(r) /\ status' = status
  <2>1. \A q \in Turns : Ended(q) => Ended(q)'
    BY <1>1, <1>3 DEF EndOfTurn, Complete, Fail, Ended, TypeOK
  <2>2. overrun \subseteq overrun' /\ UNCHANGED <<status, launches, aborted, queue, touched>>
    BY <1>3 DEF EndOfTurn, Complete, Fail
  <2> QED BY <2>1, <2>2, QuietShows
<1>4. CASE EndOfTurn(r) /\ status' # status
  BY <1>4, EndOfTurnShows
<1>5. CASE Tidy(r)
  <2>1. Continues(Woken([turn EXCEPT ![r] = "settled"]))
    BY <1>5, SettledContinues, WokenContinues DEF Tidy, ShownInvariant, TreeInvariant
  <2>2. \A q \in Turns : Ended(q) => Woken([turn EXCEPT ![r] = "settled"])[q] \in {"none", "reported", "settled"}
    BY <1>1 DEF Woken, Ended, TypeOK
  <2> QED BY <1>5, <2>1, <2>2, DrainShows DEF Tidy
<1> QED BY <1>2, <1>3, <1>4, <1>5

LEMMA RootShows ==
  ASSUME ShownInvariant, SubagentsAssumption,
         \/ RootWaits \/ RootWaitTimesOut \/ RootReadsMail \/ RootLastBoundary \/ RootEnds
         \/ Settle \/ Conclude \/ HostStop \/ HostSteers
  PROVE  LiveTurnsAreShown' /\ QueueIsFresh' /\ LaunchedStayKnown'
<1>1. TypeOK
  BY DEF ShownInvariant, TreeInvariant
<1>2. CASE RootWaits \/ RootWaitTimesOut \/ RootReadsMail \/ RootLastBoundary \/ RootCompletes \/ Conclude
  <2>1. UNCHANGED <<sessionVars, turn, aborted, overrun, queue, touched>>
    BY <1>2 DEF RootWaits, RootWaitTimesOut, RootReadsMail, RootLastBoundary, RootCompletes, Conclude
  <2> QED BY <2>1, QuietShows DEF sessionVars, Ended
<1>3. CASE InterruptAll /\ UNCHANGED <<launches, touched, overrun>>
  <2>1. \A r \in Turns : Ended(r) => Ended(r)'
    BY <1>3 DEF InterruptAll, Woken, Ended
  <2> QED BY <1>3, <2>1, InterruptsShow DEF InterruptAll
<1>4. CASE RootFails /\ ~InterruptAll
  BY <1>4, QuietShows DEF RootFails, Ended
<1>5. CASE Settle
  <2>1. \A r \in Turns : Ended(r) => turn[r] \in {"none", "reported", "settled"}
    BY DEF Ended
  <2> QED BY <1>1, <1>5, <2>1, SameTurnContinues, DrainShows DEF Settle
<1>6. CASE HostSteers
  <2>1. \A r \in Turns : Ended(r) => Ended(r)'
    BY <1>6 DEF HostSteers, Woken, Ended
  <2> QED BY <1>6, <2>1, QuietShows DEF HostSteers, sessionVars
<1>7. HostStop \/ RootFails => UNCHANGED <<launches, touched, overrun>>
  BY DEF HostStop, RootFails
<1> QED BY <1>2, <1>3, <1>4, <1>5, <1>6, <1>7 DEF RootEnds, HostStop

LEMMA ShownInit == SubagentsAssumption /\ Init => ShownInvariant
<1> SUFFICES ASSUME SubagentsAssumption, Init PROVE ShownInvariant
  OBVIOUS
<1>1. TreeInvariant
  BY TreeInit
<1>2. LiveTurnsAreShown /\ QueueIsFresh /\ LaunchedStayKnown
  BY DEF Init, LiveTurnsAreShown, QueueIsFresh, LaunchedStayKnown, Ended, Children
<1> QED BY <1>1, <1>2 DEF ShownInvariant

LEMMA ShownNext == SubagentsAssumption /\ ShownInvariant /\ [Next]_vars => ShownInvariant'
<1> SUFFICES ASSUME SubagentsAssumption, ShownInvariant, [Next]_vars PROVE ShownInvariant'
  OBVIOUS
<1>1. TreeInvariant'
  BY TreeNext DEF ShownInvariant
<1>2. LiveTurnsAreShown' /\ QueueIsFresh' /\ LaunchedStayKnown'
  <2>1. CASE \E a \in Agents : Tools(a)
    BY <2>1, ToolsShow
  <2>2. CASE \E r \in Turns : Loop(r) \/ ChildWaitTimesOut(r) \/ EndOfTurn(r) \/ Tidy(r)
    BY <2>2, TurnsShow
  <2>3. CASE UNCHANGED vars
    BY <2>3, QuietShows DEF vars, sessionVars, Ended
  <2> QED BY <2>1, <2>2, <2>3, RootShows DEF Next
<1> QED BY <1>1, <1>2 DEF ShownInvariant

\* However slowly an abort takes effect, interrupt, the thread limit and the
\* root's last check see every turn that still works: it is the last one of a
\* session that launch made running, unless the then callback of an earlier,
\* aborted turn of that session has spoken for it.
THEOREM EveryLiveTurnIsShown == Spec => []LiveTurnsAreShown
<1>1. Init => ShownInvariant
  BY ShownInit, SubagentsAssumption
<1>2. ShownInvariant /\ [Next]_vars => ShownInvariant'
  BY ShownNext, SubagentsAssumption
<1>3. ShownInvariant => LiveTurnsAreShown
  BY DEF ShownInvariant
<1> QED BY <1>1, <1>2, <1>3, PTL DEF Spec

\* interruptAll aborts the last turn of every session shown as running.
LEMMA InterruptAllReaches ==
  ASSUME ShownInvariant, InterruptAll, overrun' = overrun
  PROVE  \A r \in Turns : Ended(r)' \/ r \in aborted' \/ Overtaken(r)'
<1> SUFFICES ASSUME NEW r \in Turns, ~Ended(r)', r \notin aborted', ~Overtaken(r)'
             PROVE  FALSE
  OBVIOUS
<1>1. ~Ended(r) /\ r \notin aborted /\ ~Overtaken(r)
  BY DEF InterruptAll, Woken, Ended, Overtaken
<1>2. status[r[1]] = "running" /\ r[2] = launches[r[1]]
  BY <1>1 DEF ShownInvariant, LiveTurnsAreShown
<1>3. r = <<r[1], launches[r[1]]>> /\ r[1] \in Running
  BY <1>2, TurnIsPair DEF Running
<1>4. r \in aborted'
  BY <1>3 DEF InterruptAll
<1> QED BY <1>4

\* Nothing is queued, and draining launches nothing, after a stop.
LEMMA StoppedDrainLaunchesNothing ==
  ASSUME TypeOK, stopped, NEW t, Drain(t)
  PROVE  launches' = launches
<1>1. PICK lost \in SUBSET Surfaces : Launch(Startable(lost, 0), t)
  BY DEF Drain
<1>2. Startable(lost, 0) = {}
  BY DEF Startable
<1> QED BY <1>1, <1>2 DEF Launch, TypeOK

\* What the steps of the agents launch after a stop.
LEMMA StoppedToolsLaunch ==
  ASSUME ShownInvariant, stopped, NEW a \in Agents, Tools(a),
         NEW c \in Children, launches'[c] # launches[c]
  PROVE  (launches[c] = 0 => c \in Tasks) /\ Acts(a)
<1>1. TypeOK /\ SessionsHaveTurns /\ \A fresh : StartedBy(fresh) = {}
  BY DEF ShownInvariant, TreeInvariant, StartedBy
<1>2. ASSUME NEW L, NEW t, Launch(L, t)
      PROVE  c \in L
  BY <1>1, <1>2 DEF Launch, TypeOK
<1>3. CASE \E s \in Surfaces : FirstTouch(a, s)
  BY <1>1, <1>2, <1>3 DEF FirstTouch
<1>4. CASE \E d \in Tasks : Spawn(a, d, {}) \/ \E s \in Surfaces \ touched : Spawn(a, d, {s})
  <2>1. PICK d \in Tasks : \E fresh \in SUBSET Surfaces : Spawn(a, d, fresh)
    BY <1>4
  <2>2. PICK fresh \in SUBSET Surfaces : Spawn(a, d, fresh)
    BY <2>1
  <2>3. c \in {d} \cup StartedBy(fresh) /\ Acts(a)
    BY <1>2, <2>2 DEF Spawn
  <2> QED BY <1>1, <2>3
<1>5. CASE \E b \in Agents : SendMessage(a, b)
  BY <1>5 DEF SendMessage, Delivered, sessionVars
<1>6. CASE \E d \in Children : FollowUpQueued(a, d) \/ FollowUpLaunches(a, d) \/ Interrupt(a, d)
  <2>1. PICK d \in Children : FollowUpLaunches(a, d)
    BY <1>6 DEF FollowUpQueued, Delivered, Interrupt, sessionVars
  <2>2. c \in {d} /\ Acts(a) /\ status[d] # "absent"
    BY <1>2, <2>1 DEF FollowUpLaunches
  <2>3. launches[c] > 0
    BY <1>1, <2>2 DEF SessionsHaveTurns
  <2> QED BY <2>2, <2>3
<1> QED BY <1>3, <1>4, <1>5, <1>6 DEF Tools

\* A step of StopIsFinal.
FinalStep ==
    /\ InterruptsAll => \A r \in Turns : Ended(r)' \/ r \in aborted' \/ Overtaken(r)'
    /\ stopped => \A c \in Children : launches'[c] # launches[c] =>
                    (launches[c] = 0 => c \in Tasks) /\ \E a \in Agents : Acts(a)

LEMMA StopStepIsFinal == SubagentsAssumption /\ ShownInvariant /\ [Next]_vars => FinalStep \/ UNCHANGED vars
<1> SUFFICES ASSUME SubagentsAssumption, ShownInvariant, Next PROVE FinalStep
  OBVIOUS
<1>1. TypeOK
  BY DEF ShownInvariant, TreeInvariant
<1>2. CASE \E a \in Agents : Tools(a)
  <2>1. PICK a \in Agents : Tools(a)
    BY <1>2
  <2>2. ~InterruptsAll
    BY <2>1 DEF Tools, FirstTouch, Spawn, SendMessage, FollowUpQueued, Delivered, FollowUpLaunches,
                Interrupt, InterruptsAll, RootWoken
  <2>3. stopped => \A c \in Children : launches'[c] # launches[c] =>
                    (launches[c] = 0 => c \in Tasks) /\ Acts(a)
    BY <2>1, StoppedToolsLaunch
  <2> QED BY <2>2, <2>3 DEF FinalStep
<1>3. CASE \E r \in Turns : Loop(r) \/ ChildWaitTimesOut(r) \/ EndOfTurn(r)
  BY <1>3 DEF Loop, ChildWaits, ReadMail, LastBoundary, ChildWaitTimesOut, EndOfTurn, Complete, Fail,
              FinalStep, InterruptsAll, sessionVars
<1>4. CASE \E r \in Turns : Tidy(r)
  <2>1. ~InterruptsAll
    BY <1>4 DEF Tidy, InterruptsAll, RootWoken
  <2>2. stopped => launches' = launches
    BY <1>1, <1>4, StoppedDrainLaunchesNothing DEF Tidy
  <2> QED BY <2>1, <2>2 DEF FinalStep
<1>5. CASE Settle
  <2>1. ~InterruptsAll
    BY <1>5 DEF Settle, InterruptsAll
  <2>2. stopped => launches' = launches
    BY <1>1, <1>5, StoppedDrainLaunchesNothing DEF Settle
  <2> QED BY <2>1, <2>2 DEF FinalStep
<1>6. CASE RootWaits \/ RootWaitTimesOut \/ RootReadsMail \/ RootLastBoundary \/ RootCompletes \/ Conclude \/ HostSteers
  BY <1>6 DEF RootWaits, RootWaitTimesOut, RootReadsMail, RootLastBoundary, RootCompletes, Conclude,
              HostSteers, RootWoken, FinalStep, InterruptsAll, sessionVars
<1>7. CASE RootFails \/ HostStop
  <2>1. launches' = launches /\ overrun' = overrun
    BY <1>7 DEF RootFails, HostStop
  <2>2. CASE InterruptAll
    BY <2>1, <2>2, InterruptAllReaches DEF FinalStep
  <2>3. CASE ~InterruptAll
    BY <1>7, <2>1, <2>3 DEF RootFails, HostStop, FinalStep, InterruptsAll
  <2> QED BY <2>2, <2>3
<1> QED BY <1>2, <1>3, <1>4, <1>5, <1>6, <1>7 DEF Next, RootEnds

\* However slowly an abort takes effect, interruptAll reaches every turn that
\* LiveTurnsAreShown speaks of, and afterwards drainFoundationQueue, settle and
\* the callbacks launch nothing: whatever is launched is a task, or a session
\* continued, by an agent whose own abort has not taken effect.
THEOREM StopReachesEveryTurn == Spec => StopIsFinal
<1>1. Init => ShownInvariant
  BY ShownInit, SubagentsAssumption
<1>2. ShownInvariant /\ [Next]_vars => ShownInvariant'
  BY ShownNext, SubagentsAssumption
<1>3. ShownInvariant /\ [Next]_vars => [FinalStep]_vars
  BY StopStepIsFinal, SubagentsAssumption
<1>4. Spec => [][FinalStep]_vars
  BY <1>1, <1>2, <1>3, PTL DEF Spec
<1> QED BY <1>4 DEF StopIsFinal, FinalStep

-----------------------------------------------------------------------------
(* Sleepers.                                                               *)

\* notifyActivity reaches everybody: when it runs, nobody goes on waiting.
LEMMA EverybodyAwake ==
  ASSUME \A r \in Turns : turn'[r] # "waiting", rootPhase' # "waiting"
  PROVE  SleepersHaveAWaker'
  BY DEF SleepersHaveAWaker, Agents, Turns

\* A turn that has reported is the waker of everybody.
LEMMA ReportWakes ==
  ASSUME NEW r \in Turns, turn'[r] = "reported"
  PROVE  SleepersHaveAWaker'
  BY DEF SleepersHaveAWaker

\* A step that ends no session, settles no turn, and writes to nobody who waits.
LEMMA SleepersKept ==
  ASSUME SleepersHaveAWaker, parent' = parent,
         \A r \in Turns : turn'[r] = "waiting" => turn[r] = "waiting",
         rootPhase' = "waiting" => rootPhase = "waiting",
         \A a \in Agents : mailbox[a] = {} => mailbox'[a] = {} \/ (a = Root /\ rootPhase' # "waiting"),
         Running \subseteq Running',
         \A r \in Turns : turn[r] = "reported" => turn'[r] = "reported"
  PROVE  SleepersHaveAWaker'
<1> SUFFICES ASSUME NEW a \in Agents,
                    IF a = Root THEN rootPhase' = "waiting" ELSE \E k \in 1 .. MaxLaunches : turn'[<<a, k>>] = "waiting"
             PROVE  MayWait(a)' \/ \E r \in Turns : turn'[r] = "reported"
  BY DEF SleepersHaveAWaker
<1>1. IF a = Root THEN rootPhase = "waiting" ELSE \E k \in 1 .. MaxLaunches : turn[<<a, k>>] = "waiting"
  BY DEF Agents, Turns
<1>2. MayWait(a) \/ \E r \in Turns : turn[r] = "reported"
  BY <1>1 DEF SleepersHaveAWaker
<1>3. MayWait(a) => MayWait(a)'
  BY DEF MayWait, HasRunningDescendant, Above
<1> QED BY <1>2, <1>3

\* launch notifies: after it nobody waits.
LEMMA LaunchWakes ==
  ASSUME NEW L, L # {}, NEW t, Launch(L, t), t \in [Turns -> TurnPhases]
  PROVE  \A r \in Turns : turn'[r] # "waiting"
  BY DEF Launch, Launched, Woken

LEMMA SleepersTools ==
  ASSUME TypeOK, SleepersHaveAWaker, NEW a \in Agents, Tools(a)
  PROVE  SleepersHaveAWaker'
<1>1. turn \in [Turns -> TurnPhases] /\ RootWoken # "waiting" /\ \A r \in Turns : Woken(turn)[r] # "waiting"
  BY DEF TypeOK, RootWoken, Woken
<1>2. ASSUME NEW s \in Surfaces, FirstTouch(a, s)
      PROVE  SleepersHaveAWaker'
  <2>1. CASE StartedBy({s}) = {}
    <3>1. status' = status /\ turn' = turn /\ mailbox' = mailbox /\ rootPhase' = rootPhase /\ parent' = parent
      BY <1>2, <2>1 DEF FirstTouch, Launch, Launched, TypeOK
    <3> QED BY <3>1, SleepersKept DEF Running
  <2>2. CASE StartedBy({s}) # {}
    BY <1>1, <1>2, <2>2, LaunchWakes, EverybodyAwake DEF FirstTouch
  <2> QED BY <2>1, <2>2
<1>3. ASSUME NEW c \in Tasks, NEW fresh, Spawn(a, c, fresh)
      PROVE  SleepersHaveAWaker'
  <2>1. {c} \cup StartedBy(fresh) # {}
    OBVIOUS
  <2> QED BY <1>1, <1>3, <2>1, LaunchWakes, EverybodyAwake DEF Spawn
<1>4. ASSUME NEW b, NEW kind, Delivered(a, b, kind)
      PROVE  SleepersHaveAWaker'
  BY <1>1, <1>4, EverybodyAwake DEF Delivered
<1>5. ASSUME NEW c \in Children, FollowUpLaunches(a, c)
      PROVE  SleepersHaveAWaker'
  <2>1. {c} # {}
    OBVIOUS
  <2> QED BY <1>1, <1>5, <2>1, LaunchWakes, EverybodyAwake DEF FollowUpLaunches
<1>6. ASSUME NEW c \in Children, Interrupt(a, c)
      PROVE  SleepersHaveAWaker'
  BY <1>1, <1>6, EverybodyAwake DEF Interrupt
<1> QED BY <1>2, <1>3, <1>4, <1>5, <1>6 DEF Tools, SendMessage, FollowUpQueued

LEMMA SleepersTurns ==
  ASSUME TypeOK, SleepersHaveAWaker, NEW r \in Turns,
         Loop(r) \/ ChildWaitTimesOut(r) \/ EndOfTurn(r) \/ Tidy(r)
  PROVE  SleepersHaveAWaker'
<1>1. turn \in [Turns -> TurnPhases] /\ mailbox \in [Agents -> SUBSET Mail]
  BY DEF TypeOK
<1>2. CASE ChildWaits(r)
  <2> SUFFICES ASSUME NEW a \in Agents,
                      IF a = Root THEN rootPhase' = "waiting" ELSE \E k \in 1 .. MaxLaunches : turn'[<<a, k>>] = "waiting"
               PROVE  MayWait(a)' \/ \E q \in Turns : turn'[q] = "reported"
    BY DEF SleepersHaveAWaker
  <2>1. UNCHANGED <<mailbox, parent, status, rootPhase>> /\ turn' = [turn EXCEPT ![r] = "waiting"] /\ MayWait(r[1])
    BY <1>2 DEF ChildWaits, sessionVars
  <2>2. MayWait(a) => MayWait(a)'
    BY <2>1 DEF MayWait, HasRunningDescendant, Above, Running
  <2>3. \A q \in Turns : turn[q] = "reported" => turn'[q] = "reported"
    BY <1>1, <1>2, <2>1 DEF ChildWaits
  <2>4. CASE a = r[1]
    BY <2>1, <2>2, <2>4
  <2>5. CASE a # r[1]
    <3>1. IF a = Root THEN rootPhase = "waiting" ELSE \E k \in 1 .. MaxLaunches : turn[<<a, k>>] = "waiting"
      <4>1. \A k \in 1 .. MaxLaunches : <<a, k>> # r
        BY <2>5
      <4> QED BY <1>1, <2>1, <4>1 DEF Agents, Turns
    <3> QED BY <2>2, <2>3, <3>1 DEF SleepersHaveAWaker
  <2> QED BY <2>4, <2>5
<1>3. CASE ReadMail(r)
  BY <1>1, <1>3, SleepersKept DEF ReadMail, sessionVars, Running
<1>4. CASE LastBoundary(r) \/ ChildWaitTimesOut(r)
  BY <1>1, <1>4, SleepersKept DEF LastBoundary, ChildWaitTimesOut, sessionVars, Running
<1>5. CASE EndOfTurn(r)
  BY <1>1, <1>5, ReportWakes DEF EndOfTurn, Complete, Fail
<1>6. CASE Tidy(r)
  <2>1. PICK lost, n : Launch(Startable(lost, n), Woken([turn EXCEPT ![r] = "settled"]))
    BY <1>6 DEF Tidy, Drain
  <2>2. \A q \in Turns : turn'[q] # "waiting"
    BY <2>1 DEF Launch, Launched, Woken
  <2>3. rootPhase' # "waiting"
    BY <1>6 DEF Tidy, RootWoken
  <2> QED BY <2>2, <2>3, EverybodyAwake
<1> QED BY <1>2, <1>3, <1>4, <1>5, <1>6 DEF Loop

LEMMA SleepersRoot ==
  ASSUME TypeOK, SleepersHaveAWaker,
         \/ RootWaits \/ RootWaitTimesOut \/ RootReadsMail \/ RootLastBoundary \/ RootEnds
         \/ Settle \/ Conclude \/ HostStop \/ HostSteers
  PROVE  SleepersHaveAWaker'
<1>1. /\ turn \in [Turns -> TurnPhases] /\ mailbox \in [Agents -> SUBSET Mail]
      /\ RootWoken # "waiting" /\ \A r \in Turns : Woken(turn)[r] # "waiting"
  BY DEF TypeOK, RootWoken, Woken
<1>2. CASE RootWaits
  <2> SUFFICES ASSUME NEW a \in Agents,
                      IF a = Root THEN rootPhase' = "waiting" ELSE \E k \in 1 .. MaxLaunches : turn'[<<a, k>>] = "waiting"
               PROVE  MayWait(a)' \/ \E q \in Turns : turn'[q] = "reported"
    BY DEF SleepersHaveAWaker
  <2>1. UNCHANGED <<mailbox, parent, status, turn>> /\ MayWait(Root)
    BY <1>2 DEF RootWaits, sessionVars
  <2>2. MayWait(a) => MayWait(a)'
    BY <2>1 DEF MayWait, HasRunningDescendant, Above, Running
  <2> QED BY <2>1, <2>2 DEF SleepersHaveAWaker
<1>3. CASE RootWaitTimesOut \/ RootReadsMail \/ RootLastBoundary \/ RootCompletes \/ Conclude
  <2>1. UNCHANGED <<parent, status, turn>> /\ (rootPhase' = "waiting" => rootPhase = "waiting")
    BY <1>3 DEF RootWaitTimesOut, RootReadsMail, RootLastBoundary, RootCompletes, Conclude, sessionVars
  <2>2. \A a \in Agents : mailbox[a] = {} => mailbox'[a] = {}
    BY <1>1, <1>3 DEF RootWaitTimesOut, RootReadsMail, RootLastBoundary, RootCompletes, Conclude
  <2> QED BY <2>1, <2>2, SleepersKept DEF Running
<1>4. CASE RootFails
  <2>1. CASE InterruptAll /\ rootPhase' = "unwinding"
    BY <1>1, <2>1, EverybodyAwake DEF InterruptAll
  <2>2. CASE UNCHANGED <<status, turn, parent, mailbox>> /\ rootPhase' = "failed"
    BY <2>2, SleepersKept DEF Running
  <2> QED BY <1>4, <2>1, <2>2 DEF RootFails
<1>5. CASE HostStop
  BY <1>1, <1>5, EverybodyAwake DEF HostStop, InterruptAll
<1>6. CASE HostSteers
  BY <1>1, <1>6, EverybodyAwake DEF HostSteers, Acts
<1>7. CASE Settle
  <2>1. PICK lost, n : /\ Launch(Startable(lost, n), turn)
                       /\ mailbox' = IF \E i \in 1 .. n : queue[i] \in lost THEN Put(mailbox, Root, "note") ELSE mailbox
    BY <1>7 DEF Settle, Drain
  <2>2. rootPhase' # "waiting" /\ parent' = parent
    BY <1>7 DEF Settle
  <2>3. CASE Startable(lost, n) # {}
    BY <1>1, <2>1, <2>2, <2>3, LaunchWakes, EverybodyAwake
  <2>4. CASE Startable(lost, n) = {}
    <3>1. turn' = turn /\ \A c \in Children : status'[c] = status[c]
      BY <2>1, <2>4 DEF Launch, Launched
    <3>2. \A a \in Agents : a # Root => mailbox'[a] = mailbox[a]
      BY <1>1, <2>1 DEF Put
    <3> QED BY <2>2, <3>1, <3>2, SleepersKept DEF Running
  <2> QED BY <2>3, <2>4
<1> QED BY <1>2, <1>3, <1>4, <1>5, <1>6, <1>7 DEF RootEnds

LEMMA SleepersNext == SubagentsAssumption /\ TreeInvariant /\ SleepersHaveAWaker /\ [Next]_vars => SleepersHaveAWaker'
<1> SUFFICES ASSUME SubagentsAssumption, TreeInvariant, SleepersHaveAWaker, [Next]_vars PROVE SleepersHaveAWaker'
  OBVIOUS
<1>1. TypeOK
  BY DEF TreeInvariant
<1>2. CASE \E a \in Agents : Tools(a)
  BY <1>1, <1>2, SleepersTools
<1>3. CASE \E r \in Turns : Loop(r) \/ ChildWaitTimesOut(r) \/ EndOfTurn(r) \/ Tidy(r)
  BY <1>1, <1>3, SleepersTurns
<1>4. CASE UNCHANGED vars
  BY <1>4, SleepersKept DEF vars, sessionVars, Running
<1> QED BY <1>1, <1>2, <1>3, <1>4, SleepersRoot DEF Next

\* However slowly an abort takes effect, an agent inside wait_agent has nothing
\* in its mailbox and a descendant that runs, or a callback that calls
\* notifyActivity is due: no wait is left to its timeout.
THEOREM NobodySleepsInVain == Spec => []SleepersHaveAWaker
<1>1. Init => TreeInvariant /\ SleepersHaveAWaker
  BY TreeInit, SubagentsAssumption DEF Init, SleepersHaveAWaker, Agents, Turns
<1>2. TreeInvariant /\ SleepersHaveAWaker /\ [Next]_vars => TreeInvariant' /\ SleepersHaveAWaker'
  BY TreeNext, SleepersNext, SubagentsAssumption
<1> QED BY <1>1, <1>2, PTL DEF Spec

-----------------------------------------------------------------------------
(* Scouts.                                                                 *)

\* A session that was launched stays in the map.
SessionsStay == \A c \in Children : launches[c] > 0 => status[c] # "absent"

\* interruptAll clears the queue and no first touch fills it after that.
StoppedQueueIsEmpty == stopped => queue = << >>

\* A turn is ending whose finally callback will drain the queue.
ADrainIsDue == \E r \in Turns : turn[r] = "reported" \/ (r \in aborted /\ turn[r] # "settled")

\* The inductive invariant behind NoStrandedScout: whatever an abort takes.
QueueIsServed == SessionsStay /\ QueueIsFresh /\ StoppedQueueIsEmpty /\ NoStrandedScout
ScoutInvariant == TreeInvariant /\ QueueIsServed

\* The limit counts the running sessions, which are finitely many.
LEMMA RunningIsFinite ==
  ASSUME SubagentsAssumption
  PROVE  /\ IsFiniteSet(Running) /\ Cardinality(Running) \in Nat
         /\ IsFiniteSet(Running') /\ Cardinality(Running') \in Nat
<1>1. IsFiniteSet(Children) /\ Running \in SUBSET Children /\ Running' \in SUBSET Children
  BY DEF SubagentsAssumption, Running
<1>2. IsFiniteSet(Running) /\ IsFiniteSet(Running')
  BY <1>1, FS_Subset
<1> QED BY <1>2, FS_CardinalityType

LEMMA FullStaysFull ==
  ASSUME SubagentsAssumption, ~HasCapacity, Running \subseteq Running'
  PROVE  ~HasCapacity'
<1>1. Cardinality(Running) <= Cardinality(Running')
  BY RunningIsFinite, FS_Subset
<1> QED BY <1>1, RunningIsFinite DEF HasCapacity, SubagentsAssumption

\* A launch ends no turn, so a drain that was due still is.
LEMMA LaunchKeepsDrain ==
  ASSUME TreeInvariant, SubagentsAssumption, NEW L, L \subseteq Children, Launch(L, turn), aborted' = aborted, ADrainIsDue
  PROVE  ADrainIsDue'
<1>1. PICK r \in Turns : turn[r] = "reported" \/ (r \in aborted /\ turn[r] # "settled")
  BY DEF ADrainIsDue
<1>2. r[1] \in Children /\ launches[r[1]] \in Nat
  BY TurnIsPair DEF TreeInvariant, TypeOK
<1>3. ~(r[2] > launches[r[1]])
  BY <1>1 DEF TreeInvariant, FutureTurnsAreUnused
<1>4. r[2] # launches[r[1]] + 1
  BY <1>2, <1>3
<1>5. turn'[r] = turn[r] \/ (turn[r] = "waiting" /\ turn'[r] = "working")
  BY <1>4 DEF Launch, Launched, Woken
<1> QED BY <1>1, <1>5 DEF ADrainIsDue

\* The queue stays fresh when a step that leaves it alone brings no other
\* surface into the map than one nobody had touched.
LEMMA FreshKept ==
  ASSUME TypeOK, SubagentsAssumption, QueueIsFresh, queue' = queue, touched \subseteq touched',
         \A c \in Children : status'[c] # "absent" => status[c] # "absent" \/ c \in Tasks \/ c \in touched' \ touched
  PROVE  QueueIsFresh'
<1>1. \A i \in 1 .. Len(queue) : queue[i] \in Surfaces /\ queue[i] \in Children /\ queue[i] \notin Tasks
  BY DEF TypeOK, Children, SubagentsAssumption
<1>2. \A s \in Surfaces : s \in Children /\ s \notin Tasks
  BY DEF Children, SubagentsAssumption
<1> QED BY <1>1, <1>2 DEF QueueIsFresh

\* A step that launches nothing and leaves the queue alone.
LEMMA QuietScouts ==
  ASSUME ScoutInvariant, SubagentsAssumption, UNCHANGED <<launches, queue, touched, stopped>>,
         \A c \in Children : status'[c] = "absent" <=> status[c] = "absent",
         ADrainIsDue' \/ (Running \subseteq Running' /\ (ADrainIsDue => ADrainIsDue'))
  PROVE  QueueIsServed'
<1>1. QueueIsFresh'
  BY FreshKept DEF ScoutInvariant, QueueIsServed, TreeInvariant
<1>2. SessionsStay' /\ StoppedQueueIsEmpty'
  BY DEF ScoutInvariant, QueueIsServed, SessionsStay, StoppedQueueIsEmpty
<1>3. NoStrandedScout'
  <2>1. CASE ADrainIsDue'
    BY <2>1 DEF ADrainIsDue, NoStrandedScout
  <2>2. CASE Running \subseteq Running' /\ ~ADrainIsDue
    BY <2>2, FullStaysFull DEF ScoutInvariant, QueueIsServed, NoStrandedScout, ADrainIsDue
  <2> QED BY <2>1, <2>2
<1> QED BY <1>1, <1>2, <1>3 DEF QueueIsServed

\* A launch that leaves the queue alone.
LEMMA LaunchScouts ==
  ASSUME ScoutInvariant, SubagentsAssumption, NEW L, L \subseteq Children, Launch(L, turn),
         UNCHANGED <<aborted, queue, stopped>>, touched \subseteq touched',
         \A c \in L : status[c] # "absent" \/ c \in Tasks \/ c \in touched' \ touched
  PROVE  QueueIsServed'
<1>1. \A c \in Children : /\ status'[c] = IF c \in L THEN "running" ELSE status[c]
                          /\ launches'[c] = IF c \in L THEN launches[c] + 1 ELSE launches[c]
  BY DEF Launch
<1>2. QueueIsFresh'
  BY <1>1, FreshKept DEF ScoutInvariant, QueueIsServed, TreeInvariant
<1>3. SessionsStay' /\ StoppedQueueIsEmpty' /\ Running \subseteq Running'
  BY <1>1 DEF ScoutInvariant, QueueIsServed, SessionsStay, StoppedQueueIsEmpty, Running
<1>4. NoStrandedScout'
  <2>1. CASE ADrainIsDue
    BY <2>1, LaunchKeepsDrain DEF ScoutInvariant, QueueIsServed, NoStrandedScout, ADrainIsDue
  <2>2. CASE ~ADrainIsDue
    BY <1>3, <2>2, FullStaysFull DEF ScoutInvariant, QueueIsServed, NoStrandedScout, ADrainIsDue
  <2> QED BY <2>1, <2>2
<1> QED BY <1>2, <1>3, <1>4 DEF QueueIsServed

\* interruptAll empties the queue.
LEMMA StopScouts ==
  ASSUME ScoutInvariant, SubagentsAssumption, InterruptAll, UNCHANGED <<launches, touched>>
  PROVE  QueueIsServed'
<1>1. queue' = << >> /\ \A c \in Children : status'[c] = "absent" <=> status[c] = "absent"
  BY DEF InterruptAll, Running
<1>2. Len(queue') = 0
  BY <1>1
<1>3. \A i : i \notin 1 .. Len(queue')
  BY <1>2
<1>4. \A s \in Surfaces : status'[s] # "absent" => s \in touched'
  BY <1>1 DEF ScoutInvariant, QueueIsServed, QueueIsFresh, Children
<1>5. QueueIsFresh'
  BY <1>3, <1>4 DEF QueueIsFresh
<1> QED BY <1>1, <1>5 DEF ScoutInvariant, QueueIsServed, SessionsStay, StoppedQueueIsEmpty, NoStrandedScout

\* drainFoundationQueue stops when the queue is empty or the threads are used up,
\* whatever became of the surfaces it looked at.
LEMMA DrainScouts ==
  ASSUME ScoutInvariant, SubagentsAssumption, NEW t, Drain(t), UNCHANGED <<touched, stopped>>
  PROVE  QueueIsServed'
<1>1. PICK lost \in SUBSET Surfaces, n \in 0 .. Len(queue) :
        /\ n = Len(queue) \/ Exhausted(lost, n) \/ stopped
        /\ Launch(Startable(lost, n), t)
        /\ queue' = SubSeq(queue, n + 1, Len(queue))
  BY DEF Drain
<1> DEFINE L == Startable(lost, n)
<1>2. queue \in Seq(Surfaces) /\ Len(queue) \in Nat /\ QueueIsFresh /\ launches \in [Children -> 0 .. MaxLaunches]
  BY DEF ScoutInvariant, QueueIsServed, TreeInvariant, TypeOK
<1>3. \A i \in 1 .. Len(queue) : queue[i] \in Surfaces /\ queue[i] \in Children
  BY <1>2 DEF Children
<1>4. L \subseteq Children /\ \A c \in L : status[c] = "absent" /\ c \in touched
  BY <1>2, <1>3 DEF Startable, QueueIsFresh
<1>5. \A c \in Children : /\ status'[c] = IF c \in L THEN "running" ELSE status[c]
                          /\ launches'[c] = IF c \in L THEN launches[c] + 1 ELSE launches[c]
  BY <1>1 DEF Launch
<1>6. Len(queue') = Len(queue) - n /\ \A i \in 1 .. Len(queue') : i + n \in 1 .. Len(queue) /\ queue'[i] = queue[i + n]
  BY <1>1, <1>2
<1>7. QueueIsFresh'
  <2>1. \A s \in Surfaces : status'[s] # "absent" => s \in touched'
    BY <1>2, <1>4, <1>5 DEF QueueIsFresh, Children
  <2>2. ASSUME NEW i \in 1 .. Len(queue')
        PROVE  queue'[i] \in touched' /\ status'[queue'[i]] = "absent"
    <3>1. i + n \in 1 .. Len(queue) /\ queue'[i] = queue[i + n]
      BY <1>6
    <3>2. \A j \in 1 .. n : j \in 1 .. Len(queue) /\ j # i + n
      BY <1>2, <1>6
    <3>3. queue[i + n] \notin L
      BY <1>2, <3>1, <3>2 DEF Startable, QueueIsFresh
    <3> QED BY <1>2, <1>3, <1>5, <3>1, <3>3 DEF QueueIsFresh
  <2>3. ASSUME NEW i \in 1 .. Len(queue'), NEW j \in 1 .. Len(queue'), queue'[i] = queue'[j]
        PROVE  i = j
    <3>1. i + n = j + n
      BY <1>2, <1>6, <2>3 DEF QueueIsFresh
    <3> QED BY <3>1, <1>2, <1>6
  <2> QED BY <2>1, <2>2, <2>3 DEF QueueIsFresh
<1>8. SessionsStay'
  BY <1>5 DEF ScoutInvariant, QueueIsServed, SessionsStay
<1>9. StoppedQueueIsEmpty'
  BY <1>1 DEF ScoutInvariant, QueueIsServed, StoppedQueueIsEmpty
<1>10. NoStrandedScout'
  <2>1. CASE n = Len(queue)
    <3>1. queue' = << >>
      BY <1>1, <1>2, <2>1
    <3> QED BY <3>1 DEF NoStrandedScout
  <2>2. CASE stopped
    <3>1. queue' = << >>
      BY <1>9, <2>2 DEF StoppedQueueIsEmpty
    <3> QED BY <3>1 DEF NoStrandedScout
  <2>3. CASE Exhausted(lost, n)
    <3>1. L \subseteq Children /\ Running' = Running \cup L /\ Running \cap L = {}
      BY <1>4, <1>5 DEF Running
    <3>2. IsFiniteSet(L)
      BY <3>1, FS_Subset DEF SubagentsAssumption
    <3>3. Cardinality(Running') = Cardinality(Running) + Cardinality(L) - Cardinality({})
      BY <3>1, <3>2, RunningIsFinite, FS_Union
    <3>4. Cardinality({}) = 0 /\ Cardinality(L) \in Nat
      BY <3>2, FS_EmptySet, FS_CardinalityType
    <3>5. Cardinality(Running') >= MaxThreads
      BY <2>3, <3>3, <3>4, RunningIsFinite DEF Exhausted
    <3>6. ~HasCapacity'
      BY <3>5, RunningIsFinite DEF HasCapacity, SubagentsAssumption
    <3> QED BY <3>6 DEF NoStrandedScout
  <2> QED BY <1>1, <2>1, <2>2, <2>3
<1> QED BY <1>7, <1>8, <1>9, <1>10 DEF QueueIsServed

\* A first touch starts the scout, queues it when the threads are used up, or,
\* after a stop, does neither.
LEMMA FirstTouchScouts ==
  ASSUME ScoutInvariant, SubagentsAssumption, NEW a \in Agents, NEW s \in Surfaces, FirstTouch(a, s)
  PROVE  QueueIsServed'
<1>1. s \in Children /\ s \notin touched /\ touched' = touched \cup {s} /\ UNCHANGED <<aborted, stopped>>
      /\ Launch(StartedBy({s}), turn)
  BY DEF FirstTouch, Children
<1>2. CASE QueuedBy({s}) = {}
  <2>1. queue' = queue
    BY <1>2 DEF FirstTouch
  <2>2. StartedBy({s}) \subseteq Children /\ \A c \in StartedBy({s}) : c \in touched' \ touched
    BY <1>1 DEF StartedBy
  <2> QED BY <1>1, <2>1, <2>2, LaunchScouts
<1>3. CASE QueuedBy({s}) # {}
  <2>1. ~stopped /\ ~HasCapacity /\ StartedBy({s}) = {} /\ queue' = Append(queue, s)
    BY <1>3 DEF QueuedBy, StartedBy, FirstTouch
  <2>2. (\A c \in Children : status'[c] = status[c]) /\ Running' = Running /\ \A c \in Children : launches'[c] = launches[c]
    BY <1>1, <2>1 DEF Launch, Running
  <2>3. queue \in Seq(Surfaces) /\ QueueIsFresh /\ \A i \in 1 .. Len(queue) : queue[i] \in Children
    BY DEF ScoutInvariant, QueueIsServed, TreeInvariant, TypeOK, Children
  <2>4. Len(queue') = Len(queue) + 1 /\ \A i \in 1 .. Len(queue') : queue'[i] = IF i = Len(queue) + 1 THEN s ELSE queue[i]
    BY <2>1, <2>3
  <2>5. status[s] = "absent" /\ \A i \in 1 .. Len(queue) : queue[i] # s
    BY <1>1, <2>3 DEF QueueIsFresh
  <2>6. QueueIsFresh'
    BY <1>1, <2>2, <2>3, <2>4, <2>5 DEF QueueIsFresh, Children
  <2>7. SessionsStay' /\ StoppedQueueIsEmpty'
    BY <1>1, <2>1, <2>2 DEF ScoutInvariant, QueueIsServed, SessionsStay, StoppedQueueIsEmpty
  <2>8. NoStrandedScout'
    BY <2>1, <2>2, FullStaysFull DEF NoStrandedScout
  <2> QED BY <2>6, <2>7, <2>8 DEF QueueIsServed
<1> QED BY <1>2, <1>3

LEMMA ToolsScouts ==
  ASSUME ScoutInvariant, SubagentsAssumption, NEW a \in Agents, Tools(a)
  PROVE  QueueIsServed'
<1>1. ASSUME NEW c \in Tasks, NEW fresh, fresh \subseteq Surfaces \ touched, Spawn(a, c, fresh)
      PROVE  QueueIsServed'
  <2>1. {c} \cup StartedBy(fresh) \subseteq Children
    BY <1>1 DEF StartedBy, Children
  <2>2. \A d \in {c} \cup StartedBy(fresh) : d \in Tasks \/ d \in (touched \cup fresh) \ touched
    BY <1>1 DEF StartedBy
  <2> QED BY <1>1, <2>1, <2>2, LaunchScouts DEF Spawn
<1>2. ASSUME NEW b, NEW kind, Delivered(a, b, kind)
      PROVE  QueueIsServed'
  <2>1. ADrainIsDue => ADrainIsDue'
    BY <1>2 DEF Delivered, ADrainIsDue, Woken
  <2> QED BY <1>2, <2>1, QuietScouts DEF Delivered, sessionVars, Running
<1>3. ASSUME NEW c \in Children, FollowUpLaunches(a, c)
      PROVE  QueueIsServed'
  <2>1. {c} \subseteq Children
    OBVIOUS
  <2> QED BY <1>3, <2>1, LaunchScouts DEF FollowUpLaunches
<1>4. ASSUME NEW c \in Children, Interrupt(a, c)
      PROVE  QueueIsServed'
  <2>1. /\ status \in [Children -> Statuses] /\ launches \in [Children -> 0 .. MaxLaunches]
        /\ SessionsHaveTurns /\ RunningTurnIsLive /\ c \in Running
    BY <1>4 DEF ScoutInvariant, TreeInvariant, TypeOK, Interrupt
  <2>2. <<c, launches[c]>> \in Turns /\ ~Ended(<<c, launches[c]>>)
    BY <2>1 DEF SessionsHaveTurns, RunningTurnIsLive, Running, Turns
  <2>3. ADrainIsDue'
    BY <1>4, <2>2 DEF Interrupt, Woken, Ended, ADrainIsDue
  <2>4. \A d \in Children : status'[d] = "absent" <=> status[d] = "absent"
    BY <1>4, <2>1 DEF Interrupt, Running
  <2> QED BY <1>4, <2>3, <2>4, QuietScouts DEF Interrupt
<1>5. CASE \E c \in Tasks : Spawn(a, c, {}) \/ \E s \in Surfaces \ touched : Spawn(a, c, {s})
  <2>1. {} \subseteq Surfaces \ touched /\ \A s \in Surfaces \ touched : {s} \subseteq Surfaces \ touched
    OBVIOUS
  <2> QED BY <1>1, <1>5, <2>1
<1> QED BY <1>2, <1>3, <1>4, <1>5, FirstTouchScouts DEF Tools, SendMessage, FollowUpQueued

LEMMA TurnsScouts ==
  ASSUME ScoutInvariant, SubagentsAssumption, NEW r \in Turns,
         Loop(r) \/ ChildWaitTimesOut(r) \/ EndOfTurn(r) \/ Tidy(r)
  PROVE  QueueIsServed'
<1>1. /\ turn \in [Turns -> TurnPhases] /\ status \in [Children -> Statuses] /\ r[1] \in Children
      /\ launches \in [Children -> 0 .. MaxLaunches]
  BY TurnIsPair DEF ScoutInvariant, TreeInvariant, TypeOK
<1>2. CASE Loop(r) \/ ChildWaitTimesOut(r)
  <2>1. ADrainIsDue => ADrainIsDue'
    BY <1>1, <1>2 DEF Loop, ChildWaits, ReadMail, LastBoundary, ChildWaitTimesOut, ADrainIsDue
  <2> QED BY <1>2, <2>1, QuietScouts
          DEF Loop, ChildWaits, ReadMail, LastBoundary, ChildWaitTimesOut, sessionVars, Running
<1>3. CASE EndOfTurn(r)
  <2>1. turn[r] # "none" /\ turn'[r] = "reported" /\ UNCHANGED <<launches, queue, touched, stopped>>
        /\ \/ status' = status
           \/ status' = [status EXCEPT ![r[1]] = "completed"]
           \/ status' = [status EXCEPT ![r[1]] = "errored"]
    BY <1>1, <1>3 DEF EndOfTurn, Complete, Fail
  <2>2. ~(r[2] > launches[r[1]])
    BY <2>1 DEF ScoutInvariant, TreeInvariant, FutureTurnsAreUnused
  <2>3. r[2] \in Nat /\ r[2] > 0
    BY TurnIsPair
  <2>4. launches[r[1]] > 0
    BY <1>1, <2>2, <2>3
  <2>5. status[r[1]] # "absent"
    BY <1>1, <2>4 DEF ScoutInvariant, QueueIsServed, SessionsStay
  <2>6. \A c \in Children : status'[c] = "absent" <=> status[c] = "absent"
    BY <1>1, <2>1, <2>5
  <2>7. ADrainIsDue'
    BY <2>1 DEF ADrainIsDue
  <2> QED BY <2>1, <2>6, <2>7, QuietScouts
<1>4. CASE Tidy(r)
  BY <1>4, DrainScouts DEF Tidy
<1> QED BY <1>2, <1>3, <1>4

LEMMA RootScouts ==
  ASSUME ScoutInvariant, SubagentsAssumption,
         \/ RootWaits \/ RootWaitTimesOut \/ RootReadsMail \/ RootLastBoundary \/ RootEnds
         \/ Settle \/ Conclude \/ HostStop \/ HostSteers
  PROVE  QueueIsServed'
<1>1. CASE RootWaits \/ RootWaitTimesOut \/ RootReadsMail \/ RootLastBoundary \/ RootCompletes \/ Conclude
  <2>1. UNCHANGED <<status, launches, turn, aborted, stopped, queue, touched>>
    BY <1>1 DEF RootWaits, RootWaitTimesOut, RootReadsMail, RootLastBoundary, RootCompletes, Conclude, sessionVars
  <2> QED BY <2>1, QuietScouts DEF Running, ADrainIsDue
<1>2. CASE RootFails \/ HostStop
  <2>1. CASE InterruptAll
    BY <1>2, <2>1, StopScouts DEF RootFails, HostStop
  <2>2. CASE ~InterruptAll
    BY <1>2, <2>2, QuietScouts DEF RootFails, HostStop, Running, ADrainIsDue
  <2> QED BY <2>1, <2>2
<1>3. CASE Settle
  BY <1>3, DrainScouts DEF Settle
<1>4. CASE HostSteers
  <2>1. ADrainIsDue => ADrainIsDue'
    BY <1>4 DEF HostSteers, ADrainIsDue, Woken
  <2> QED BY <1>4, <2>1, QuietScouts DEF HostSteers, sessionVars, Running
<1> QED BY <1>1, <1>2, <1>3, <1>4 DEF RootEnds

LEMMA ScoutInit == SubagentsAssumption /\ Init => ScoutInvariant
<1> SUFFICES ASSUME SubagentsAssumption, Init PROVE ScoutInvariant
  OBVIOUS
<1>1. TreeInvariant
  BY TreeInit
<1>2. QueueIsServed
  BY DEF Init, QueueIsServed, SessionsStay, QueueIsFresh, StoppedQueueIsEmpty, NoStrandedScout, Children
<1> QED BY <1>1, <1>2 DEF ScoutInvariant

LEMMA ScoutNext == SubagentsAssumption /\ ScoutInvariant /\ [Next]_vars => ScoutInvariant'
<1> SUFFICES ASSUME SubagentsAssumption, ScoutInvariant, [Next]_vars PROVE ScoutInvariant'
  OBVIOUS
<1>1. TreeInvariant'
  BY TreeNext DEF ScoutInvariant
<1>2. CASE \E a \in Agents : Tools(a)
  BY <1>1, <1>2, ToolsScouts DEF ScoutInvariant
<1>3. CASE \E r \in Turns : Loop(r) \/ ChildWaitTimesOut(r) \/ EndOfTurn(r) \/ Tidy(r)
  BY <1>1, <1>3, TurnsScouts DEF ScoutInvariant
<1>4. CASE UNCHANGED vars
  <2>1. QueueIsServed'
    BY <1>4, QuietScouts DEF vars, sessionVars, Running, ADrainIsDue
  <2> QED BY <1>1, <2>1 DEF ScoutInvariant
<1> QED BY <1>1, <1>2, <1>3, <1>4, RootScouts DEF Next, ScoutInvariant

\* drainFoundationQueue is called from the finally callback of every turn and
\* from every round of settle, and nowhere else; that is enough.  However slowly
\* an abort takes effect, a scout that stays queued finds the threads used up or
\* a turn that has yet to run its finally callback.
THEOREM QueuedScoutsAreServed == Spec => []NoStrandedScout
<1>1. Init => ScoutInvariant
  BY ScoutInit, SubagentsAssumption
<1>2. ScoutInvariant /\ [Next]_vars => ScoutInvariant'
  BY ScoutNext, SubagentsAssumption
<1>3. ScoutInvariant => NoStrandedScout
  BY DEF ScoutInvariant, QueueIsServed
<1> QED BY <1>1, <1>2, <1>3, PTL DEF Spec

-----------------------------------------------------------------------------
(* The answer.                                                             *)

\* From the end of settle on, the last turn of every session has run its finally
\* callback and no scout is queued; the answer is given on an empty mailbox.
AnswerIsReady ==
    rootPhase \in {"flushing", "done"} =>
      /\ queue = << >>
      /\ \A c \in Children : launches[c] > 0 => turn[<<c, launches[c]>>] = "settled"
      /\ rootPhase = "done" => mailbox[Root] = {}

\* With a prompt abort no callback of an aborted turn speaks for a later one.
NothingOverruns == PromptAbort => overrun = {}

\* The inductive invariant behind AnswerIsCurrent.
AnswerInvariant == ShownInvariant /\ NothingOverruns /\ QueueIsServed /\ AnswerIsReady

LEMMA OverrunNext == NothingOverruns /\ [Next]_vars => NothingOverruns'
<1> SUFFICES ASSUME PromptAbort, overrun = {}, [Next]_vars
             PROVE  overrun' = {}
  BY DEF NothingOverruns
<1>1. ASSUME NEW r \in Turns, EndOfTurn(r)
      PROVE  overrun' = {}
  BY <1>1 DEF EndOfTurn, Complete, Fail, Alive
<1>2. CASE \E a \in Agents : Tools(a)
  BY <1>2 DEF Tools, FirstTouch, Spawn, SendMessage, FollowUpQueued, Delivered, FollowUpLaunches, Interrupt
<1>3. CASE \E r \in Turns : Loop(r) \/ ChildWaitTimesOut(r) \/ EndOfTurn(r) \/ Tidy(r)
  BY <1>1, <1>3 DEF Loop, ChildWaits, ReadMail, LastBoundary, ChildWaitTimesOut, Tidy
<1>4. CASE ~(\E a \in Agents : Tools(a)) /\ ~(\E r \in Turns : EndOfTurn(r) \/ Tidy(r))
  BY <1>4 DEF Next, Loop, ChildWaits, ReadMail, LastBoundary, ChildWaitTimesOut, RootWaits, RootWaitTimesOut,
              RootReadsMail, RootLastBoundary, RootEnds, RootCompletes, RootFails, Settle, Conclude, HostStop,
              HostSteers, vars
<1> QED BY <1>2, <1>3, <1>4

\* Once settle has returned, only turns that were aborted are left, and with a
\* prompt abort those call nothing.
LEMMA OnlyAbortedTurnsAreLeft ==
  ASSUME ShownInvariant, NothingOverruns, PromptAbort, AnswerIsReady, rootPhase \in {"flushing", "done"}
  PROVE  Running = {} /\ \A r \in Turns : Ended(r) \/ r \in aborted
<1>1. \A c \in Children : launches[c] > 0 => Ended(<<c, launches[c]>>)
  BY DEF AnswerIsReady, Ended
<1>2. \A c \in Running : launches[c] > 0 /\ ~Ended(<<c, launches[c]>>)
  BY DEF ShownInvariant, TreeInvariant, SessionsHaveTurns, RunningTurnIsLive, Running
<1>3. Running = {}
  BY <1>1, <1>2 DEF Running
<1>4. \A r \in Turns : ~Overtaken(r)
  BY DEF NothingOverruns, Overtaken
<1> QED BY <1>3, <1>4, TurnIsPair DEF ShownInvariant, LiveTurnsAreShown, Running

LEMMA NobodyActsAfterSettle ==
  ASSUME ShownInvariant, NothingOverruns, PromptAbort, AnswerIsReady, rootPhase \in {"flushing", "done"}
  PROVE  /\ \A a \in Agents : ~Acts(a)
         /\ \A r \in Turns : ~Ended(r) => ~Alive(r)
<1>1. \A r \in Turns : ~Ended(r) => ~Alive(r)
  BY OnlyAbortedTurnsAreLeft DEF Alive
<1>2. ASSUME NEW a \in Agents, Acts(a)
      PROVE  FALSE
  <2>1. a # Root
    BY <1>2 DEF Acts
  <2>2. PICK k \in 1 .. MaxLaunches : turn[<<a, k>>] = "working" /\ Alive(<<a, k>>)
    BY <1>2, <2>1 DEF Acts
  <2>3. <<a, k>> \in Turns /\ ~Ended(<<a, k>>)
    BY <2>1, <2>2 DEF Agents, Turns, Ended
  <2> QED BY <1>1, <2>2, <2>3
<1> QED BY <1>1, <1>2

\* A step that settles no other turn and leaves the queue and the root's mailbox.
LEMMA ReadyKept ==
  ASSUME AnswerIsReady, UNCHANGED <<launches, queue>>,
         rootPhase' \in {"flushing", "done"} => rootPhase \in {"flushing", "done"},
         rootPhase' = "done" => (rootPhase = "done" /\ mailbox'[Root] = mailbox[Root]) \/ mailbox'[Root] = {},
         \A c \in Children : launches[c] > 0 /\ turn[<<c, launches[c]>>] = "settled" =>
                               turn'[<<c, launches[c]>>] = "settled"
  PROVE  AnswerIsReady'
  BY DEF AnswerIsReady

LEMMA LastTurnIsATurn ==
  ASSUME TypeOK, NEW c \in Children, launches[c] > 0
  PROVE  <<c, launches[c]>> \in Turns
<1>1. launches[c] \in 0 .. MaxLaunches
  BY DEF TypeOK
<1>2. launches[c] \in 1 .. MaxLaunches
  BY <1>1
<1> QED BY <1>2 DEF Turns

LEMMA ToolsReady ==
  ASSUME AnswerInvariant, PromptAbort, NEW a \in Agents, Tools(a)
  PROVE  AnswerIsReady'
<1>1. Acts(a)
  BY DEF Tools, FirstTouch, Spawn, SendMessage, FollowUpQueued, FollowUpLaunches, Interrupt, Delivered
<1>2. rootPhase \notin {"flushing", "done"}
  BY <1>1, NobodyActsAfterSettle DEF AnswerInvariant
<1>3. rootPhase' \in {rootPhase, "working"}
  BY DEF Tools, FirstTouch, Spawn, SendMessage, FollowUpQueued, FollowUpLaunches, Interrupt, Delivered, RootWoken
<1> QED BY <1>2, <1>3 DEF AnswerIsReady

LEMMA TurnsReady ==
  ASSUME AnswerInvariant, PromptAbort, NEW r \in Turns,
         Loop(r) \/ ChildWaitTimesOut(r) \/ EndOfTurn(r) \/ Tidy(r)
  PROVE  AnswerIsReady'
<1>1. TypeOK /\ turn \in [Turns -> TurnPhases] /\ ShownInvariant /\ NothingOverruns /\ AnswerIsReady
  BY DEF AnswerInvariant, ShownInvariant, TreeInvariant, TypeOK
<1>2. rootPhase' \in {rootPhase, "working"}
  BY DEF Loop, ChildWaits, ReadMail, LastBoundary, ChildWaitTimesOut, EndOfTurn, Complete, Fail, Tidy, RootWoken
<1>3. CASE rootPhase \notin {"flushing", "done"}
  BY <1>2, <1>3 DEF AnswerIsReady
<1>4. CASE rootPhase \in {"flushing", "done"}
  <2>1. ~Ended(r) => r \in aborted /\ ~Alive(r)
    BY <1>1, <1>4, OnlyAbortedTurnsAreLeft, NobodyActsAfterSettle
  <2>2. CASE Loop(r) \/ Complete(r)
    BY <2>1, <2>2 DEF Loop, ChildWaits, ReadMail, LastBoundary, Complete, Ended
  <2>3. CASE ChildWaitTimesOut(r)
    <3>1. \A q \in Turns : turn[q] = "settled" => turn'[q] = "settled"
      BY <1>1, <2>3 DEF ChildWaitTimesOut
    <3> QED BY <1>1, <2>3, <3>1, LastTurnIsATurn, ReadyKept DEF ChildWaitTimesOut, sessionVars
  <2>4. CASE Fail(r)
    <3>1. \A q \in Turns : turn[q] = "settled" => turn'[q] = "settled"
      BY <1>1, <2>4 DEF Fail
    <3>2. mailbox' = mailbox
      BY <2>1, <2>4 DEF Fail, Ended
    <3> QED BY <1>1, <2>4, <3>1, <3>2, LastTurnIsATurn, ReadyKept DEF Fail
  <2>5. CASE Tidy(r)
    <3>1. PICK lost \in SUBSET Surfaces, n \in 0 .. Len(queue) :
            /\ Launch(Startable(lost, n), Woken([turn EXCEPT ![r] = "settled"]))
            /\ queue' = SubSeq(queue, n + 1, Len(queue))
            /\ mailbox' = IF \E i \in 1 .. n : queue[i] \in lost THEN Put(mailbox, Root, "note") ELSE mailbox
      BY <2>5 DEF Tidy, Drain
    <3>2. queue = << >> /\ n = 0
      BY <1>1, <1>4 DEF AnswerIsReady
    <3>3. Startable(lost, n) = {} /\ queue' = queue /\ mailbox' = mailbox
      BY <3>1, <3>2 DEF Startable
    <3>4. launches' = launches /\ \A q \in Turns : turn[q] = "settled" => turn'[q] = "settled"
      BY <1>1, <3>1, <3>3 DEF Launch, Launched, Woken, TypeOK
    <3>5. rootPhase' = rootPhase
      BY <1>4, <2>5 DEF Tidy, RootWoken
    <3> QED BY <1>1, <3>3, <3>4, <3>5, LastTurnIsATurn, ReadyKept
  <2> QED BY <2>2, <2>3, <2>4, <2>5 DEF EndOfTurn
<1> QED BY <1>3, <1>4

\* settle returns when the last turn of every session has settled; the drain it
\* has just made left nothing in the queue, for nobody runs.
LEMMA SettleReady ==
  ASSUME AnswerInvariant, SubagentsAssumption, Settle, TreeInvariant', QueueIsServed'
  PROVE  AnswerIsReady'
<1> SUFFICES ASSUME rootPhase' \in {"flushing", "done"} PROVE AnswerIsReady'
  BY DEF AnswerIsReady
<1>1. Promises' = {} /\ rootPhase' = "flushing"
  BY DEF Settle
<1>2. \A c \in Children : launches'[c] > 0 => turn'[<<c, launches'[c]>>] = "settled"
  BY <1>1 DEF Promises
<1>3. Running' = {}
  <2>1. \A c \in Children : status'[c] = "running" =>
          launches'[c] > 0 /\ turn'[<<c, launches'[c]>>] \notin {"none", "reported", "settled"}
    BY DEF TreeInvariant, SessionsHaveTurns, RunningTurnIsLive, Running, Ended
  <2> QED BY <1>2, <2>1 DEF Running
<1>4. queue' = << >>
  <2>1. PICK lost \in SUBSET Surfaces, n \in 0 .. Len(queue) :
          /\ n = Len(queue) \/ Exhausted(lost, n) \/ stopped
          /\ Launch(Startable(lost, n), turn)
          /\ queue' = SubSeq(queue, n + 1, Len(queue))
    BY DEF Settle, Drain
  <2>2. queue \in Seq(Surfaces) /\ Len(queue) \in Nat
    BY DEF AnswerInvariant, ShownInvariant, TreeInvariant, TypeOK
  <2>3. CASE n = Len(queue)
    BY <2>1, <2>2, <2>3
  <2>4. CASE stopped
    BY <2>4 DEF Settle, QueueIsServed, StoppedQueueIsEmpty
  <2>5. CASE Exhausted(lost, n)
    <3>1. \A i \in 1 .. n : queue[i] \in Children
      BY <2>2 DEF Children
    <3>2. Running \subseteq Running' /\ Startable(lost, n) \subseteq Running'
      BY <2>1, <3>1 DEF Launch, Running, Startable
    <3>3. Running = {} /\ Startable(lost, n) = {}
      BY <1>3, <3>2
    <3>4. Cardinality(Running) = 0 /\ Cardinality(Startable(lost, n)) = 0
      BY <3>3, FS_EmptySet
    <3> QED BY <2>5, <3>4 DEF Exhausted, SubagentsAssumption
  <2> QED BY <2>1, <2>3, <2>4, <2>5
<1> QED BY <1>1, <1>2, <1>4 DEF AnswerIsReady

LEMMA RootReady ==
  ASSUME AnswerInvariant, PromptAbort, SubagentsAssumption,
         \/ RootWaits \/ RootWaitTimesOut \/ RootReadsMail \/ RootLastBoundary \/ RootEnds
         \/ Conclude \/ HostStop \/ HostSteers
  PROVE  AnswerIsReady'
<1>1. TypeOK /\ AnswerIsReady
  BY DEF AnswerInvariant, ShownInvariant, TreeInvariant
<1>2. CASE RootWaits \/ RootWaitTimesOut \/ RootReadsMail \/ RootLastBoundary \/ RootEnds \/ HostSteers
  <2>1. rootPhase' \notin {"flushing", "done"}
    <3>1. HostSteers => rootPhase \notin {"flushing", "done"} /\ rootPhase' \in {rootPhase, "working"}
      BY NobodyActsAfterSettle DEF HostSteers, RootWoken, AnswerInvariant
    <3> QED BY <1>2, <3>1 DEF RootWaits, RootWaitTimesOut, RootReadsMail, RootLastBoundary, RootEnds,
                              RootCompletes, RootFails, Acts
  <2> QED BY <2>1 DEF AnswerIsReady
<1>3. CASE Conclude
  <2>1. rootPhase' = "done" => mailbox'[Root] = {}
    BY <1>3 DEF Conclude, NothingToFollowUp
  <2> QED BY <1>1, <1>3, <2>1, ReadyKept DEF Conclude, sessionVars
<1>4. CASE HostStop
  <2>1. \A q \in Turns : turn[q] = "settled" => turn'[q] = "settled"
    BY <1>4 DEF HostStop, InterruptAll, Woken
  <2>2. rootPhase' \in {rootPhase, "working"} /\ rootPhase # "done" /\ UNCHANGED <<launches, mailbox>>
    BY <1>4 DEF HostStop, RootWoken
  <2>3. queue' = << >>
    BY <1>4 DEF HostStop, InterruptAll
  <2> QED BY <1>1, <2>1, <2>2, <2>3, LastTurnIsATurn DEF AnswerIsReady
<1> QED BY <1>2, <1>3, <1>4

LEMMA AnswerNext == SubagentsAssumption /\ PromptAbort /\ AnswerInvariant /\ [Next]_vars => AnswerInvariant'
<1> SUFFICES ASSUME SubagentsAssumption, PromptAbort, AnswerInvariant, [Next]_vars PROVE AnswerInvariant'
  OBVIOUS
<1>1. ShownInvariant'
  BY ShownNext DEF AnswerInvariant
<1>2. NothingOverruns'
  BY OverrunNext DEF AnswerInvariant
<1>3. TreeInvariant' /\ QueueIsServed'
  BY ScoutNext DEF AnswerInvariant, ShownInvariant, ScoutInvariant
<1>4. AnswerIsReady'
  <2>1. CASE \E a \in Agents : Tools(a)
    BY <2>1, ToolsReady
  <2>2. CASE \E r \in Turns : Loop(r) \/ ChildWaitTimesOut(r) \/ EndOfTurn(r) \/ Tidy(r)
    BY <2>2, TurnsReady
  <2>3. CASE Settle
    BY <1>3, <2>3, SettleReady
  <2>4. CASE UNCHANGED vars
    BY <2>4, ReadyKept DEF AnswerInvariant, vars, sessionVars
  <2> QED BY <2>1, <2>2, <2>3, <2>4, RootReady DEF Next
<1> QED BY <1>1, <1>2, <1>3, <1>4 DEF AnswerInvariant

\* When aborted turns cannot succeed, the root answers (settle, the flush and the
\* last check of the run loop, in that order) only when its mailbox and the scout
\* queue are empty and no turn is left that could still write to it, and nothing
\* changes that afterwards.
THEOREM AnswerIsFinal ==
  ASSUME PromptAbort
  PROVE  Spec => []AnswerIsCurrent
<1>1. Init => AnswerInvariant
  BY ShownInit, ScoutInit, SubagentsAssumption DEF Init, AnswerInvariant, ScoutInvariant, AnswerIsReady, NothingOverruns
<1>2. AnswerInvariant /\ [Next]_vars => AnswerInvariant'
  BY AnswerNext, SubagentsAssumption
<1>3. AnswerInvariant => AnswerIsCurrent
  BY OnlyAbortedTurnsAreLeft DEF AnswerInvariant, AnswerIsReady, AnswerIsCurrent
<1> QED BY <1>1, <1>2, <1>3, PTL DEF Spec
=============================================================================
