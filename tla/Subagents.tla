------------------------------ MODULE Subagents ------------------------------
(***************************************************************************)
(* The tree of agents of one research session (subagent-runtime.ts) and    *)
(* the loop that runs its root (agent-executor.ts).                        *)
(*                                                                         *)
(* A child session outlives its turns: each launch starts a turn, and      *)
(* several turns of one session can be in flight when one was aborted and  *)
(* the session launched again.  The manager is single-threaded; an action  *)
(* is the code that runs without giving up the event loop.  The agent loop *)
(* that executes a turn is external: it decides which tool is called next, *)
(* when a message boundary is reached and how a turn ends.                 *)
(***************************************************************************)
EXTENDS Naturals, Sequences, FiniteSets

CONSTANTS
    Tasks,              \* task paths that agents may spawn
    Surfaces,           \* research surfaces; the scout of a surface is named after it
    MaxThreads,         \* maxThreads
    MaxDepth,           \* maxDepth: 1, or 2 in track mode
    MaxChildren,        \* maxChildrenPerNonRootAgent
    MaxContinuations,   \* maxCollaborationContinuations
    MaxLaunches,        \* bound: turns per child session
    MaxAsks,            \* bound: messages between agents, and host steering
    PromptAbort         \* an aborted turn calls no further tool and cannot succeed

Root == "root"
Children == Tasks \cup Surfaces
Agents == Children \cup {Root}

ASSUME SubagentsAssumption ==
    /\ Root \notin Children /\ Tasks \cap Surfaces = {}
    /\ IsFiniteSet(Children)
    /\ MaxThreads \in Nat \ {0} /\ MaxDepth \in {1, 2} /\ MaxChildren \in Nat \ {0}
    /\ MaxContinuations \in Nat /\ MaxLaunches \in Nat \ {0} /\ MaxAsks \in Nat
    /\ PromptAbort \in BOOLEAN

\* Turn <<c, k>> is the one that the k-th launch of session c started.
Turns == Children \X (1 .. MaxLaunches)
TurnPhases == {"none", "working", "waiting", "finishing", "reported", "settled"}
Statuses == {"absent", "running", "completed", "errored", "interrupted"}
RootPhases == {"working", "waiting", "finishing", "settling", "unwinding", "flushing", "done", "failed"}
Mail == {"note", "followup"}

VARIABLES
    status, parent, depth,
    launches,           \* turns launched so far; the last one owns session.controller and .promise
    turn,               \* "reported": its then/catch ran, its finally has not
    aborted,            \* turns whose controller was aborted
    overrun,            \* history: aborted turns that succeeded all the same and wrote their status
    mailbox,            \* each session's mailbox: follow-up tasks, and anything else
    touched,            \* surfaces with a recorded first touch
    queue,              \* foundationQueue
    stopped,
    rootPhase,
    awaited,            \* the turns Promise.allSettled was given in settle
    continuations,
    asks

sessionVars == <<status, parent, depth, launches>>
rootVars == <<awaited, continuations>>
vars == <<sessionVars, turn, aborted, overrun, mailbox, touched, queue, stopped, rootPhase, rootVars, asks>>

Running == {c \in Children : status[c] = "running"}
Ended(r) == turn[r] \in {"none", "reported", "settled"}
Existing == {Root} \cup {c \in Children : status[c] # "absent"}
Above(a, b) == b # Root /\ (parent[b] = a \/ (parent[b] # Root /\ parent[parent[b]] = a))
HasRunningDescendant(a) == \E c \in Running : Above(a, c)
HasCapacity == Cardinality(Running) < MaxThreads
DepthOf(a) == IF a = Root THEN 0 ELSE depth[a]

Init ==
    /\ status = [c \in Children |-> "absent"]
    /\ parent = [c \in Children |-> Root]
    /\ depth = [c \in Children |-> 0]
    /\ launches = [c \in Children |-> 0]
    /\ turn = [r \in Turns |-> "none"]
    /\ aborted = {}
    /\ overrun = {}
    /\ mailbox = [a \in Agents |-> {}]
    /\ touched = {}
    /\ queue = << >>
    /\ stopped = FALSE
    /\ rootPhase = "working"
    /\ awaited = {}
    /\ continuations = 0
    /\ asks = 0

-----------------------------------------------------------------------------
(* Pieces the operations share.                                            *)

\* Only a turn that is inside its agent loop calls tools.
Alive(r) == ~(PromptAbort /\ r \in aborted)
Acts(a) == IF a = Root THEN rootPhase = "working" /\ ~(PromptAbort /\ stopped)
                       ELSE \E k \in 1 .. MaxLaunches : turn[<<a, k>>] = "working" /\ Alive(<<a, k>>)

\* notifyActivity: every pending wait_agent returns.
Woken(t) == [r \in Turns |-> IF t[r] = "waiting" THEN "working" ELSE t[r]]
RootWoken == IF rootPhase = "waiting" THEN "working" ELSE rootPhase

\* launch, for the sessions in L one after the other.
Launched(L, t) ==
    IF L = {} THEN t
    ELSE [r \in Turns |-> IF r[1] \in L /\ r[2] = launches[r[1]] + 1 THEN "working" ELSE Woken(t)[r]]
Launch(L, t) ==
    /\ \A c \in L : launches[c] < MaxLaunches
    /\ status' = [c \in Children |-> IF c \in L THEN "running" ELSE status[c]]
    /\ launches' = [c \in Children |-> IF c \in L THEN launches[c] + 1 ELSE launches[c]]
    /\ turn' = Launched(L, t)

Put(box, a, kind) == [box EXCEPT ![a] = @ \cup {kind}]

\* enqueueParentNotification
Notified(c) == Put(mailbox, parent[c], "note")

\* interruptAll
StopOwnChildrenOnly ==
    /\ stopped' = TRUE
    /\ queue' = << >>
    /\ status' = [c \in Children |-> IF c \in Running /\ parent[c] = Root THEN "interrupted" ELSE status[c]]
    /\ aborted' = aborted \cup {<<c, launches[c]>> : c \in {d \in Running : parent[d] = Root}}
    /\ turn' = Woken(turn)
InterruptAll ==
    /\ stopped' = TRUE
    /\ queue' = << >>
    /\ status' = [c \in Children |-> IF c \in Running THEN "interrupted" ELSE status[c]]
    /\ aborted' = aborted \cup {<<c, launches[c]>> : c \in Running}
    /\ turn' = Woken(turn)

-----------------------------------------------------------------------------
(* Foundation scouts.                                                      *)

\* spawnFoundationScout on the first touch of s: start now, queue, or neither.
StartedBy(fresh) == IF ~stopped /\ HasCapacity THEN fresh ELSE {}
QueuedBy(fresh) == IF ~stopped /\ ~HasCapacity THEN fresh ELSE {}

\* drainFoundationQueue: queued scouts start in order until the threads are
\* used up; one whose surface lost its eligibility is reported to the root.
Startable(lost, n) == {queue[i] : i \in 1 .. n} \ lost
Exhausted(lost, n) == Cardinality(Running) + Cardinality(Startable(lost, n)) >= MaxThreads
DrainNothing(t) ==
    /\ Launch({}, t)
    /\ UNCHANGED <<queue, depth, mailbox>>
Drain(t) ==
    \E lost \in SUBSET Surfaces, n \in 0 .. Len(queue) :
      /\ n = Len(queue) \/ Exhausted(lost, n) \/ stopped
      /\ \A i \in 0 .. Len(queue) : i < n => ~Exhausted(lost, i)
      /\ stopped => n = 0
      /\ Launch(Startable(lost, n), t)
      /\ queue' = SubSeq(queue, n + 1, Len(queue))
      /\ depth' = [c \in Children |-> IF c \in Startable(lost, n) THEN 1 ELSE depth[c]]
      /\ mailbox' = IF \E i \in 1 .. n : queue[i] \in lost THEN Put(mailbox, Root, "note") ELSE mailbox

\* A tool of agent a focuses on a surface nobody touched before.
FirstTouch(a, s) ==
    /\ Acts(a)
    /\ s \notin touched
    /\ touched' = touched \cup {s}
    /\ Launch(StartedBy({s}), turn)
    /\ queue' = IF QueuedBy({s}) = {} THEN queue ELSE Append(queue, s)
    /\ depth' = [c \in Children |-> IF c \in StartedBy({s}) THEN 1 ELSE depth[c]]
    /\ mailbox' = IF StartedBy({s}) # {} /\ a # Root THEN Put(mailbox, Root, "note") ELSE mailbox
    /\ rootPhase' = IF StartedBy({s}) # {} THEN RootWoken ELSE rootPhase
    /\ UNCHANGED <<parent, aborted, overrun, stopped, rootVars, asks>>

-----------------------------------------------------------------------------
(* The collaboration tools.                                                *)

\* spawn: when the assigned surface was never touched (fresh), focus starts
\* its scout from inside the spawn, before the child itself is launched.
Spawn(a, c, fresh) ==
    /\ Acts(a)
    /\ status[c] = "absent"
    /\ DepthOf(a) < MaxDepth
    /\ a # Root => Cardinality({d \in Children : status[d] # "absent" /\ parent[d] = a}) < MaxChildren
    /\ HasCapacity
    /\ touched' = touched \cup fresh
    /\ Launch({c} \cup StartedBy(fresh), turn)
    /\ parent' = [parent EXCEPT ![c] = a]
    /\ depth' = [d \in Children |-> IF d = c THEN DepthOf(a) + 1
                                    ELSE IF d \in StartedBy(fresh) THEN 1 ELSE depth[d]]
    /\ mailbox' = IF StartedBy(fresh) # {} THEN Put(mailbox, Root, "note") ELSE mailbox
    /\ rootPhase' = RootWoken
    /\ UNCHANGED <<aborted, overrun, queue, stopped, rootVars, asks>>

Delivered(a, b, kind) ==
    /\ Acts(a)
    /\ a # b /\ b \in Existing
    /\ asks < MaxAsks /\ asks' = asks + 1
    /\ mailbox' = Put(mailbox, b, kind)
    /\ turn' = Woken(turn)
    /\ rootPhase' = RootWoken
    /\ UNCHANGED <<sessionVars, aborted, overrun, touched, queue, stopped, rootVars>>

SendMessage(a, b) == Delivered(a, b, "note")

\* followup_task: a running child finds the message in its mailbox, any other
\* child is launched again.
FollowUpQueued(a, c) == status[c] = "running" /\ Delivered(a, c, "followup")
FollowUpLaunches(a, c) ==
    /\ Acts(a)
    /\ a # c /\ status[c] \notin {"absent", "running"}
    /\ HasCapacity
    /\ asks < MaxAsks /\ asks' = asks + 1
    /\ Launch({c}, turn)
    /\ rootPhase' = RootWoken
    /\ UNCHANGED <<parent, depth, aborted, overrun, mailbox, touched, queue, stopped, rootVars>>

InterruptKeepingStatus(a, c) ==
    /\ Acts(a)
    /\ a # c /\ c \in Running
    /\ aborted' = aborted \cup {<<c, launches[c]>>}
    /\ mailbox' = Notified(c)
    /\ turn' = Woken(turn)
    /\ rootPhase' = RootWoken
    /\ UNCHANGED <<sessionVars, overrun, touched, queue, stopped, rootVars, asks>>
Interrupt(a, c) ==
    /\ Acts(a)
    /\ a # c /\ c \in Running
    /\ status' = [status EXCEPT ![c] = "interrupted"]
    /\ aborted' = aborted \cup {<<c, launches[c]>>}
    /\ mailbox' = Notified(c)
    /\ turn' = Woken(turn)
    /\ rootPhase' = RootWoken
    /\ UNCHANGED <<parent, depth, launches, overrun, touched, queue, stopped, rootVars, asks>>

\* wait_agent suspends its turn only with an empty mailbox and something to wait for.
MayWait(a) == mailbox[a] = {} /\ HasRunningDescendant(a)
ChildWaits(r) ==
    /\ turn[r] = "working" /\ Alive(r) /\ MayWait(r[1])
    /\ turn' = [turn EXCEPT ![r] = "waiting"]
    /\ UNCHANGED <<sessionVars, aborted, overrun, mailbox, touched, queue, stopped, rootPhase, rootVars, asks>>
ChildWaitTimesOut(r) ==
    /\ turn[r] = "waiting"
    /\ turn' = [turn EXCEPT ![r] = "working"]
    /\ UNCHANGED <<sessionVars, aborted, overrun, mailbox, touched, queue, stopped, rootPhase, rootVars, asks>>
RootWaits ==
    /\ Acts(Root) /\ MayWait(Root)
    /\ rootPhase' = "waiting"
    /\ UNCHANGED <<sessionVars, turn, aborted, overrun, mailbox, touched, queue, stopped, rootVars, asks>>
RootWaitTimesOut ==
    /\ rootPhase = "waiting"
    /\ rootPhase' = "working"
    /\ UNCHANGED <<sessionVars, turn, aborted, overrun, mailbox, touched, queue, stopped, rootVars, asks>>

-----------------------------------------------------------------------------
(* The turn of a child.                                                    *)

\* getSteeringMessages and getFollowUpMessages empty the session's mailbox.
ReadMail(r) ==
    /\ turn[r] = "working" /\ Alive(r)
    /\ mailbox[r[1]] # {}
    /\ mailbox' = [mailbox EXCEPT ![r[1]] = {}]
    /\ UNCHANGED <<sessionVars, turn, aborted, overrun, touched, queue, stopped, rootPhase, rootVars, asks>>

\* The last message boundary: nothing to follow up, the agent loop ends.
LastBoundary(r) ==
    /\ turn[r] = "working" /\ Alive(r)
    /\ mailbox[r[1]] = {}
    /\ turn' = [turn EXCEPT ![r] = "finishing"]
    /\ UNCHANGED <<sessionVars, aborted, overrun, mailbox, touched, queue, stopped, rootPhase, rootVars, asks>>

\* run() resolved and its then callback ran.
Complete(r) ==
    /\ turn[r] = "finishing" /\ Alive(r)
    /\ turn' = [turn EXCEPT ![r] = "reported"]
    /\ IF status[r[1]] = "interrupted" THEN UNCHANGED <<status, mailbox, overrun>>
       ELSE /\ status' = [status EXCEPT ![r[1]] = "completed"]
            /\ mailbox' = Notified(r[1])
            /\ overrun' = overrun \cup ({r} \cap aborted)
    /\ UNCHANGED <<parent, depth, launches, aborted, touched, queue, stopped, rootPhase, rootVars, asks>>

\* run() rejected and its catch callback ran.
FailStale(r) ==
    /\ turn[r] \in {"working", "finishing"}
    /\ turn' = [turn EXCEPT ![r] = "reported"]
    /\ IF status[r[1]] = "interrupted" THEN UNCHANGED <<status, mailbox>>
       ELSE /\ status' = [status EXCEPT ![r[1]] = "errored"]
            /\ mailbox' = Notified(r[1])
    /\ UNCHANGED <<parent, depth, launches, aborted, overrun, touched, queue, stopped, rootPhase, rootVars, asks>>
Fail(r) ==
    /\ turn[r] \in {"working", "finishing"}
    /\ turn' = [turn EXCEPT ![r] = "reported"]
    /\ IF status[r[1]] = "interrupted" \/ r \in aborted THEN UNCHANGED <<status, mailbox>>
       ELSE /\ status' = [status EXCEPT ![r[1]] = "errored"]
            /\ mailbox' = Notified(r[1])
    /\ UNCHANGED <<parent, depth, launches, aborted, overrun, touched, queue, stopped, rootPhase, rootVars, asks>>

\* The finally callback: the next scouts start and everybody who waits wakes.
TidyWithoutNotify(r) ==
    /\ turn[r] = "reported"
    /\ Drain([turn EXCEPT ![r] = "settled"])
    /\ UNCHANGED <<parent, aborted, overrun, touched, stopped, rootPhase, rootVars, asks>>
Tidy(r) ==
    /\ turn[r] = "reported"
    /\ Drain(Woken([turn EXCEPT ![r] = "settled"]))
    /\ rootPhase' = RootWoken
    /\ UNCHANGED <<parent, aborted, overrun, touched, stopped, rootVars, asks>>

-----------------------------------------------------------------------------
(* The root and the host.                                                  *)

RootReadsMail ==
    /\ Acts(Root) /\ mailbox[Root] # {}
    /\ mailbox' = [mailbox EXCEPT ![Root] = {}]
    /\ UNCHANGED <<sessionVars, turn, aborted, overrun, touched, queue, stopped, rootPhase, rootVars, asks>>

\* collaborationFollowUp keeps the root going while it has mail or active children.
NobodyActive == Running = {}
NothingToFollowUp == mailbox[Root] = {} /\ Running = {}

RootLastBoundary ==
    /\ Acts(Root) /\ NothingToFollowUp
    /\ rootPhase' = "finishing"
    /\ UNCHANGED <<sessionVars, turn, aborted, overrun, mailbox, touched, queue, stopped, rootVars, asks>>

RootCompletes ==
    /\ rootPhase = "finishing" /\ ~(PromptAbort /\ stopped)
    /\ rootPhase' = "settling"
    /\ UNCHANGED <<sessionVars, turn, aborted, overrun, mailbox, touched, queue, stopped, rootVars, asks>>

\* The first run of the root fails: interruptAll, then settle, then throw.  A
\* continuation that fails throws at once.
RootFails ==
    /\ rootPhase \in {"working", "finishing"}
    /\ \/ /\ continuations = 0
          /\ InterruptAll
          /\ rootPhase' = "unwinding"
       \/ /\ continuations > 0
          /\ rootPhase' = "failed"
          /\ UNCHANGED <<status, turn, aborted, queue, stopped>>
    /\ UNCHANGED <<parent, depth, launches, overrun, mailbox, touched, rootVars, asks>>

\* One round of settle: what it awaited has settled, it looks again.
PromisesKept == {<<c, launches[c]>> : c \in {d \in Children : launches[d] > 0}}
Promises == {<<c, launches[c]>> : c \in {d \in Children : launches[d] > 0 /\ turn[<<d, launches[d]>>] # "settled"}}
Settle ==
    /\ rootPhase \in {"settling", "unwinding"}
    /\ \A r \in awaited : turn[r] = "settled"
    /\ Drain(turn)
    /\ awaited' = Promises'
    /\ rootPhase' = IF awaited' # {} THEN rootPhase
                    ELSE IF rootPhase = "settling" THEN "flushing" ELSE "failed"
    /\ UNCHANGED <<parent, aborted, overrun, touched, stopped, continuations, asks>>

\* After settle the root answers, or is continued with what arrived meanwhile.
MayAlwaysContinue == TRUE
MayContinue == continuations < MaxContinuations
Conclude ==
    /\ rootPhase = "flushing"
    /\ \/ /\ NothingToFollowUp
          /\ rootPhase' = "done"
          /\ UNCHANGED <<mailbox, continuations>>
       \/ /\ ~NothingToFollowUp
          /\ mailbox' = [mailbox EXCEPT ![Root] = {}]
          /\ rootPhase' = IF MayContinue THEN "working" ELSE "failed"
          /\ continuations' = IF MayContinue THEN continuations + 1 ELSE continuations
    /\ UNCHANGED <<sessionVars, turn, aborted, overrun, touched, queue, stopped, awaited, asks>>

\* The host's stop control aborts the signal of the root.
HostStop ==
    /\ ~stopped /\ rootPhase \notin {"done", "failed"}
    /\ InterruptAll
    /\ rootPhase' = RootWoken
    /\ UNCHANGED <<parent, depth, launches, overrun, mailbox, touched, rootVars, asks>>

\* broadcastHostSteering: the root polls at each boundary, a child in its safety wait.
HostSteers ==
    /\ \E a \in Agents : Acts(a)
    /\ asks < MaxAsks /\ asks' = asks + 1
    /\ mailbox' = [a \in Agents |-> IF a \in Running \cup {Root} THEN mailbox[a] \cup {"note"} ELSE mailbox[a]]
    /\ turn' = Woken(turn)
    /\ rootPhase' = RootWoken
    /\ UNCHANGED <<sessionVars, aborted, overrun, touched, queue, stopped, rootVars>>

-----------------------------------------------------------------------------
Tools(a) ==
    \/ \E s \in Surfaces : FirstTouch(a, s)
    \/ \E c \in Tasks : Spawn(a, c, {}) \/ \E s \in Surfaces \ touched : Spawn(a, c, {s})
    \/ \E b \in Agents : SendMessage(a, b)
    \/ \E c \in Children : FollowUpQueued(a, c) \/ FollowUpLaunches(a, c) \/ Interrupt(a, c)

Loop(r) == ChildWaits(r) \/ ReadMail(r) \/ LastBoundary(r)
EndOfTurn(r) == Complete(r) \/ Fail(r)
RootEnds == RootCompletes \/ RootFails

Next ==
    \/ \E a \in Agents : Tools(a)
    \/ \E r \in Turns : Loop(r) \/ ChildWaitTimesOut(r) \/ EndOfTurn(r) \/ Tidy(r)
    \/ RootWaits \/ RootWaitTimesOut \/ RootReadsMail \/ RootLastBoundary \/ RootEnds
    \/ Settle \/ Conclude \/ HostStop \/ HostSteers

Spec == Init /\ [][Next]_vars

\* Timers fire, callbacks run, and every turn and the root's run come to an end.
Fairness ==
    /\ \A r \in Turns : WF_vars(ChildWaitTimesOut(r)) /\ SF_vars(EndOfTurn(r)) /\ WF_vars(Tidy(r))
    /\ WF_vars(RootWaitTimesOut) /\ SF_vars(RootEnds) /\ WF_vars(Settle) /\ WF_vars(Conclude)
FairSpec == Spec /\ Fairness

-----------------------------------------------------------------------------
TypeOK ==
    /\ status \in [Children -> Statuses]
    /\ parent \in [Children -> Agents]
    /\ depth \in [Children -> 0 .. MaxDepth]
    /\ launches \in [Children -> 0 .. MaxLaunches]
    /\ turn \in [Turns -> TurnPhases]
    /\ aborted \subseteq Turns /\ overrun \subseteq Turns
    /\ mailbox \in [Agents -> SUBSET Mail]
    /\ touched \subseteq Surfaces
    /\ queue \in Seq(Surfaces)
    /\ stopped \in BOOLEAN
    /\ rootPhase \in RootPhases
    /\ awaited \subseteq Turns
    /\ continuations \in 0 .. MaxContinuations
    /\ asks \in 0 .. MaxAsks

\* A session shown as running has a turn that will still report: a thread slot
\* is never held by a session whose turn is over or aborted.
RunningTurnIsLive ==
    \A c \in Running : ~Ended(<<c, launches[c]>>) /\ <<c, launches[c]>> \notin aborted

\* The callback of an aborted turn that succeeded all the same (1239 looks at the
\* status only) may speak for a turn that was launched after it.
Overtaken(r) == \E k \in 1 .. MaxLaunches : k < r[2] /\ <<r[1], k>> \in overrun

\* Every turn that still works unaborted belongs to a session shown as running,
\* so that interrupts, the limit and the root's last check see it.  Nothing but
\* the success of an aborted turn hides the turns of its session.
LiveTurnsAreShown ==
    \A r \in Turns :
      ~Ended(r) /\ r \notin aborted /\ ~Overtaken(r) => status[r[1]] = "running" /\ r[2] = launches[r[1]]

\* An agent inside wait_agent has no mail and something left to wait for, or a
\* callback that will wake it is about to run.
SleepersHaveAWaker ==
    \A a \in Agents :
      (IF a = Root THEN rootPhase = "waiting" ELSE \E k \in 1 .. MaxLaunches : turn[<<a, k>>] = "waiting")
        => MayWait(a) \/ \E r \in Turns : turn[r] = "reported"

\* A scout stays queued only while the threads are used up, or while a turn is
\* ending whose finally callback will drain the queue.
NoStrandedScout ==
    queue # << >> =>
      \/ ~HasCapacity
      \/ \E r \in Turns : turn[r] = "reported" \/ (r \in aborted /\ turn[r] # "settled")

\* interruptAll reaches every turn that LiveTurnsAreShown speaks of, whether the
\* host stops the session or the root fails.  After it no callback and no round
\* of settle launches anything and no scout starts: only an agent that has not
\* yet noticed its abort can still launch a task or continue a session.
InterruptsAll == (stopped' /\ ~stopped) \/ (rootPhase' = "unwinding" /\ rootPhase # "unwinding")
StopIsFinal ==
    [][ /\ InterruptsAll => \A r \in Turns : Ended(r)' \/ r \in aborted' \/ Overtaken(r)'
        /\ stopped => \A c \in Children : launches'[c] # launches[c] =>
                        (launches[c] = 0 => c \in Tasks) /\ \E a \in Agents : Acts(a) ]_vars

\* The root's answer is given with an empty mailbox, an empty scout queue and
\* no turn left that could still change what it is based on.
AnswerIsCurrent ==
    rootPhase = "done" =>
      /\ mailbox[Root] = {} /\ queue = << >>
      /\ \A r \in Turns : Ended(r) \/ r \in aborted

\* A stopped session comes to its end.
StopEndsTheRun == stopped ~> rootPhase \in {"done", "failed"}
=============================================================================
