---------------------------- MODULE ControlStream ----------------------------
(***************************************************************************)
(* The control stream of a session worker (control-stream.ts).             *)
(*                                                                         *)
(* The devices that watch a session send it lines: pause, resume, stop,    *)
(* steer it with an instruction, remove an instruction, decide an approval.*)
(* The executors of the session take the instructions at turn boundaries,  *)
(* or wait for one when a safeguard stopped the model.                     *)
(*                                                                         *)
(* Everything runs on the worker's event loop.  Each message of the host   *)
(* is a line of its own, and the continuations that a line made ready run  *)
(* before the next line; they are the sequence ready.                      *)
(***************************************************************************)
EXTENDS Naturals, Sequences, FiniteSets, SequencesExt

CONSTANTS
    Controls,      \* the messages devices send, by request id
    Kind,          \* of a control: "pause", "resume", "stop", "steer", "remove", "decide"
    Text,          \* of a steer control: its instruction
    Target,        \* of a remove control its steer control, of a decide control its approval
    Takers,        \* executors that take at a turn boundary
    Waiters,       \* calls of waitForSteeringInstructions
    Abandoned,     \* those of them whose caller may go on without them
    Approvals,     \* approvals the tools of the session may ask for
    InitialSteering,   \* steer controls of earlier attempts that are still active
    Remembered     \* controls processedControls holds: 256

Steers == {c \in Controls : Kind[c] = "steer"}
Texts == {Text[c] : c \in Steers}
Callers == Takers \union Waiters

ASSUME ControlStreamAssumption ==
    /\ \A c \in Controls : Kind[c] \in {"pause", "resume", "stop", "steer", "remove", "decide"}
    /\ \A c \in Controls : Kind[c] = "remove" => Target[c] \in Steers
    /\ \A c \in Controls : Kind[c] = "decide" => Target[c] \in Approvals
    /\ Takers \intersect Waiters = {}
    /\ Abandoned \subseteq Waiters
    /\ IsFiniteSet(Callers)
    /\ InitialSteering \subseteq Steers
    /\ Remembered \in Nat \ {0}

VARIABLES
    paused,
    queue,         \* steeringInstructions
    active,        \* the keys of activeSteering
    processed,     \* the keys of processedControls, in the order of their insertion
    resumeWaiters, \* callers that wait to be resumed, in order
    ready,         \* callers whose continuation is due, in order
    caller,        \* "idle", "resuming" (in one of the two above) or "waiting" for steering
    gone,          \* callers whose signal was aborted
    approval,      \* "none", "pending", "approved" or "denied"
    stopped,       \* the stop signal
    ended,         \* inputEnded
    closed,        \* close() was called
    accepted,      \* history: the controls that were accepted
    recent,        \* history: the last of them, in order
    delivered,     \* history: how often a text was handed to a caller that was still there
    lost           \* history: texts that were handed to a caller that had gone

waits == <<resumeWaiters, ready, caller, gone>>
history == <<accepted, recent, delivered, lost>>
vars == <<paused, queue, active, processed, waits, approval, stopped, ended, closed, history>>

Init ==
    /\ paused = FALSE
    /\ queue = << >>
    /\ active = InitialSteering
    /\ processed = << >>
    /\ resumeWaiters = << >>
    /\ ready = << >>
    /\ caller = [t \in Callers |-> "idle"]
    /\ gone = {}
    /\ approval = [a \in Approvals |-> "none"]
    /\ stopped = FALSE
    /\ ended = FALSE
    /\ closed = FALSE
    /\ accepted = {}
    /\ recent = << >>
    /\ delivered = [x \in Texts |-> 0]
    /\ lost = {}

Waiting == {t \in Callers : caller[t] = "waiting"}

Occurrences(x, s) == Cardinality({k \in DOMAIN s : s[k] = x})

\* The instructions of s are handed to one caller each that still listens.
Deliver(s, listeners) ==
    delivered' = [x \in Texts |-> delivered[x] + Occurrences(x, s) * Cardinality(listeners)]

ResolveResumeWaiters == ready' = ready \o resumeWaiters /\ resumeWaiters' = << >>

\* Every waiting caller gets a copy and leaves the set.
ResolveSteeringWaiters(instructions) ==
    /\ caller' = [t \in Callers |-> IF t \in Waiting THEN "idle" ELSE caller[t]]
    /\ Deliver(instructions, Waiting)

DenyApprovals ==
    approval' = [a \in Approvals |-> IF approval[a] = "pending" THEN "denied" ELSE approval[a]]

-----------------------------------------------------------------------------
(* The lines.  Each action applies one control; Receive decides whether it *)
(* is applied and remembers it.                                            *)

Pause(c) ==
    /\ Kind[c] = "pause"
    /\ paused' = TRUE
    /\ UNCHANGED <<queue, active, waits, approval, stopped, delivered>>

\* Mutant: only the waits for steering are woken.
ResumeSteeringOnly(c) ==
    /\ Kind[c] = "resume"
    /\ paused' = FALSE
    /\ IF Waiting # {} /\ queue # << >>
       THEN ResolveSteeringWaiters(queue) /\ queue' = << >>
       ELSE UNCHANGED <<caller, queue, delivered>>
    /\ UNCHANGED <<active, resumeWaiters, ready, gone, approval, stopped>>
Resume(c) ==
    /\ Kind[c] = "resume"
    /\ paused' = FALSE
    /\ ResolveResumeWaiters
    /\ IF Waiting # {} /\ queue # << >>
       THEN ResolveSteeringWaiters(queue) /\ queue' = << >>
       ELSE UNCHANGED <<caller, queue, delivered>>
    /\ UNCHANGED <<active, gone, approval, stopped>>

Stop(c) ==
    /\ Kind[c] = "stop"
    /\ paused' = FALSE
    /\ ResolveResumeWaiters
    /\ ResolveSteeringWaiters(<< >>)
    /\ DenyApprovals
    /\ stopped' = TRUE
    /\ UNCHANGED <<queue, active, gone>>

Steer(c) ==
    LET longer == Append(queue, Text[c])
    IN  /\ Kind[c] = "steer"
        /\ active' = active \union {c}
        /\ IF ~paused /\ Waiting # {}
           THEN ResolveSteeringWaiters(longer) /\ queue' = << >>
           ELSE queue' = longer /\ UNCHANGED <<caller, delivered>>
        /\ UNCHANGED <<paused, resumeWaiters, ready, gone, approval, stopped>>

\* The queue holds texts: the first equal one is taken out.
RemoveSteering(c) ==
    LET x == Text[Target[c]]
    IN  /\ Kind[c] = "remove"
        /\ Target[c] \in active
        /\ active' = active \ {Target[c]}
        /\ queue' = RemoveFirst(queue, x)
        /\ UNCHANGED <<paused, waits, approval, stopped, delivered>>

ResolveApproval(c) ==
    /\ Kind[c] = "decide"
    /\ approval[Target[c]] = "pending"
    /\ \E decision \in {"approved", "denied"} :
           approval' = [approval EXCEPT ![Target[c]] = decision]
    /\ UNCHANGED <<paused, queue, active, waits, stopped, delivered>>

Apply(c) == \/ Pause(c) \/ Resume(c) \/ Stop(c)
            \/ Steer(c) \/ RemoveSteering(c) \/ ResolveApproval(c)

Newest(s, n) == SubSeq(s, IF Len(s) > n THEN Len(s) - n + 1 ELSE 1, Len(s))
\* Mutant: the oldest is dropped one control too early.
RememberOneLess(c) == processed' = Newest(Append(processed, c), Remembered - 1)
Remember(c) == processed' = Newest(Append(processed, c), Remembered)

\* A device sends a control, or sends it again because no acknowledgement came
\* before its connection broke: by then fewer than Remembered others were taken.
MaySend(c) == c \in accepted => Contains(recent, c)

\* A control that is remembered is acknowledged again, and one that is in error
\* is reported and forgotten: neither changes anything.
Receive(c) ==
    /\ ready = << >> /\ ~ended
    /\ MaySend(c)
    /\ ~Contains(processed, c)
    /\ Apply(c)
    /\ Remember(c)
    /\ accepted' = accepted \union {c}
    /\ recent' = Newest(Append(recent, c), Remembered)
    /\ UNCHANGED <<ended, closed, lost>>

\* The end of the input: the queue goes to whoever waits, or to nobody.
End ==
    /\ ready = << >> /\ ~ended
    /\ ended' = TRUE
    /\ paused' = FALSE
    /\ ResolveResumeWaiters
    /\ ResolveSteeringWaiters(queue)
    /\ queue' = << >>
    /\ DenyApprovals
    /\ UNCHANGED <<active, processed, gone, stopped, closed, accepted, recent, lost>>

Close ==
    /\ ~closed
    /\ closed' = TRUE
    /\ ended' = TRUE
    /\ paused' = FALSE
    /\ ResolveResumeWaiters
    /\ ResolveSteeringWaiters(<< >>)
    /\ DenyApprovals
    /\ UNCHANGED <<queue, active, processed, gone, stopped, accepted, recent, lost>>

-----------------------------------------------------------------------------
(* The executors.                                                          *)

\* One wait at a time: the next begins when the last is over or abandoned.
MayCall(t) ==
    /\ caller[t] = "idle"
    /\ t \in Waiters => \A u \in Waiters \ gone : caller[u] = "idle"

\* Mutant: the call does not look at the pause.
CallThrough(t) ==
    /\ ~closed
    /\ MayCall(t)
    /\ caller' = [caller EXCEPT ![t] = "resuming"]
    /\ ready' = Append(ready, t)
    /\ gone' = gone \ {t}
    /\ UNCHANGED <<paused, queue, active, processed, resumeWaiters, approval, stopped, ended, closed,
                   history>>
\* await waitUntilResumed()
Call(t) ==
    /\ ~closed
    /\ MayCall(t)
    /\ caller' = [caller EXCEPT ![t] = "resuming"]
    /\ IF paused THEN resumeWaiters' = Append(resumeWaiters, t) /\ UNCHANGED ready
                 ELSE ready' = Append(ready, t) /\ UNCHANGED resumeWaiters
    /\ gone' = gone \ {t}
    /\ UNCHANGED <<paused, queue, active, processed, approval, stopped, ended, closed,
                   history>>

\* Mutant: a wait does not look whether the stream is still there.
ContinueRegardless ==
    /\ ready # << >>
    /\ ready' = Tail(ready)
    /\ LET t == Head(ready)
           takes == t \in Takers \/ queue # << >>
       IN  /\ lost' = lost \union (IF t \in gone THEN ToSet(queue) ELSE {})
           /\ IF takes THEN Deliver(queue, {t} \ gone) /\ queue' = << >>
                       ELSE UNCHANGED <<delivered, queue>>
           /\ caller' = [caller EXCEPT ![t] =
                  IF takes \/ t \in gone THEN "idle" ELSE "waiting"]
    /\ UNCHANGED <<paused, active, processed, resumeWaiters, gone, approval, stopped, ended, closed,
                   accepted, recent>>
\* What the caller does once it is resumed.  A wait takes what is queued before
\* it looks at its signal.
Continue ==
    /\ ready # << >>
    /\ ready' = Tail(ready)
    /\ LET t == Head(ready)
           takes == t \in Takers \/ queue # << >>
       IN  /\ lost' = lost \union (IF t \in gone THEN ToSet(queue) ELSE {})
           /\ IF takes THEN Deliver(queue, {t} \ gone) /\ queue' = << >>
                       ELSE UNCHANGED <<delivered, queue>>
           /\ caller' = [caller EXCEPT ![t] =
                  IF takes \/ ended \/ stopped \/ t \in gone THEN "idle" ELSE "waiting"]
    /\ UNCHANGED <<paused, active, processed, resumeWaiters, gone, approval, stopped, ended, closed,
                   accepted, recent>>

\* The query of an executor ends and aborts the signal of the wait it raced with.
Abandon(t) ==
    /\ ready = << >>
    /\ t \in Abandoned \ gone
    /\ caller[t] # "idle"
    /\ gone' = gone \union {t}
    /\ caller' = [caller EXCEPT ![t] = IF @ = "waiting" THEN "idle" ELSE @]
    /\ UNCHANGED <<paused, queue, active, processed, resumeWaiters, ready, approval, stopped, ended,
                   closed, history>>

WaitForApproval(a) ==
    /\ approval[a] = "none"
    /\ approval' = [approval EXCEPT ![a] = IF ended \/ stopped THEN "denied" ELSE "pending"]
    /\ UNCHANGED <<paused, queue, active, processed, waits, stopped, ended, closed, history>>

AbortApproval(a) ==
    /\ approval[a] = "pending"
    /\ approval' = [approval EXCEPT ![a] = "denied"]
    /\ UNCHANGED <<paused, queue, active, processed, waits, stopped, ended, closed, history>>

Next ==
    \/ \E c \in Controls : Receive(c)
    \/ End \/ Close \/ Continue
    \/ \E t \in Callers : Call(t) \/ Abandon(t)
    \/ \E a \in Approvals : WaitForApproval(a) \/ AbortApproval(a)

Spec == Init /\ [][Next]_vars

\* Continuations run, and a session that goes on reaches turn boundaries.
Fairness == WF_vars(Continue) /\ \A t \in Takers : WF_vars(Call(t))
FairSpec == Spec /\ Fairness

-----------------------------------------------------------------------------
\* The state of the stream and of its callers.
TypeOK ==
    /\ paused \in BOOLEAN /\ stopped \in BOOLEAN /\ ended \in BOOLEAN /\ closed \in BOOLEAN
    /\ queue \in Seq(Texts)
    /\ active \subseteq Steers
    /\ processed \in Seq(Controls) /\ recent \in Seq(Controls) /\ accepted \subseteq Controls
    /\ resumeWaiters \in Seq(Callers) /\ ready \in Seq(Callers)
    /\ caller \in [Callers -> {"idle", "resuming", "waiting"}]
    /\ gone \subseteq Abandoned
    /\ approval \in [Approvals -> {"none", "pending", "approved", "denied"}]
    /\ delivered \in [Texts -> Nat]
    /\ lost \subseteq Texts
    /\ paused => ready = << >>

AcceptedSteers == accepted \intersect Steers

\* Texts the removal of an instruction of an earlier attempt may have taken out.
Displaced ==
    {Text[Target[c]] : c \in {r \in accepted : Kind[r] = "remove" /\ Target[r] \in InitialSteering}}

\* Until the input ends, an instruction that was accepted and not removed is
\* queued or was delivered, unless a caller took it that had gone while the stream
\* was paused or an equal one of an earlier attempt was removed, and none is
\* delivered or queued more often than it was accepted: whatever is paused, replayed
\* after a lost acknowledgement, removed or taken by several callers.
SteeringIsKeptOnce ==
    \A x \in Texts :
        /\ ~ended /\ (\E c \in active \intersect AcceptedSteers : Text[c] = x)
               => x \in lost \union Displaced \/ delivered[x] + Occurrences(x, queue) > 0
        /\ delivered[x] + Occurrences(x, queue) <= Cardinality({c \in AcceptedSteers : Text[c] = x})

\* A stream that ended, or was stopped and not paused again, keeps nobody: no
\* executor waits to be resumed or steered, and no approval stays open.
DeadStreamHoldsNobody ==
    ended \/ (stopped /\ ~paused) =>
        /\ resumeWaiters = << >> /\ Waiting = {}
        /\ \A a \in Approvals : approval[a] # "pending"

\* What is queued is taken, unless it is removed, the session stays paused or
\* the input ends.
SteeringIsTaken ==
    \A x \in Texts : Contains(queue, x) ~> ~Contains(queue, x) \/ paused \/ ended
=============================================================================
