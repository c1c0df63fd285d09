--------------------- MODULE WorkspacePublicationProofs ---------------------
(***************************************************************************)
(* Proofs about WorkspacePublication, for every set of records and edits   *)
(* and every bound.                                                        *)
(***************************************************************************)
EXTENDS WorkspacePublication, TLAPS

\* Zero is a revision, and the initial index a publication.
LEMMA NothingType == 0 \in Revisions /\ Nothing \in Publications
<1>1. 0 \in Revisions
  BY WorkspacePublicationAssumption DEF Revisions
<1> QED BY <1>1 DEF Nothing, Publications

\* The worker's own part of the type invariant.
WorkerType ==
    /\ step \in Steps
    /\ job \in Jobs
    /\ goal \in Publications
    /\ todo \subseteq Records
    /\ at \subseteq Records
    /\ resume \in {"checking", "published"}

LEMMA GotoType ==
    ASSUME TypeOK, NEW s \in Steps, Goto(s)
    PROVE  WorkerType'
BY NothingType DEF TypeOK, Goto, Rest, WorkerType, Steps, Jobs

LEMMA FinishType ==
    ASSUME TypeOK, NEW target \in Publications, NEW then \in {"checking", "published"},
           Finish(target, then)
    PROVE  WorkerType'
BY DEF TypeOK, Finish, WorkerType, Steps, Written

\* A step that fails, or that only moves the worker, changes nothing else.
LEMMA FailType ==
    ASSUME TypeOK, Fail
    PROVE  TypeOK'
<1>1. WorkerType'
  BY GotoType DEF Fail, Steps
<1> QED BY <1>1 DEF Fail, TypeOK, WorkerType, files, history

LEMMA MoveType ==
    ASSUME TypeOK, WorkerType', UNCHANGED <<store, files, cache, history>>
    PROVE  TypeOK'
BY DEF TypeOK, WorkerType, files, history

\* A file that takes a revision or an edit still holds content.
LEMMA DiskType ==
    ASSUME TypeOK, NEW p \in Records, NEW content \in Contents, disk' = [disk EXCEPT ![p] = content]
    PROVE  disk' \in [Records -> Contents]
BY DEF TypeOK

LEMMA PublicationTyped ==
    ASSUME NEW g \in Publications, NEW p \in Records
    PROVE  g.files[p] \in Revisions /\ g.pins[p] \in Revisions /\ g.files[p] \in Contents
BY DEF Publications, Contents

LEMMA TypedOperationsType ==
    ASSUME TypeOK, Typed
    PROVE  TypeOK'
<1>1. ASSUME NEW p \in Records, Save(p) PROVE TypeOK'
  <2>1. store[p] + 1 \in Revisions
    BY <1>1, WorkspacePublicationAssumption DEF Save, TypeOK, Revisions
  <2> QED BY <1>1, <2>1 DEF Save, TypeOK, files, worker, history
<1>2. ASSUME NEW p \in Records, Forget(p) PROVE TypeOK'
  BY <1>2, NothingType DEF Forget, TypeOK, files, worker
<1> QED BY <1>1, <1>2 DEF Typed

LEMMA OperatorType ==
    ASSUME TypeOK, Operator
    PROVE  TypeOK'
<1>1. ASSUME NEW p \in Records, Revert(p) PROVE TypeOK'
  <2>1. publication.files[p] \in Contents
    BY PublicationTyped DEF TypeOK
  <2>2. disk' \in [Records -> Contents]
    BY <1>1, <2>1, DiskType DEF Revert
  <2> QED BY <1>1, <2>2 DEF Revert, TypeOK, worker, history
<1>2. ASSUME NEW p \in Records, NEW e \in Edits, Edit(p, e) PROVE TypeOK'
  <2>1. PICK content \in {e, 0} : disk' = [disk EXCEPT ![p] = content]
    BY <1>2 DEF Edit
  <2>2. content \in Contents
    BY NothingType DEF Contents
  <2>3. disk' \in [Records -> Contents]
    BY <2>1, <2>2, DiskType
  <2>4. edited' \subseteq Edits /\ late' \subseteq edited'
    BY <1>2 DEF Edit, TypeOK
  <2> QED BY <1>2, <2>3, <2>4 DEF Edit, TypeOK, worker
<1> QED BY <1>1, <1>2 DEF Operator

LEMMA MaintainsType ==
    ASSUME TypeOK, Maintains
    PROVE  TypeOK'
<1>1. CASE Rebuild
  <2>1. CASE ~FilesAreIntact
    BY <1>1, <2>1, FailType DEF Rebuild
  <2>2. CASE FilesAreIntact
    <3>1. WorkerType'
      BY <1>1, <2>2, GotoType DEF Rebuild, Steps
    <3>2. \A p \in Records : index.files[p] \in Revisions
      BY PublicationTyped DEF TypeOK
    <3>3. store' \in [Records -> Revisions]
      BY <1>1, <2>2, <3>2 DEF Rebuild, TypeOK
    <3> QED BY <1>1, <2>2, <3>1, <3>3 DEF Rebuild, TypeOK, WorkerType, files, history
  <2> QED BY <2>1, <2>2
<1>2. CASE MarkRebuilt
  <2>1. WorkerType'
    BY <1>2, GotoType DEF MarkRebuilt, Steps
  <2> QED BY <1>2, <2>1 DEF MarkRebuilt, TypeOK, WorkerType, files, history
<1>3. CASE SkipRebuild
  <2>1. WorkerType'
    BY <1>3, GotoType DEF SkipRebuild, Steps
  <2> QED BY <1>3, <2>1, MoveType DEF SkipRebuild
<1>4. CASE MarkReleasing
  <2>1. CASE ~FilesAreIntact
    BY <1>4, <2>1, FailType DEF MarkReleasing
  <2>2. CASE FilesAreIntact
    <3>1. WorkerType'
      BY <1>4, <2>2, GotoType DEF MarkReleasing, Steps
    <3> QED BY <1>4, <2>2, <3>1 DEF MarkReleasing, TypeOK, WorkerType, files, history
  <2> QED BY <2>1, <2>2
<1>5. CASE Prune
  <2>1. WorkerType'
    BY <1>5, GotoType DEF Prune, Steps
  <2> QED BY <1>5, <2>1, NothingType DEF Prune, TypeOK, WorkerType, files, history
<1>6. CASE MarkReleased
  <2>1. WorkerType'
    BY <1>6, GotoType DEF MarkReleased, Steps
  <2> QED BY <1>6, <2>1 DEF MarkReleased, TypeOK, WorkerType, files, history
<1> QED BY <1>1, <1>2, <1>3, <1>4, <1>5, <1>6 DEF Maintains

LEMMA ImportsType ==
    ASSUME TypeOK, Imports
    PROVE  TypeOK'
<1>1. CASE Examine
  <2>1. ASSUME NEW p \in Records, Import(p) PROVE WorkerType'
    BY <2>1 DEF Import, TypeOK, WorkerType, Steps
  <2>2. ASSUME Goto("idle") \/ Goto("rendering") PROVE WorkerType'
    BY <2>2, GotoType DEF Steps
  <2>3. (\E p \in Records : Import(p)) \/ Goto("idle") \/ Goto("rendering")
    BY <1>1 DEF Examine, Modified
  <2>4. WorkerType'
    BY <2>1, <2>2, <2>3
  <2> QED BY <1>1, <2>4, MoveType DEF Examine
<1>2. ASSUME NEW p \in Records, KeepImported(p) PROVE TypeOK'
  <2>1. CASE Fail
    BY <2>1, FailType
  <2>2. CASE ~Fail
    <3>1. /\ recovery' = recovery \cup {<<p, disk[p]>>}
          /\ Goto("restoring") \/ Goto("revising")
          /\ UNCHANGED <<store, disk, index, publication, pending, baselines, cache, history>>
      BY <1>2, <2>2 DEF KeepImported
    <3>2. WorkerType'
      BY <3>1, GotoType DEF Steps
    <3>3. recovery' \subseteq Pairs
      BY <3>1 DEF TypeOK, Pairs
    <3> QED BY <3>1, <3>2, <3>3 DEF TypeOK, WorkerType, history
  <2> QED BY <2>1, <2>2
<1>3. ASSUME NEW p \in Records, ReviseImported(p) PROVE TypeOK'
  <2>1. CASE Fail
    BY <2>1, FailType
  <2>2. CASE ~Fail
    <3>1. /\ store[p] < MaxRevision
          /\ store' = [store EXCEPT ![p] = store[p] + 1]
          /\ Goto("restoring")
          /\ UNCHANGED <<files, cache, history>>
      BY <1>3, <2>2 DEF ReviseImported
    <3>2. WorkerType'
      BY <3>1, GotoType DEF Steps
    <3>3. store[p] + 1 \in Revisions
      BY <3>1, WorkspacePublicationAssumption DEF TypeOK, Revisions
    <3> QED BY <3>1, <3>2, <3>3 DEF TypeOK, WorkerType, files, history
  <2> QED BY <2>1, <2>2
<1>4. ASSUME NEW p \in Records, RestoreBaseline(p) PROVE TypeOK'
  <2>1. publication.files[p] \in Contents
    BY PublicationTyped DEF TypeOK
  <2>2. disk' \in [Records -> Contents]
    BY <1>4, <2>1, DiskType DEF RestoreBaseline
  <2> QED BY <1>4, <2>2 DEF RestoreBaseline, TypeOK, Steps, history
<1> QED BY <1>1, <1>2, <1>3, <1>4 DEF Imports

LEMMA WithPinsType ==
    ASSUME TypeOK, NEW g \in Publications
    PROVE  WithPins(g) \in Publications
<1>1. \A p \in Records : publication.pins[p] \in Revisions /\ g.files[p] \in Revisions /\ g.pins[p] \in Revisions
  BY PublicationTyped DEF TypeOK
<1> QED BY <1>1 DEF WithPins, Publications

LEMMA PublishesType ==
    ASSUME TypeOK, Publishes
    PROVE  TypeOK'
<1>1. CASE Render
  <2>1. [files |-> store, pins |-> [p \in Records |-> IF p \in Evidence THEN store[p] ELSE 0]] \in Publications
    BY NothingType DEF TypeOK, Publications
  <2> QED BY <1>1, <2>1 DEF Render, TypeOK, Steps, files, history
<1>2. CASE Verify
  <2>1. WorkerType'
    <3>1. CASE Goto("idle")
      BY <3>1, GotoType DEF Steps
    <3>2. CASE ~Goto("idle")
      <4>1. goal' = WithPins(goal) /\ step' = "journaling" /\ UNCHANGED <<job, todo, at, resume>>
        BY <1>2, <3>2 DEF Verify
      <4>2. WithPins(goal) \in Publications
        BY WithPinsType DEF TypeOK
      <4> QED BY <4>1, <4>2 DEF TypeOK, WorkerType, Steps
    <3> QED BY <3>1, <3>2
  <2> QED BY <1>2, <2>1, MoveType DEF Verify
<1>3. CASE Journal
  <2>1. WorkerType'
    BY <1>3, FinishType DEF Journal, TypeOK
  <2> QED BY <1>3, <2>1 DEF Journal, TypeOK, WorkerType, history
<1>4. ASSUME NEW p \in Records, KeepBaseline(p) PROVE TypeOK'
  <2>1. goal.files[p] \in Contents
    BY PublicationTyped DEF TypeOK
  <2>2. baselines' \subseteq Pairs
    BY <1>4, <2>1 DEF KeepBaseline, TypeOK, Pairs
  <2> QED BY <1>4, <2>2 DEF KeepBaseline, TypeOK, history
<1>5. ASSUME NEW p \in Records, WriteFile(p) PROVE TypeOK'
  <2>1. goal.files[p] \in Contents
    BY PublicationTyped DEF TypeOK
  <2>2. disk' \in [Records -> Contents]
    BY <1>5, <2>1, DiskType DEF WriteFile
  <2> QED BY <1>5, <2>2 DEF WriteFile, TypeOK, history
<1>6. ASSUME NEW p \in Records, Preserve(p) PROVE TypeOK'
  <2>1. recovery' \subseteq Pairs
    BY <1>6 DEF Preserve, TypeOK, Pairs
  <2> QED BY <1>6, <2>1 DEF Preserve, TypeOK, history
<1>7. ASSUME NEW p \in Records, Remove(p) PROVE TypeOK'
  <2>1. disk' \in [Records -> Contents]
    BY <1>7, DiskType, NothingType DEF Remove, Contents
  <2> QED BY <1>7, <2>1 DEF Remove, TypeOK, history
<1>8. CASE FilesWritten
  BY <1>8 DEF FilesWritten, TypeOK, Removed, Steps, files, history
<1>9. CASE FilesRemoved
  <2>1. WorkerType'
    BY <1>9, GotoType DEF FilesRemoved, Steps
  <2> QED BY <1>9, <2>1, MoveType DEF FilesRemoved
<1>10. CASE WriteIndex
  <2>1. WorkerType'
    BY <1>10, GotoType DEF WriteIndex, Steps
  <2> QED BY <1>10, <2>1 DEF WriteIndex, TypeOK, WorkerType, history
<1>11. CASE WriteState
  <2>1. WorkerType'
    BY <1>11, GotoType DEF WriteState, Steps
  <2> QED BY <1>11, <2>1 DEF WriteState, TypeOK, WorkerType, history
<1>12. CASE DropJournal
  BY <1>12, NothingType DEF DropJournal, TypeOK, Steps, history
<1>13. CASE MarkReady
  <2>1. WorkerType'
    BY <1>13, GotoType DEF MarkReady, Steps
  <2> QED BY <1>13, <2>1 DEF MarkReady, TypeOK, WorkerType, files, history
<1> QED BY <1>1, <1>2, <1>3, <1>4, <1>5, <1>6, <1>7, <1>8, <1>9, <1>10, <1>11, <1>12, <1>13 DEF Publishes

LEMMA StepType ==
    ASSUME TypeOK, [Next]_vars
    PROVE  TypeOK'
<1>1. ASSUME NEW j \in Jobs, Start(j) PROVE TypeOK'
  BY <1>1 DEF Start, TypeOK, Steps, files, history
<1>2. CASE Recover
  <2>1. WorkerType'
    <3>1. CASE Goto("checking") \/ Goto("idle")
      BY <3>1, GotoType DEF Steps
    <3>2. CASE pending # NoJournal /\ Finish(pending, "checking")
      BY <3>2, FinishType DEF TypeOK
    <3> QED BY <1>2, <3>1, <3>2 DEF Recover
  <2> QED BY <1>2, <2>1, MoveType DEF Recover
<1>3. CASE Crash
  <2>1. WorkerType'
    BY <1>3, GotoType DEF Crash, Steps
  <2>2. crashes' \in 0 .. MaxCrashes
    BY <1>3, WorkspacePublicationAssumption DEF Crash, TypeOK
  <2> QED BY <1>3, <2>1, <2>2 DEF Crash, TypeOK, WorkerType, files
<1>4. CASE UNCHANGED vars
  BY <1>4 DEF vars, files, worker, history, TypeOK
<1> QED BY <1>1, <1>2, <1>3, <1>4, TypedOperationsType, OperatorType, MaintainsType, ImportsType, PublishesType
    DEF Next, Work

\* The type invariant: in particular no direct edit ever reaches a row or an
\* index, whatever the operator writes and wherever the process dies.
THEOREM TypeCorrect == Spec => []TypeOK
<1>1. Init => TypeOK
  BY NothingType, WorkspacePublicationAssumption DEF Init, TypeOK, Contents, Steps, Jobs
<1>2. TypeOK /\ [Next]_vars => TypeOK'
  BY StepType
<1> QED BY <1>1, <1>2, PTL DEF Spec

-----------------------------------------------------------------------------
(* The journal, the index, the published content and the pins.             *)

\* The worker is inside finishWorkspacePublication.
Finishing == {"writing", "removing", "indexing", "stating", "clearing"}

\* While the worker finishes a publication the journal holds it, and elsewhere
\* only a dead worker can have left one.
JournalIsGoal ==
    /\ step \in Finishing => pending = goal
    /\ step \notin Finishing \cup {"idle", "recovering"} => pending = NoJournal
    /\ step \in {"stating", "clearing"} => index = goal
    /\ step = "clearing" => publication = goal

\* A publication that may follow the current one: it keeps every pin and the
\* content pinned by it, and pins nothing but what it publishes.
Extends(g) ==
    \A p \in Records :
        IF publication.pins[p] # 0
        THEN g.pins[p] = publication.pins[p] /\ g.files[p] \in {0, publication.pins[p]}
        ELSE g.pins[p] \in {0, g.files[p]}

PinsExtend ==
    /\ pending # NoJournal => Extends(pending)
    /\ step = "journaling" => Extends(goal)
    /\ step = "verifying" => \A p \in Records : goal.pins[p] \in {0, goal.files[p]}
    /\ Extends(publication)

\* Content that the loop over the files has passed is kept.
Kept(g, p) == <<p, g.files[p]>> \in baselines
GoalIsKept ==
    /\ step = "writing" => \A p \in Written(goal) : p \in todo \ at \/ Kept(goal, p)
    /\ step \in {"removing", "indexing", "stating", "clearing"} => \A p \in Written(goal) : Kept(goal, p)

\* What the loops have in hand.
LoopsAreSound ==
    /\ at \subseteq IF step = "writing" THEN todo \cap Written(goal)
                    ELSE IF step = "removing" THEN todo \cap Removed(goal) ELSE Records
    /\ step = "writing" => todo \subseteq Written(goal)
    /\ step = "removing" => todo \subseteq Removed(goal)
    /\ step \in {"revising", "restoring"} => at \subseteq Written(publication)
    /\ step \in {"idle", "recovering"} => at = {}

Protocol ==
    /\ JournalIsGoal
    /\ GapsAreJournaled
    /\ PinsExtend
    /\ PublishedIsReadable
    /\ GoalIsKept
    /\ LoopsAreSound

PublicationInvariant == TypeOK /\ Protocol

\* What the protocol keeps on disk.
Kind == <<index, publication, pending, baselines>>

\* The worker may stop anywhere: its files stay as they are.
LEMMA RestKeepsProtocol ==
    ASSUME PublicationInvariant, Rest, UNCHANGED Kind
    PROVE  Protocol'
<1> USE DEF Rest, Kind
<1>1. JournalIsGoal'
  BY DEF JournalIsGoal, Finishing
<1>2. GapsAreJournaled' /\ PublishedIsReadable'
  BY DEF PublicationInvariant, Protocol, GapsAreJournaled, PublishedIsReadable
<1>3. PinsExtend'
  BY DEF PublicationInvariant, Protocol, PinsExtend, Extends
<1>4. GoalIsKept' /\ LoopsAreSound'
  BY DEF GoalIsKept, LoopsAreSound
<1> QED BY <1>1, <1>2, <1>3, <1>4 DEF Protocol

\* Steps at which no part of the protocol says anything of the worker.
Quiet == {"checking", "rebuilt", "examining", "importing", "rendering", "published", "releasing", "pruning", "pruned"}

LEMMA QuietKeepsProtocol ==
    ASSUME PublicationInvariant, pending = NoJournal, step' \in Quiet, at' \subseteq Records, UNCHANGED Kind
    PROVE  Protocol'
<1> USE DEF Quiet, Kind
<1>1. JournalIsGoal'
  BY DEF JournalIsGoal, Finishing
<1>2. GapsAreJournaled' /\ PublishedIsReadable'
  BY DEF PublicationInvariant, Protocol, GapsAreJournaled, PublishedIsReadable
<1>3. PinsExtend'
  BY DEF PublicationInvariant, Protocol, PinsExtend, Extends
<1>4. GoalIsKept' /\ LoopsAreSound'
  BY DEF GoalIsKept, LoopsAreSound
<1> QED BY <1>1, <1>2, <1>3, <1>4 DEF Protocol

\* Outside of a publication that is being finished there is no journal.
LEMMA NoJournalOutside ==
    ASSUME PublicationInvariant, step \notin Finishing \cup {"idle", "recovering"}
    PROVE  pending = NoJournal
BY DEF PublicationInvariant, Protocol, JournalIsGoal

\* The typed operations and the operator touch none of it.
LEMMA OutsideKeepsProtocol ==
    ASSUME PublicationInvariant, UNCHANGED <<worker, Kind>>
    PROVE  Protocol'
<1> USE DEF worker, Kind
<1>1. JournalIsGoal' /\ GapsAreJournaled' /\ PublishedIsReadable'
  BY DEF PublicationInvariant, Protocol, JournalIsGoal, GapsAreJournaled, PublishedIsReadable
<1>2. PinsExtend'
  BY DEF PublicationInvariant, Protocol, PinsExtend, Extends
<1>3. GoalIsKept' /\ LoopsAreSound'
  BY DEF PublicationInvariant, Protocol, GoalIsKept, LoopsAreSound, Kept, Written, Removed
<1> QED BY <1>1, <1>2, <1>3 DEF Protocol

LEMMA StartKeepsProtocol ==
    ASSUME PublicationInvariant, NEW j \in Jobs, Start(j)
    PROVE  Protocol'
<1> USE DEF Start, files
<1>1. JournalIsGoal' /\ GapsAreJournaled' /\ PublishedIsReadable'
  BY DEF PublicationInvariant, Protocol, JournalIsGoal, Finishing, GapsAreJournaled, PublishedIsReadable
<1>2. PinsExtend'
  BY DEF PublicationInvariant, Protocol, PinsExtend, Extends
<1>3. GoalIsKept' /\ LoopsAreSound'
  BY DEF PublicationInvariant, Protocol, GoalIsKept, LoopsAreSound
<1> QED BY <1>1, <1>2, <1>3 DEF Protocol

LEMMA FinishKeepsProtocol ==
    ASSUME PublicationInvariant, NEW g \in Publications, NEW then, Finish(g, then),
           pending' = g, Extends(g), index = publication \/ index = g,
           UNCHANGED <<index, publication, baselines>>
    PROVE  Protocol'
<1> USE DEF Finish
<1>0. g # NoJournal
  BY JournalAssumption
<1>1. JournalIsGoal' /\ GapsAreJournaled' /\ PublishedIsReadable'
  BY <1>0 DEF PublicationInvariant, Protocol, JournalIsGoal, Finishing, GapsAreJournaled, PublishedIsReadable
<1>2. PinsExtend'
  BY DEF PublicationInvariant, Protocol, PinsExtend, Extends
<1>3. GoalIsKept' /\ LoopsAreSound'
  BY DEF GoalIsKept, LoopsAreSound, Written
<1> QED BY <1>1, <1>2, <1>3 DEF Protocol

LEMMA RecoverKeepsProtocol ==
    ASSUME PublicationInvariant, Recover
    PROVE  Protocol'
<1>1. CASE pending = NoJournal
  <2>1. step' = "checking" /\ at' = at /\ UNCHANGED Kind
    BY <1>1 DEF Recover, Goto, files, Kind
  <2> QED BY <1>1, <2>1, QuietKeepsProtocol DEF PublicationInvariant, TypeOK, Quiet
<1>2. CASE pending # NoJournal /\ Changed # {}
  <2>1. Rest /\ UNCHANGED Kind
    BY <1>2 DEF Recover, Goto, files, Kind
  <2> QED BY <2>1, RestKeepsProtocol
<1>3. CASE pending # NoJournal /\ Changed = {}
  <2>1. /\ Finish(pending, "checking")
        /\ UNCHANGED <<index, publication, baselines, pending>>
    BY <1>3 DEF Recover, files
  <2>2. pending \in Publications
    BY <1>3 DEF PublicationInvariant, TypeOK
  <2>3. Extends(pending) /\ (index = publication \/ index = pending)
    BY <1>3 DEF PublicationInvariant, Protocol, PinsExtend, GapsAreJournaled
  <2> QED BY <2>1, <2>2, <2>3, FinishKeepsProtocol
<1> QED BY <1>1, <1>2, <1>3

\* Steps that only move the worker to a quiet step, or let it rest.
LEMMA GotoKeepsProtocol ==
    ASSUME PublicationInvariant, NEW s \in Quiet \cup {"idle"}, Goto(s), pending = NoJournal, UNCHANGED Kind
    PROVE  Protocol'
<1>1. CASE s = "idle"
  BY <1>1, RestKeepsProtocol DEF Goto
<1>2. CASE s # "idle"
  BY <1>2, QuietKeepsProtocol DEF Goto, PublicationInvariant, TypeOK
<1> QED BY <1>1, <1>2

LEMMA MaintainsKeepsProtocol ==
    ASSUME PublicationInvariant, Maintains
    PROVE  Protocol'
<1>1. step \notin Finishing \cup {"idle", "recovering"}
  BY DEF Maintains, Rebuild, MarkRebuilt, SkipRebuild, MarkReleasing, Prune, MarkReleased, Finishing
<1>2. pending = NoJournal
  BY <1>1, NoJournalOutside
<1>3. \E s \in Quiet \cup {"idle"} : Goto(s)
  <2>1. CASE Rebuild \/ MarkReleasing
    BY <2>1 DEF Rebuild, MarkReleasing, Fail, Quiet
  <2>2. CASE MarkRebuilt \/ SkipRebuild \/ Prune \/ MarkReleased
    BY <2>2 DEF MarkRebuilt, SkipRebuild, Prune, MarkReleased, Quiet
  <2> QED BY <2>1, <2>2 DEF Maintains
<1>4. UNCHANGED Kind
  BY DEF Maintains, Rebuild, MarkRebuilt, SkipRebuild, MarkReleasing, Prune, MarkReleased, Fail, files, Kind
<1> QED BY <1>2, <1>3, <1>4, GotoKeepsProtocol

\* An import holds a published record between its copy and its restoration.
LEMMA ImportMoves ==
    ASSUME PublicationInvariant, pending = NoJournal, step' \in {"revising", "restoring"},
           at' \subseteq Written(publication), UNCHANGED Kind
    PROVE  Protocol'
<1> USE DEF Kind
<1>1. JournalIsGoal' /\ GapsAreJournaled' /\ PublishedIsReadable'
  BY DEF PublicationInvariant, Protocol, JournalIsGoal, Finishing, GapsAreJournaled, PublishedIsReadable
<1>2. PinsExtend'
  BY DEF PublicationInvariant, Protocol, PinsExtend, Extends
<1>3. GoalIsKept' /\ LoopsAreSound'
  BY DEF GoalIsKept, LoopsAreSound, Written
<1> QED BY <1>1, <1>2, <1>3 DEF Protocol

LEMMA ImportsKeepsProtocol ==
    ASSUME PublicationInvariant, Imports
    PROVE  Protocol'
<1>1. step \notin Finishing \cup {"idle", "recovering"}
  BY DEF Imports, Examine, KeepImported, ReviseImported, RestoreBaseline, Finishing
<1>2. pending = NoJournal
  BY <1>1, NoJournalOutside
<1>3. UNCHANGED Kind
  BY DEF Imports, Examine, KeepImported, ReviseImported, RestoreBaseline, Fail, files, Kind
<1>4. CASE Examine
  <2>1. (\E p \in Records : Import(p)) \/ Goto("idle") \/ Goto("rendering")
    BY <1>4 DEF Examine, Modified
  <2>2. ASSUME NEW p \in Records, Import(p) PROVE Protocol'
    BY <1>2, <1>3, <2>2, QuietKeepsProtocol DEF Import, Quiet
  <2>3. ASSUME Goto("idle") \/ Goto("rendering") PROVE Protocol'
    BY <1>2, <1>3, <2>3, GotoKeepsProtocol DEF Quiet
  <2> QED BY <2>1, <2>2, <2>3
<1>5. ASSUME NEW p \in Records, KeepImported(p) PROVE Protocol'
  <2>1. CASE Goto("idle")
    BY <1>2, <1>3, <2>1, GotoKeepsProtocol
  <2>2. CASE ~Goto("idle")
    <3>1. publication.files[p] # 0 /\ at = {p} /\ (Goto("restoring") \/ Goto("revising"))
      BY <1>5, <2>2 DEF KeepImported, Fail
    <3>2. step' \in {"revising", "restoring"} /\ at' \subseteq Written(publication)
      BY <3>1 DEF Goto, Written
    <3> QED BY <1>2, <1>3, <3>2, ImportMoves
  <2> QED BY <2>1, <2>2
<1>6. ASSUME NEW p \in Records, ReviseImported(p) PROVE Protocol'
  <2>1. CASE Goto("idle")
    BY <1>2, <1>3, <2>1, GotoKeepsProtocol
  <2>2. CASE ~Goto("idle")
    <3>1. Goto("restoring") /\ at \subseteq Written(publication)
      BY <1>6, <2>2 DEF ReviseImported, Fail, PublicationInvariant, Protocol, LoopsAreSound
    <3>2. step' \in {"revising", "restoring"} /\ at' \subseteq Written(publication)
      BY <3>1 DEF Goto
    <3> QED BY <1>2, <1>3, <3>2, ImportMoves
  <2> QED BY <2>1, <2>2
<1>7. ASSUME NEW p \in Records, RestoreBaseline(p) PROVE Protocol'
  BY <1>2, <1>3, <1>7, QuietKeepsProtocol DEF RestoreBaseline, Quiet
<1> QED BY <1>4, <1>5, <1>6, <1>7 DEF Imports

\* Content pinned before replaces what was rendered for it, so the next
\* publication extends the current one.
LEMMA WithPinsExtends ==
    ASSUME PublicationInvariant, \A p \in Records : goal.pins[p] \in {0, goal.files[p]}
    PROVE  Extends(WithPins(goal))
<1> SUFFICES ASSUME NEW p \in Records
             PROVE  IF publication.pins[p] # 0
                    THEN WithPins(goal).pins[p] = publication.pins[p] /\ WithPins(goal).files[p] \in {0, publication.pins[p]}
                    ELSE WithPins(goal).pins[p] \in {0, WithPins(goal).files[p]}
  BY DEF Extends
<1>1. /\ WithPins(goal).files[p] = IF p \in Replaced(goal) THEN publication.pins[p] ELSE goal.files[p]
      /\ WithPins(goal).pins[p] = IF publication.pins[p] # 0 THEN publication.pins[p] ELSE goal.pins[p]
  BY DEF WithPins
<1>2. CASE publication.pins[p] # 0
  <2>1. p \in Replaced(goal) \/ goal.files[p] \in {0, publication.pins[p]}
    BY <1>2 DEF Replaced, Written
  <2> QED BY <1>1, <1>2, <2>1
<1>3. CASE publication.pins[p] = 0
  <2>1. p \notin Replaced(goal)
    BY <1>3 DEF Replaced
  <2> QED BY <1>1, <1>3, <2>1
<1> QED BY <1>2, <1>3

LEMMA RenderKeepsProtocol ==
    ASSUME PublicationInvariant, Render
    PROVE  Protocol'
<1>1. pending = NoJournal
  BY NoJournalOutside DEF Render, Finishing
<1> USE <1>1 DEF Render, files
<1>2. JournalIsGoal' /\ GapsAreJournaled' /\ PublishedIsReadable'
  BY DEF PublicationInvariant, Protocol, JournalIsGoal, Finishing, GapsAreJournaled, PublishedIsReadable
<1>3. \A p \in Records : goal'.pins[p] \in {0, goal'.files[p]}
  OBVIOUS
<1>4. PinsExtend'
  BY <1>3 DEF PublicationInvariant, Protocol, PinsExtend, Extends
<1>5. GoalIsKept' /\ LoopsAreSound'
  BY DEF GoalIsKept, LoopsAreSound, PublicationInvariant, TypeOK
<1> QED BY <1>2, <1>4, <1>5 DEF Protocol

LEMMA VerifyKeepsProtocol ==
    ASSUME PublicationInvariant, Verify
    PROVE  Protocol'
<1>1. pending = NoJournal
  BY NoJournalOutside DEF Verify, Finishing
<1>2. UNCHANGED Kind
  BY DEF Verify, files, Kind
<1>3. CASE Goto("idle")
  BY <1>1, <1>2, <1>3, GotoKeepsProtocol
<1>4. CASE ~Goto("idle")
  <2>1. goal' = WithPins(goal) /\ step' = "journaling" /\ at' = at
    BY <1>4 DEF Verify
  <2>2. Extends(WithPins(goal))
    BY WithPinsExtends DEF Verify, PublicationInvariant, Protocol, PinsExtend
  <2>3. JournalIsGoal' /\ GapsAreJournaled' /\ PublishedIsReadable'
    BY <1>1, <1>2, <2>1
       DEF Kind, PublicationInvariant, Protocol, JournalIsGoal, Finishing, GapsAreJournaled, PublishedIsReadable
  <2>4. PinsExtend'
    BY <1>1, <1>2, <2>1, <2>2 DEF Kind, PublicationInvariant, Protocol, PinsExtend, Extends
  <2>5. GoalIsKept' /\ LoopsAreSound'
    BY <2>1 DEF GoalIsKept, LoopsAreSound, PublicationInvariant, TypeOK
  <2> QED BY <2>3, <2>4, <2>5 DEF Protocol
<1> QED BY <1>3, <1>4

LEMMA JournalKeepsProtocol ==
    ASSUME PublicationInvariant, Journal
    PROVE  Protocol'
<1>1. pending = NoJournal
  BY NoJournalOutside DEF Journal, Finishing
<1>2. index = publication /\ Extends(goal)
  BY <1>1 DEF Journal, PublicationInvariant, Protocol, GapsAreJournaled, PinsExtend
<1>3. goal \in Publications
  BY DEF PublicationInvariant, TypeOK
<1> QED BY <1>2, <1>3, FinishKeepsProtocol DEF Journal

LEMMA KeepBaselineKeepsProtocol ==
    ASSUME PublicationInvariant, NEW p \in Records, KeepBaseline(p)
    PROVE  Protocol'
<1> USE DEF KeepBaseline
<1>1. JournalIsGoal' /\ GapsAreJournaled' /\ PublishedIsReadable'
  BY DEF PublicationInvariant, Protocol, JournalIsGoal, Finishing, GapsAreJournaled, PublishedIsReadable
<1>2. PinsExtend'
  BY DEF PublicationInvariant, Protocol, PinsExtend, Extends
<1>3. GoalIsKept'
  BY DEF PublicationInvariant, Protocol, GoalIsKept, Kept, Written
<1>4. LoopsAreSound'
  BY DEF PublicationInvariant, Protocol, LoopsAreSound, Written
<1> QED BY <1>1, <1>2, <1>3, <1>4 DEF Protocol

LEMMA WriteFileKeepsProtocol ==
    ASSUME PublicationInvariant, NEW p \in Records, WriteFile(p)
    PROVE  Protocol'
<1> USE DEF WriteFile
<1>1. JournalIsGoal' /\ GapsAreJournaled' /\ PublishedIsReadable'
  BY DEF PublicationInvariant, Protocol, JournalIsGoal, Finishing, GapsAreJournaled, PublishedIsReadable
<1>2. PinsExtend'
  BY DEF PublicationInvariant, Protocol, PinsExtend, Extends
<1>3. GoalIsKept'
  BY DEF PublicationInvariant, Protocol, GoalIsKept, Kept, Written
<1>4. LoopsAreSound'
  BY DEF PublicationInvariant, Protocol, LoopsAreSound, Written
<1> QED BY <1>1, <1>2, <1>3, <1>4 DEF Protocol

LEMMA FilesWrittenKeepsProtocol ==
    ASSUME PublicationInvariant, FilesWritten
    PROVE  Protocol'
<1> USE DEF FilesWritten, files
<1>1. JournalIsGoal' /\ GapsAreJournaled' /\ PublishedIsReadable'
  BY DEF PublicationInvariant, Protocol, JournalIsGoal, Finishing, GapsAreJournaled, PublishedIsReadable
<1>2. PinsExtend'
  BY DEF PublicationInvariant, Protocol, PinsExtend, Extends
<1>3. GoalIsKept'
  BY DEF PublicationInvariant, Protocol, GoalIsKept, Kept, Written
<1>4. at = {}
  BY DEF PublicationInvariant, Protocol, LoopsAreSound
<1>5. LoopsAreSound'
  BY <1>4 DEF LoopsAreSound, Removed
<1> QED BY <1>1, <1>2, <1>3, <1>5 DEF Protocol

\* A step of the loop over removed files.
LEMMA RemovingKeepsProtocol ==
    ASSUME PublicationInvariant, NEW p \in Records, Preserve(p) \/ Remove(p)
    PROVE  Protocol'
<1>0. /\ step = "removing" /\ UNCHANGED <<step, goal, Kind>>
      /\ todo' \subseteq todo /\ at' \subseteq todo'
  BY DEF Preserve, Remove, Kind
<1> USE DEF Kind
<1>1. JournalIsGoal' /\ GapsAreJournaled' /\ PublishedIsReadable'
  BY <1>0 DEF PublicationInvariant, Protocol, JournalIsGoal, Finishing, GapsAreJournaled, PublishedIsReadable
<1>2. PinsExtend'
  BY <1>0 DEF PublicationInvariant, Protocol, PinsExtend, Extends
<1>3. GoalIsKept'
  BY <1>0 DEF PublicationInvariant, Protocol, GoalIsKept, Kept, Written
<1>4. LoopsAreSound'
  BY <1>0 DEF PublicationInvariant, Protocol, LoopsAreSound, Removed
<1> QED BY <1>1, <1>2, <1>3, <1>4 DEF Protocol

LEMMA FilesRemovedKeepsProtocol ==
    ASSUME PublicationInvariant, FilesRemoved
    PROVE  Protocol'
<1>0. step = "removing" /\ step' = "indexing" /\ UNCHANGED <<goal, at, Kind>>
  BY DEF FilesRemoved, Goto, files, Kind
<1> USE <1>0 DEF Kind
<1>1. JournalIsGoal' /\ GapsAreJournaled' /\ PublishedIsReadable'
  BY DEF PublicationInvariant, Protocol, JournalIsGoal, Finishing, GapsAreJournaled, PublishedIsReadable
<1>2. PinsExtend'
  BY DEF PublicationInvariant, Protocol, PinsExtend, Extends
<1>3. GoalIsKept'
  BY DEF PublicationInvariant, Protocol, GoalIsKept, Kept, Written
<1>4. LoopsAreSound'
  BY DEF PublicationInvariant, TypeOK, LoopsAreSound
<1> QED BY <1>1, <1>2, <1>3, <1>4 DEF Protocol

\* The index is written while the journal says the same.
LEMMA WriteIndexKeepsProtocol ==
    ASSUME PublicationInvariant, WriteIndex
    PROVE  Protocol'
<1>0. /\ step = "indexing" /\ step' = "stating" /\ index' = goal
      /\ UNCHANGED <<goal, at, publication, pending, baselines>>
  BY DEF WriteIndex, Goto
<1>1. pending = goal /\ goal # NoJournal
  BY <1>0, JournalAssumption DEF PublicationInvariant, TypeOK, Protocol, JournalIsGoal, Finishing
<1> USE <1>0, <1>1
<1>2. JournalIsGoal' /\ GapsAreJournaled' /\ PublishedIsReadable'
  BY DEF PublicationInvariant, Protocol, JournalIsGoal, Finishing, GapsAreJournaled, PublishedIsReadable
<1>3. PinsExtend'
  BY DEF PublicationInvariant, Protocol, PinsExtend, Extends
<1>4. GoalIsKept'
  BY DEF PublicationInvariant, Protocol, GoalIsKept, Kept, Written
<1>5. LoopsAreSound'
  BY DEF PublicationInvariant, TypeOK, LoopsAreSound
<1> QED BY <1>2, <1>3, <1>4, <1>5 DEF Protocol

\* Every file and every pin of the new state has been kept.
LEMMA GoalIsReadable ==
    ASSUME PublicationInvariant, step \in {"removing", "indexing", "stating", "clearing"}, NEW p \in Records
    PROVE  /\ goal.files[p] # 0 => <<p, goal.files[p]>> \in baselines
           /\ goal.pins[p] # 0 => <<p, goal.pins[p]>> \in baselines
<1>1. pending = goal /\ goal # NoJournal
  BY JournalAssumption DEF PublicationInvariant, TypeOK, Protocol, JournalIsGoal, Finishing
<1>2. Extends(goal)
  BY <1>1 DEF PublicationInvariant, Protocol, PinsExtend
<1>3. goal.files[p] # 0 => <<p, goal.files[p]>> \in baselines
  BY DEF PublicationInvariant, Protocol, GoalIsKept, Kept, Written
<1>4. CASE publication.pins[p] # 0
  BY <1>2, <1>3, <1>4 DEF Extends, PublicationInvariant, Protocol, PublishedIsReadable
<1>5. CASE publication.pins[p] = 0
  BY <1>2, <1>3, <1>5 DEF Extends
<1> QED BY <1>4, <1>5

LEMMA WriteStateKeepsProtocol ==
    ASSUME PublicationInvariant, WriteState
    PROVE  Protocol'
<1>0. /\ step = "stating" /\ step' = "clearing" /\ publication' = goal
      /\ UNCHANGED <<goal, at, index, pending, baselines>>
  BY DEF WriteState, Goto
<1>1. pending = goal /\ goal # NoJournal /\ index = goal
  BY <1>0, JournalAssumption DEF PublicationInvariant, TypeOK, Protocol, JournalIsGoal, Finishing
<1>2. JournalIsGoal' /\ GapsAreJournaled'
  BY <1>0, <1>1 DEF JournalIsGoal, Finishing, GapsAreJournaled
<1>3. PublishedIsReadable'
  BY <1>0, GoalIsReadable DEF PublishedIsReadable
<1>4. PinsExtend'
  <2>1. Extends(goal)
    BY <1>1 DEF PublicationInvariant, Protocol, PinsExtend
  <2>2. \A p \in Records : IF goal.pins[p] # 0 THEN goal.files[p] \in {0, goal.pins[p]} ELSE TRUE
    BY <2>1 DEF Extends
  <2> QED BY <1>0, <1>1, <2>2 DEF PinsExtend, Extends
<1>5. GoalIsKept'
  BY <1>0 DEF PublicationInvariant, Protocol, GoalIsKept, Kept, Written
<1>6. LoopsAreSound'
  BY <1>0 DEF PublicationInvariant, TypeOK, LoopsAreSound
<1> QED BY <1>2, <1>3, <1>4, <1>5, <1>6 DEF Protocol

LEMMA DropJournalKeepsProtocol ==
    ASSUME PublicationInvariant, DropJournal
    PROVE  Protocol'
<1>0. /\ step = "clearing" /\ step' \in {"checking", "published"} /\ pending' = NoJournal
      /\ UNCHANGED <<at, index, publication, baselines>>
  BY DEF DropJournal, PublicationInvariant, TypeOK
<1>1. index = publication
  BY <1>0 DEF PublicationInvariant, Protocol, JournalIsGoal
<1> USE <1>0, <1>1
<1>2. JournalIsGoal' /\ GapsAreJournaled' /\ PublishedIsReadable'
  BY DEF PublicationInvariant, Protocol, JournalIsGoal, Finishing, GapsAreJournaled, PublishedIsReadable
<1>3. PinsExtend'
  BY DEF PublicationInvariant, Protocol, PinsExtend, Extends
<1>4. GoalIsKept' /\ LoopsAreSound'
  BY DEF PublicationInvariant, TypeOK, GoalIsKept, LoopsAreSound
<1> QED BY <1>2, <1>3, <1>4 DEF Protocol

LEMMA PublishesKeepsProtocol ==
    ASSUME PublicationInvariant, Publishes
    PROVE  Protocol'
<1>1. CASE MarkReady
  <2>1. pending = NoJournal
    BY <1>1, NoJournalOutside DEF MarkReady, Finishing
  <2>2. UNCHANGED Kind /\ \E s \in Quiet \cup {"idle"} : Goto(s)
    BY <1>1 DEF MarkReady, files, Kind, Quiet
  <2> QED BY <2>1, <2>2, GotoKeepsProtocol
<1> QED BY <1>1, RenderKeepsProtocol, VerifyKeepsProtocol, JournalKeepsProtocol, KeepBaselineKeepsProtocol,
           WriteFileKeepsProtocol, FilesWrittenKeepsProtocol, RemovingKeepsProtocol, FilesRemovedKeepsProtocol,
           WriteIndexKeepsProtocol, WriteStateKeepsProtocol, DropJournalKeepsProtocol
        DEF Publishes

LEMMA StepKeepsInvariant ==
    ASSUME PublicationInvariant, [Next]_vars
    PROVE  PublicationInvariant'
<1>1. TypeOK'
  BY StepType DEF PublicationInvariant
<1>2. CASE Typed \/ Operator \/ UNCHANGED vars
  <2>1. UNCHANGED <<worker, Kind>>
    BY <1>2 DEF Typed, Save, Forget, Operator, Revert, Edit, vars, worker, files, Kind
  <2> QED BY <1>1, <2>1, OutsideKeepsProtocol DEF PublicationInvariant
<1>3. CASE Crash
  <2>1. Rest /\ UNCHANGED Kind
    BY <1>3 DEF Crash, Goto, files, Kind
  <2> QED BY <1>1, <2>1, RestKeepsProtocol DEF PublicationInvariant
<1>4. CASE (\E j \in Jobs : Start(j)) \/ Work
  <2>1. Protocol'
    BY <1>4, StartKeepsProtocol, RecoverKeepsProtocol, MaintainsKeepsProtocol, ImportsKeepsProtocol,
       PublishesKeepsProtocol DEF Work
  <2> QED BY <1>1, <2>1 DEF PublicationInvariant
<1> QED BY <1>2, <1>3, <1>4 DEF Next

LEMMA InvariantHolds == Spec => []PublicationInvariant
<1>1. Init => PublicationInvariant
  <2>1. ASSUME Init PROVE TypeOK
    BY <2>1, NothingType, WorkspacePublicationAssumption DEF Init, TypeOK, Contents, Steps, Jobs
  <2>2. ASSUME Init PROVE Protocol
    BY <2>2 DEF Init, Protocol, Nothing, JournalIsGoal, Finishing, GapsAreJournaled, PinsExtend, Extends,
                PublishedIsReadable, GoalIsKept, LoopsAreSound
  <2> QED BY <2>1, <2>2 DEF PublicationInvariant
<1>2. PublicationInvariant /\ [Next]_vars => PublicationInvariant'
  BY StepKeepsInvariant
<1> QED BY <1>1, <1>2, PTL DEF Spec

\* Wherever a publication stops, an index that is ahead of the publication
\* state is the journal's, so the next worker can finish it and no checkpoint
\* is left behind a disagreement it only refuses (workspace-project.ts 376, 442).
THEOREM IndexIsNeverStranded == Spec => []GapsAreJournaled
<1>1. PublicationInvariant => GapsAreJournaled
  BY DEF PublicationInvariant, Protocol
<1> QED BY <1>1, InvariantHolds, PTL

\* Content is kept before the state that refers to it: every published file
\* and every pin can be read back, after a crash at any step
\* (workspace-project.ts 566-592).
THEOREM PublishedContentIsKept == Spec => []PublishedIsReadable
<1>1. PublicationInvariant => PublishedIsReadable
  BY DEF PublicationInvariant, Protocol
<1> QED BY <1>1, InvariantHolds, PTL

\* What PinnedEvidenceIsKept says of one step.
PinsAreKept ==
    \A p \in Records : publication.pins[p] # 0 =>
        /\ publication'.pins[p] = publication.pins[p]
        /\ publication'.files[p] \in {0, publication.pins[p]}
        /\ disk[p] = publication.pins[p] /\ worker' # worker => disk'[p] = disk[p]

LEMMA GoalExtends ==
    ASSUME PublicationInvariant, step \in Finishing
    PROVE  Extends(goal)
<1>1. pending = goal /\ goal # NoJournal
  BY JournalAssumption DEF PublicationInvariant, TypeOK, Protocol, JournalIsGoal
<1> QED BY <1>1 DEF PublicationInvariant, Protocol, PinsExtend

\* Only the step that writes the state changes what is published.
LEMMA PublicationChanges ==
    ASSUME Next \/ UNCHANGED vars, publication' # publication
    PROVE  WriteState
BY DEF Next, vars, Typed, Save, Forget, Operator, Revert, Edit, Start, Work, Recover, Maintains, Rebuild,
       MarkRebuilt, SkipRebuild, MarkReleasing, Prune, MarkReleased, Imports, Examine, KeepImported, ReviseImported,
       RestoreBaseline, Publishes, Render, Verify, Journal, KeepBaseline, WriteFile, FilesWritten, Preserve, Remove,
       FilesRemoved, WriteIndex, DropJournal, MarkReady, Crash, Fail, files

\* The worker changes files in three places.
LEMMA DiskChanges ==
    ASSUME Next \/ UNCHANGED vars, disk' # disk, worker' # worker
    PROVE  \E p \in Records : WriteFile(p) \/ Remove(p) \/ RestoreBaseline(p)
BY DEF Next, vars, Typed, Save, Forget, Operator, Revert, Edit, Start, Work, Recover, Maintains, Rebuild,
       MarkRebuilt, SkipRebuild, MarkReleasing, Prune, MarkReleased, Imports, Examine, KeepImported, ReviseImported,
       Publishes, Render, Verify, Journal, KeepBaseline, FilesWritten, Preserve,
       FilesRemoved, WriteIndex, WriteState, DropJournal, MarkReady, Crash, Fail, files

LEMMA StepKeepsPins ==
    ASSUME PublicationInvariant, [Next]_vars
    PROVE  PinsAreKept
<1> SUFFICES ASSUME NEW p \in Records, publication.pins[p] # 0
             PROVE  /\ publication'.pins[p] = publication.pins[p]
                    /\ publication'.files[p] \in {0, publication.pins[p]}
                    /\ disk[p] = publication.pins[p] /\ worker' # worker => disk'[p] = disk[p]
  BY DEF PinsAreKept
<1>1. publication.files[p] \in {0, publication.pins[p]}
  BY DEF PublicationInvariant, Protocol, PinsExtend, Extends
<1>2. step \in Finishing => goal.pins[p] = publication.pins[p] /\ goal.files[p] \in {0, publication.pins[p]}
  BY GoalExtends DEF Extends
<1>3. publication'.pins[p] = publication.pins[p] /\ publication'.files[p] \in {0, publication.pins[p]}
  <2>1. CASE publication' = publication
    BY <1>1, <2>1
  <2>2. CASE publication' # publication
    <3>1. step = "stating" /\ publication' = goal
      BY <2>2, PublicationChanges DEF WriteState
    <3> QED BY <1>2, <3>1 DEF Finishing
  <2> QED BY <2>1, <2>2
<1>4. ASSUME disk[p] = publication.pins[p], worker' # worker PROVE disk'[p] = disk[p]
  <2>1. CASE disk' = disk
    BY <2>1
  <2>2. CASE disk' # disk
    <3>1. PICK q \in Records : WriteFile(q) \/ Remove(q) \/ RestoreBaseline(q)
      BY <1>4, <2>2, DiskChanges
    <3>2. disk \in [Records -> Contents]
      BY DEF PublicationInvariant, TypeOK
    <3>3. CASE q # p
      BY <3>1, <3>2, <3>3 DEF WriteFile, Remove, RestoreBaseline
    <3>4. CASE q = p
      <4>1. CASE WriteFile(p)
        <5>1. p \in Written(goal)
          BY <4>1 DEF WriteFile, PublicationInvariant, Protocol, LoopsAreSound
        <5> QED BY <1>2, <1>4, <3>2, <4>1, <5>1 DEF WriteFile, Finishing, Written
      <4>2. CASE Remove(p)
        <5>1. p \in Removed(goal)
          BY <4>2 DEF Remove, PublicationInvariant, Protocol, LoopsAreSound
        <5> QED BY <1>2, <4>2, <5>1 DEF Remove, Finishing, Removed
      <4>3. CASE RestoreBaseline(p)
        <5>1. p \in Written(publication)
          BY <4>3 DEF RestoreBaseline, PublicationInvariant, Protocol, LoopsAreSound
        <5> QED BY <1>1, <1>4, <3>2, <4>3, <5>1 DEF RestoreBaseline, Written
      <4> QED BY <3>1, <3>4, <4>1, <4>2, <4>3
    <3> QED BY <3>3, <3>4
  <2> QED BY <2>1, <2>2
<1> QED BY <1>3, <1>4

\* Evidence is immutable from the publication that pins it: no publication
\* moves the pin, publishes other content for it, or overwrites or removes its
\* file, for any history of edits, deletions, releases and crashes
\* (workspace-project.ts 425-436, 579-590).
THEOREM EvidenceIsImmutable == Spec => PinnedEvidenceIsKept
<1>1. PublicationInvariant /\ [Next]_vars => PinsAreKept
  BY StepKeepsPins
<1>2. Spec => [][PinsAreKept]_vars
  BY <1>1, InvariantHolds, PTL DEF Spec
<1> QED BY <1>2 DEF PinnedEvidenceIsKept, PinsAreKept

-----------------------------------------------------------------------------
(* The worker's own half-done work.                                        *)

\* What a file nobody edited may hold, and what it holds once the loops over the
\* files are past it.
Known(p) == {0, publication.files[p], publication.pins[p]} \cup edited
              \cup (IF pending = NoJournal THEN {} ELSE {pending.files[p]})
Brought(p) == {0, goal.files[p], goal.pins[p]} \cup edited

\* The inductive invariant behind OwnWorkIsRecognized.  With no journal left the
\* last publication alone accounts for every file, and before the state is
\* written every file has been brought to what it will say.
WorkIsKnown ==
    /\ \A p \in Records : disk[p] \in Known(p)
    /\ step = "writing" => \A p \in Written(goal) \ todo : disk[p] \in {0, goal.files[p]} \cup edited
    /\ step = "removing" => \A p \in Records \ todo : disk[p] \in Brought(p)
    /\ step \in {"indexing", "stating", "clearing"} => \A p \in Records : disk[p] \in Brought(p)

\* A step that writes to no file and is not, or does not end, in the loops.
LEMMA KnownOutside ==
    ASSUME WorkIsKnown, UNCHANGED <<disk, publication, pending, edited>>, step' \notin Finishing
    PROVE  WorkIsKnown'
BY DEF WorkIsKnown, Known, Finishing

LEMMA KnownUntouched ==
    ASSUME WorkIsKnown, UNCHANGED <<disk, publication, pending, edited, step, goal, todo>>
    PROVE  WorkIsKnown'
BY DEF WorkIsKnown, Known, Brought, Written

\* An edit, or a deletion, of any file at any moment.
LEMMA EditIsKnown ==
    ASSUME PublicationInvariant, WorkIsKnown, NEW q \in Records, NEW e \in Edits, Edit(q, e)
    PROVE  WorkIsKnown'
<1>1. PICK content \in {e, 0} : disk' = [disk EXCEPT ![q] = content]
  BY DEF Edit
<1>2. \A p \in Records : disk'[p] \in {disk[p], e, 0}
  BY <1>1 DEF PublicationInvariant, TypeOK
<1>3. edited' = edited \cup {e} /\ UNCHANGED <<publication, pending, step, goal, todo>>
  BY DEF Edit, worker
<1>4. \A p \in Records : Known(p)' = Known(p) \cup {e} /\ Brought(p)' = Brought(p) \cup {e}
  BY <1>3 DEF Known, Brought
<1>5. \A p \in Records : disk[p] \in Known(p) => disk'[p] \in Known(p)'
  BY <1>2, <1>4 DEF Known
<1>6. \A p \in Records : disk[p] \in Brought(p) => disk'[p] \in Brought(p)'
  BY <1>2, <1>4 DEF Brought
<1>7. step = "writing" => \A p \in Written(goal) \ todo : disk'[p] \in {0, goal.files[p]} \cup edited'
  BY <1>2, <1>3 DEF WorkIsKnown, Written
<1> QED BY <1>3, <1>5, <1>6, <1>7 DEF WorkIsKnown, Written

LEMMA OutsideIsKnown ==
    ASSUME PublicationInvariant, WorkIsKnown, Typed \/ Operator \/ Crash \/ UNCHANGED vars \/ \E j \in Jobs : Start(j)
    PROVE  WorkIsKnown'
<1>1. CASE Typed \/ UNCHANGED vars
  BY <1>1, KnownUntouched DEF Typed, Save, Forget, vars, files, worker, history
<1>2. CASE Operator
  <2>1. ASSUME NEW q \in Records, Revert(q) PROVE WorkIsKnown'
    <3>1. \A p \in Records : disk'[p] \in {disk[p], publication.files[p]}
      BY <2>1 DEF Revert, PublicationInvariant, TypeOK
    <3>2. step = "idle" /\ UNCHANGED <<publication, pending, edited, step>>
      BY <2>1 DEF Revert, worker, history
    <3> QED BY <3>1, <3>2 DEF WorkIsKnown, Known
  <2> QED BY <1>2, <2>1, EditIsKnown DEF Operator
<1>3. CASE Crash \/ \E j \in Jobs : Start(j)
  BY <1>3, KnownOutside DEF Crash, Start, Goto, Rest, files, history, Finishing
<1> QED BY <1>1, <1>2, <1>3

LEMMA QuietIsKnown ==
    ASSUME PublicationInvariant, WorkIsKnown, Maintains \/ Imports \/ Render \/ Verify \/ MarkReady
    PROVE  WorkIsKnown'
<1>1. CASE Maintains
  BY <1>1, KnownOutside
     DEF Maintains, Rebuild, MarkRebuilt, SkipRebuild, MarkReleasing, Prune, MarkReleased, Fail, Goto, Rest,
         files, history, Finishing
<1>2. CASE Render \/ Verify \/ MarkReady
  BY <1>2, KnownOutside DEF Render, Verify, MarkReady, Goto, Rest, files, history, Finishing
<1>3. CASE Examine
  BY <1>3, KnownOutside DEF Examine, Import, Goto, Rest, files, history, Finishing
<1>4. ASSUME NEW q \in Records, KeepImported(q) \/ ReviseImported(q) PROVE WorkIsKnown'
  BY <1>4, KnownOutside DEF KeepImported, ReviseImported, Fail, Goto, Rest, files, history, Finishing
<1>5. ASSUME NEW q \in Records, RestoreBaseline(q) PROVE WorkIsKnown'
  <2>1. \A p \in Records : disk'[p] \in {disk[p], publication.files[p]}
    BY <1>5 DEF RestoreBaseline, PublicationInvariant, TypeOK
  <2>2. step' = "rendering" /\ UNCHANGED <<publication, pending, edited>>
    BY <1>5 DEF RestoreBaseline, history
  <2> QED BY <2>1, <2>2 DEF WorkIsKnown, Known
<1> QED BY <1>1, <1>2, <1>3, <1>4, <1>5 DEF Imports

\* finishWorkspacePublication begins: everything it will write is to be done.
LEMMA FinishIsKnown ==
    ASSUME PublicationInvariant, WorkIsKnown, Recover \/ Journal
    PROVE  WorkIsKnown'
<1>1. CASE Recover /\ step' \notin Finishing
  BY <1>1, KnownOutside DEF Recover, files, history
<1>2. CASE Recover /\ step' \in Finishing
  <2>1. /\ step' = "writing" /\ todo' = Written(goal') /\ UNCHANGED <<disk, publication, pending, edited>>
    BY <1>2 DEF Recover, Goto, Rest, Finish, files, history, Finishing, Written
  <2> QED BY <2>1 DEF WorkIsKnown, Known
<1>3. CASE Journal
  <2>1. pending = NoJournal
    BY <1>3, NoJournalOutside DEF Journal, Finishing
  <2>2. step' = "writing" /\ todo' = Written(goal') /\ UNCHANGED <<disk, publication, edited>>
    BY <1>3 DEF Journal, Finish, history, Written
  <2> QED BY <2>1, <2>2 DEF WorkIsKnown, Known
<1> QED BY <1>1, <1>2, <1>3

\* The loop over the files, and the step from it to the files to remove.
LEMMA WritingIsKnown ==
    ASSUME PublicationInvariant, WorkIsKnown, FilesWritten \/ \E q \in Records : KeepBaseline(q) \/ WriteFile(q)
    PROVE  WorkIsKnown'
<1>0. pending = goal /\ goal # NoJournal
  BY JournalAssumption
     DEF FilesWritten, KeepBaseline, WriteFile, PublicationInvariant, TypeOK, Protocol, JournalIsGoal, Finishing
<1>1. ASSUME NEW q \in Records, KeepBaseline(q) PROVE WorkIsKnown'
  BY <1>1, KnownUntouched DEF KeepBaseline, history
<1>2. ASSUME NEW q \in Records, WriteFile(q) PROVE WorkIsKnown'
  <2>1. \A p \in Records : disk'[p] = IF p = q THEN goal.files[p] ELSE disk[p]
    BY <1>2 DEF WriteFile, PublicationInvariant, TypeOK
  <2>2. step = "writing" /\ todo' = todo \ {q} /\ UNCHANGED <<publication, pending, edited, step, goal>>
    BY <1>2 DEF WriteFile, history
  <2> QED BY <1>0, <2>1, <2>2 DEF WorkIsKnown, Known, Written
<1>3. CASE FilesWritten
  <2>1. /\ step = "writing" /\ todo = {} /\ step' = "removing" /\ todo' = Removed(goal)
        /\ UNCHANGED <<disk, publication, pending, edited, goal>>
    BY <1>3 DEF FilesWritten, files, history
  <2>2. Extends(goal) /\ Extends(publication)
    BY <2>1, GoalExtends DEF Finishing, PublicationInvariant, Protocol, PinsExtend
  <2>3. ASSUME NEW p \in Records \ Removed(goal) PROVE disk[p] \in Brought(p)
    <3>1. CASE goal.files[p] # 0
      BY <2>1, <3>1 DEF WorkIsKnown, Brought, Written
    <3>2. CASE goal.files[p] = 0
      <4>1. disk[p] \in {0, publication.files[p], publication.pins[p]} \cup edited
        BY <1>0, <3>2 DEF WorkIsKnown, Known
      <4>2. publication.pins[p] # 0 => goal.pins[p] = publication.pins[p] /\ publication.files[p] \in {0, publication.pins[p]}
        BY <2>2 DEF Extends
      <4>3. publication.pins[p] = 0 => goal.pins[p] = 0
        BY <2>2, <3>2 DEF Extends
      <4>4. publication.files[p] = 0 \/ goal.pins[p] # 0
        BY <2>3, <3>2 DEF Removed
      <4> QED BY <4>1, <4>2, <4>3, <4>4 DEF Brought
    <3> QED BY <3>1, <3>2
  <2> QED BY <2>1, <2>3 DEF WorkIsKnown, Known, Brought
<1> QED BY <1>1, <1>2, <1>3

LEMMA RemovingIsKnown ==
    ASSUME PublicationInvariant, WorkIsKnown, FilesRemoved \/ \E q \in Records : Preserve(q) \/ Remove(q)
    PROVE  WorkIsKnown'
<1>1. ASSUME NEW q \in Records, Preserve(q) PROVE WorkIsKnown'
  BY <1>1, KnownUntouched DEF Preserve, history
<1>2. ASSUME NEW q \in Records, Remove(q) PROVE WorkIsKnown'
  <2>1. \A p \in Records : disk'[p] = IF p = q THEN 0 ELSE disk[p]
    BY <1>2 DEF Remove, PublicationInvariant, TypeOK
  <2>2. step = "removing" /\ todo' = todo \ {q} /\ UNCHANGED <<publication, pending, edited, step, goal>>
    BY <1>2 DEF Remove, history
  <2> QED BY <2>1, <2>2 DEF WorkIsKnown, Known, Brought
<1>3. CASE FilesRemoved
  BY <1>3 DEF FilesRemoved, Goto, files, history, WorkIsKnown, Known, Brought
<1> QED BY <1>1, <1>2, <1>3

\* The index, the state and the end of the journal.
LEMMA StatingIsKnown ==
    ASSUME PublicationInvariant, WorkIsKnown, WriteIndex \/ WriteState \/ DropJournal
    PROVE  WorkIsKnown'
<1>0. pending = goal /\ goal # NoJournal
  BY JournalAssumption
     DEF WriteIndex, WriteState, DropJournal, PublicationInvariant, TypeOK, Protocol, JournalIsGoal, Finishing
<1>1. CASE WriteIndex
  BY <1>1 DEF WriteIndex, Goto, history, WorkIsKnown, Known, Brought
<1>2. CASE WriteState
  <2>1. /\ step = "stating" /\ step' = "clearing" /\ publication' = goal
        /\ UNCHANGED <<disk, pending, edited, goal>>
    BY <1>2 DEF WriteState, Goto, history
  <2>2. \A p \in Records : disk[p] \in Brought(p)
    BY <2>1 DEF WorkIsKnown
  <2> QED BY <2>1, <2>2 DEF WorkIsKnown, Known, Brought
<1>3. CASE DropJournal
  <2>1. /\ step = "clearing" /\ step' \in {"checking", "published"}
        /\ UNCHANGED <<disk, publication, edited>>
    BY <1>3 DEF DropJournal, history, PublicationInvariant, TypeOK
  <2>2. publication = goal
    BY <2>1 DEF PublicationInvariant, Protocol, JournalIsGoal
  <2>3. \A p \in Records : disk[p] \in Brought(p)
    BY <2>1 DEF WorkIsKnown
  <2> QED BY <2>1, <2>2, <2>3 DEF WorkIsKnown, Known, Brought
<1> QED BY <1>1, <1>2, <1>3

LEMMA WorkStaysKnown == PublicationInvariant /\ WorkIsKnown /\ [Next]_vars => WorkIsKnown'
BY OutsideIsKnown, QuietIsKnown, FinishIsKnown, WritingIsKnown, RemovingIsKnown, StatingIsKnown
   DEF Next, Work, Publishes

\* Recovery compares the files with the journal and the last publication
\* (workspace-project.ts 573, 579).  Whatever is neither is an edit: no file that
\* the dead worker wrote, removed or had yet to reach is taken for one, whenever
\* it died and whatever the operator did in between.
THEOREM HalfDoneWorkIsRecognized == Spec => []OwnWorkIsRecognized
<1>1. Init => WorkIsKnown
  BY DEF Init, WorkIsKnown, Known
<1>2. PublicationInvariant /\ WorkIsKnown /\ [Next]_vars => WorkIsKnown'
  BY WorkStaysKnown
<1>3. WorkIsKnown => OwnWorkIsRecognized
  BY DEF WorkIsKnown, Known, OwnWorkIsRecognized
<1> QED BY <1>1, <1>2, <1>3, InvariantHolds, PTL DEF Spec

-----------------------------------------------------------------------------
(* The operator's edits.                                                   *)

\* The inductive invariant behind EditsSurvive.  From the check that precedes
\* the journal, or recovery's, no file that is about to be written holds an edit
\* that came earlier, and the file a loop or an import has in hand was copied.
EditsAreKept ==
    /\ step \in {"journaling", "writing"} => \A p \in Written(goal) : disk[p] \notin Edits \ late
    /\ step \in {"revising", "restoring", "removing"} =>
          \A p \in at : disk[p] \in Edits \ late => <<p, disk[p]>> \in recovery

\* What the app-server writes is never an edit.
LEMMA RevisionsAreNoEdits ==
    ASSUME NEW n \in Revisions
    PROVE  n \notin Edits
BY WorkspacePublicationAssumption DEF Revisions

LEMMA EditsElsewhere ==
    ASSUME step' \notin Window
    PROVE  EditsAreKept'
BY DEF EditsAreKept, Window

LEMMA EditsUntouched ==
    ASSUME EditsAreKept, UNCHANGED <<disk, goal, at, step, late>>, recovery \subseteq recovery'
    PROVE  EditsAreKept'
BY DEF EditsAreKept, Written

LEMMA OutsideKeepsEdits ==
    ASSUME PublicationInvariant, EditsAreKept,
           Typed \/ Operator \/ Crash \/ UNCHANGED vars \/ \E j \in Jobs : Start(j)
    PROVE  EditsAreKept'
<1>1. CASE Typed \/ UNCHANGED vars
  BY <1>1, EditsUntouched DEF Typed, Save, Forget, vars, files, worker, history
<1>2. ASSUME NEW q \in Records, Revert(q) PROVE EditsAreKept'
  BY <1>2, EditsElsewhere DEF Revert, worker, Window
<1>3. ASSUME NEW q \in Records, NEW e \in Edits, Edit(q, e) PROVE EditsAreKept'
  <2>1. CASE step \notin Window
    BY <1>3, <2>1, EditsElsewhere DEF Edit, worker
  <2>2. CASE step \in Window
    <3>1. PICK content \in {e, 0} : disk' = [disk EXCEPT ![q] = content]
      BY <1>3 DEF Edit
    <3>2. late' = late \cup {e} /\ UNCHANGED <<goal, at, step, recovery>>
      BY <1>3, <2>2 DEF Edit, worker
    <3>3. 0 \notin Edits
      BY NothingType, RevisionsAreNoEdits
    <3>4. \A p \in Records : disk'[p] = disk[p] \/ disk'[p] \notin Edits \ late'
      BY <3>1, <3>2, <3>3 DEF PublicationInvariant, TypeOK
    <3>5. at \subseteq Records /\ Written(goal) \subseteq Records
      BY DEF PublicationInvariant, TypeOK, Written
    <3> QED BY <3>2, <3>4, <3>5 DEF EditsAreKept, Written
  <2> QED BY <2>1, <2>2
<1>4. CASE Crash \/ \E j \in Jobs : Start(j)
  BY <1>4, EditsElsewhere DEF Crash, Start, Goto, Rest, Window
<1> QED BY <1>1, <1>2, <1>3, <1>4 DEF Operator

LEMMA ImportKeepsEdits ==
    ASSUME PublicationInvariant, EditsAreKept, Imports
    PROVE  EditsAreKept'
<1>1. CASE Examine
  BY <1>1, EditsElsewhere DEF Examine, Import, Goto, Rest, Window
<1>2. ASSUME NEW q \in Records, KeepImported(q) PROVE EditsAreKept'
  <2>1. CASE Fail
    BY <2>1, EditsElsewhere DEF Fail, Goto, Rest, Window
  <2>2. CASE ~Fail
    <3>1. at = {q} /\ recovery' = recovery \cup {<<q, disk[q]>>} /\ UNCHANGED <<disk, late>>
          /\ (Goto("restoring") \/ Goto("revising"))
      BY <1>2, <2>2 DEF KeepImported, history
    <3> QED BY <3>1 DEF Goto, EditsAreKept
  <2> QED BY <2>1, <2>2
<1>3. ASSUME NEW q \in Records, ReviseImported(q) PROVE EditsAreKept'
  <2>1. CASE Fail
    BY <2>1, EditsElsewhere DEF Fail, Goto, Rest, Window
  <2>2. CASE ~Fail
    <3>1. step = "revising" /\ Goto("restoring") /\ UNCHANGED <<disk, late, recovery>>
      BY <1>3, <2>2 DEF ReviseImported, files, history
    <3> QED BY <3>1 DEF Goto, EditsAreKept
  <2> QED BY <2>1, <2>2
<1>4. ASSUME NEW q \in Records, RestoreBaseline(q) PROVE EditsAreKept'
  BY <1>4, EditsElsewhere DEF RestoreBaseline, Window
<1> QED BY <1>1, <1>2, <1>3, <1>4 DEF Imports

\* Both checks let the loop over the files begin only where nothing that it
\* will write has been edited.
LEMMA ChecksFindEdits ==
    ASSUME PublicationInvariant, EditsAreKept, Recover \/ Verify \/ Journal
    PROVE  EditsAreKept'
<1>1. CASE Recover
  <2>1. CASE step' \notin Window
    BY <2>1, EditsElsewhere
  <2>2. CASE step' \in Window
    <3>1. /\ pending # NoJournal /\ Changed = {} /\ step' = "writing" /\ goal' = pending
          /\ UNCHANGED <<disk, late>>
      BY <1>1, <2>2 DEF Recover, Goto, Rest, Finish, Window, files, history
    <3>2. \A p \in Written(pending) : disk[p] \in {0, pending.files[p], publication.files[p]}
      BY <3>1 DEF Changed, Written
    <3>3. \A p \in Records : pending.files[p] \in Revisions /\ publication.files[p] \in Revisions
      BY <3>1, PublicationTyped DEF PublicationInvariant, TypeOK
    <3>4. \A p \in Written(pending) : disk[p] \notin Edits
      BY <3>2, <3>3, NothingType, RevisionsAreNoEdits DEF Written
    <3> QED BY <3>1, <3>4 DEF EditsAreKept
  <2> QED BY <2>1, <2>2
<1>2. CASE Verify
  <2>1. CASE step' \notin Window
    BY <2>1, EditsElsewhere
  <2>2. CASE step' \in Window
    <3>1. /\ MayPublish(WithPins(goal)) /\ step' = "journaling" /\ goal' = WithPins(goal)
          /\ UNCHANGED <<disk, late>>
      BY <1>2, <2>2 DEF Verify, Goto, Rest, Window, files, history
    <3>2. \A p \in Written(goal') : disk[p] \in {0, publication.files[p], goal'.files[p]}
      BY <3>1 DEF MayPublish, Written
    <3>3. goal' \in Publications
      BY <3>1, WithPinsType DEF PublicationInvariant, TypeOK
    <3>4. \A p \in Records : goal'.files[p] \in Revisions /\ publication.files[p] \in Revisions
      BY <3>3, PublicationTyped DEF PublicationInvariant, TypeOK
    <3>5. \A p \in Written(goal') : disk[p] \notin Edits
      BY <3>2, <3>4, NothingType, RevisionsAreNoEdits DEF Written
    <3> QED BY <3>1, <3>5 DEF EditsAreKept, Written
  <2> QED BY <2>1, <2>2
<1>3. CASE Journal
  BY <1>3 DEF Journal, Finish, history, EditsAreKept, Written
<1> QED BY <1>1, <1>2, <1>3

LEMMA LoopsKeepEdits ==
    ASSUME PublicationInvariant, EditsAreKept,
           FilesWritten \/ \E q \in Records : KeepBaseline(q) \/ WriteFile(q) \/ Preserve(q) \/ Remove(q)
    PROVE  EditsAreKept'
<1>1. ASSUME NEW q \in Records, KeepBaseline(q) PROVE EditsAreKept'
  BY <1>1 DEF KeepBaseline, history, EditsAreKept, Written
<1>2. ASSUME NEW q \in Records, WriteFile(q) PROVE EditsAreKept'
  <2>1. goal.files[q] \notin Edits
    BY PublicationTyped, RevisionsAreNoEdits DEF PublicationInvariant, TypeOK
  <2>2. \A p \in Records : disk'[p] = IF p = q THEN goal.files[p] ELSE disk[p]
    BY <1>2 DEF WriteFile, PublicationInvariant, TypeOK
  <2>3. step = "writing" /\ UNCHANGED <<goal, step, late>>
    BY <1>2 DEF WriteFile, history
  <2> QED BY <2>1, <2>2, <2>3 DEF EditsAreKept, Written
<1>3. CASE FilesWritten
  <2>1. at = {}
    BY <1>3 DEF FilesWritten, PublicationInvariant, Protocol, LoopsAreSound
  <2> QED BY <1>3, <2>1 DEF FilesWritten, EditsAreKept
<1>4. ASSUME NEW q \in Records, Preserve(q) PROVE EditsAreKept'
  <2>1. 0 \notin Edits
    BY NothingType, RevisionsAreNoEdits
  <2>2. step' = "removing" /\ at' = {q} /\ UNCHANGED <<disk, late>>
        /\ (disk[q] # 0 => <<q, disk[q]>> \in recovery')
    BY <1>4 DEF Preserve, history
  <2> QED BY <2>1, <2>2 DEF EditsAreKept
<1>5. ASSUME NEW q \in Records, Remove(q) PROVE EditsAreKept'
  BY <1>5 DEF Remove, history, EditsAreKept
<1> QED BY <1>1, <1>2, <1>3, <1>4, <1>5

LEMMA EditsStayKept == PublicationInvariant /\ EditsAreKept /\ [Next]_vars => EditsAreKept'
<1> SUFFICES ASSUME PublicationInvariant, EditsAreKept, [Next]_vars PROVE EditsAreKept'
  OBVIOUS
<1>1. CASE Maintains \/ Render \/ FilesRemoved \/ WriteIndex \/ WriteState \/ MarkReady
  BY <1>1, EditsElsewhere
     DEF Maintains, Rebuild, MarkRebuilt, SkipRebuild, MarkReleasing, Prune, MarkReleased, Fail, Render,
         FilesRemoved, WriteIndex, WriteState, MarkReady, Goto, Rest, Window
<1>2. CASE DropJournal
  BY <1>2, EditsElsewhere DEF DropJournal, PublicationInvariant, TypeOK, Window
<1> QED BY <1>1, <1>2, OutsideKeepsEdits, ImportKeepsEdits, ChecksFindEdits, LoopsKeepEdits
        DEF Next, Work, Publishes

\* What EditsSurvive says of one step.
EditIsCopied ==
    \A p \in Records :
        disk[p] \in Edits \ late /\ disk'[p] # disk[p] /\ worker' # worker => <<p, disk[p]>> \in recovery'

LEMMA StepCopiesEdits ==
    ASSUME PublicationInvariant, EditsAreKept, [Next]_vars
    PROVE  EditIsCopied
<1> SUFFICES ASSUME NEW p \in Records, disk[p] \in Edits \ late, disk'[p] # disk[p], worker' # worker
             PROVE  <<p, disk[p]>> \in recovery'
  BY DEF EditIsCopied
<1>1. PICK q \in Records : WriteFile(q) \/ Remove(q) \/ RestoreBaseline(q)
  BY DiskChanges
<1>2. q = p
  BY <1>1 DEF WriteFile, Remove, RestoreBaseline, PublicationInvariant, TypeOK
<1>3. CASE WriteFile(p)
  <2>1. p \in Written(goal)
    BY <1>3 DEF WriteFile, PublicationInvariant, Protocol, LoopsAreSound
  <2> QED BY <1>3, <2>1 DEF WriteFile, EditsAreKept
<1>4. CASE Remove(p) \/ RestoreBaseline(p)
  BY <1>4 DEF Remove, RestoreBaseline, EditsAreKept
<1> QED BY <1>1, <1>2, <1>3, <1>4

\* writeFile and rm destroy what was there.  Wherever the app-server writes to a
\* managed path, an edit it finds there was copied to recovery before, unless it
\* came after the check that would have refused it (workspace-project.ts 346, 573
\* and 579, workspace-import.ts 125).
THEOREM EditsAreNotDestroyed == Spec => EditsSurvive
<1>1. Init => EditsAreKept
  BY DEF Init, EditsAreKept
<1>2. PublicationInvariant /\ EditsAreKept /\ [Next]_vars => EditsAreKept'
  BY EditsStayKept
<1>3. PublicationInvariant /\ EditsAreKept /\ [Next]_vars => EditIsCopied
  BY StepCopiesEdits
<1>4. Spec => []EditsAreKept
  BY <1>1, <1>2, InvariantHolds, PTL DEF Spec
<1>5. Spec => [][EditIsCopied]_vars
  BY <1>3, <1>4, InvariantHolds, PTL DEF Spec
<1> QED BY <1>5 DEF EditsSurvive, EditIsCopied

-----------------------------------------------------------------------------
(* The rows.                                                               *)

\* The published records that would leave with the next publication.
Drops(g) == {p \in Records : publication.files[p] # 0 /\ g.files[p] = 0}

\* The steps that only a worker takes whose rows are there.
NeedsRows == {"examining", "importing", "revising", "restoring", "rendering", "verifying", "journaling",
              "published", "releasing"}

\* A row that is missing although nobody deleted it is in no publication.
RowsAreThere ==
    \A p \in Records \ forgotten : store[p] = 0 =>
        /\ publication.files[p] = 0
        /\ pending # NoJournal => pending.files[p] = 0
        /\ step \in {"verifying", "journaling"} => goal.files[p] = 0

\* The inductive invariant behind OnlyForgottenRecordsLeave: the rows are there
\* whenever the cache marker says so, and only then is anything published.
RowsAreKept ==
    /\ pending # NoJournal => Drops(pending) \subseteq forgotten
    /\ step \in {"verifying", "journaling"} => Drops(goal) \subseteq forgotten
    /\ cache = "ready" => RowsAreThere
    /\ step = "rebuilt" => \A p \in Records \ forgotten : store[p] = 0 => publication.files[p] = 0
    /\ pending # NoJournal \/ step \in NeedsRows => cache = "ready"
    /\ step = "pruning" => cache = "releasing"

\* A step that takes no row away and publishes nothing.
LEMMA RowsUntouched ==
    ASSUME RowsAreKept, UNCHANGED <<publication, pending, cache>>, forgotten \subseteq forgotten',
           \A p \in Records : store'[p] = 0 => store[p] = 0 \/ p \in forgotten',
           \/ step' \notin {"verifying", "journaling", "rebuilt", "pruning"} /\ (step' \in NeedsRows => cache = "ready")
           \/ step' = step /\ goal' = goal
    PROVE  RowsAreKept'
<1>1. (pending # NoJournal => Drops(pending) \subseteq forgotten)'
  BY DEF RowsAreKept, Drops
<1>2. (step \in {"verifying", "journaling"} => Drops(goal) \subseteq forgotten)'
  BY DEF RowsAreKept, Drops
<1>3. (cache = "ready" => RowsAreThere)'
  BY DEF RowsAreKept, RowsAreThere
<1>4. (step = "rebuilt" => \A p \in Records \ forgotten : store[p] = 0 => publication.files[p] = 0)'
  BY DEF RowsAreKept
<1>5. (pending # NoJournal \/ step \in NeedsRows => cache = "ready")' /\ (step = "pruning" => cache = "releasing")'
  BY DEF RowsAreKept
<1> QED BY <1>1, <1>2, <1>3, <1>4, <1>5 DEF RowsAreKept

LEMMA OutsideKeepsRows ==
    ASSUME PublicationInvariant, RowsAreKept,
           Typed \/ Operator \/ Crash \/ UNCHANGED vars \/ Recover \/ \E j \in Jobs : Start(j)
    PROVE  RowsAreKept'
<1>1. ASSUME NEW q \in Records, Save(q) PROVE RowsAreKept'
  <2>1. store[q] \in Nat /\ \A p \in Records : store'[p] = IF p = q THEN store[p] + 1 ELSE store[p]
    BY <1>1, WorkspacePublicationAssumption DEF Save, PublicationInvariant, TypeOK, Revisions
  <2>2. \A p \in Records : store'[p] = 0 => store[p] = 0
    BY <2>1
  <2> QED BY <1>1, <2>2, RowsUntouched DEF Save, files, worker, history
<1>2. ASSUME NEW q \in Records, Forget(q) PROVE RowsAreKept'
  <2>1. \A p \in Records : store'[p] = 0 => store[p] = 0 \/ p \in forgotten'
    BY <1>2 DEF Forget, PublicationInvariant, TypeOK
  <2> QED BY <1>2, <2>1, RowsUntouched DEF Forget, files, worker
<1>3. CASE Operator \/ UNCHANGED vars
  BY <1>3, RowsUntouched DEF Operator, Revert, Edit, vars, files, worker, history
<1>4. CASE Crash \/ Recover \/ \E j \in Jobs : Start(j)
  BY <1>4, RowsUntouched DEF Crash, Recover, Start, Goto, Rest, Finish, files, history, NeedsRows
<1> QED BY <1>1, <1>2, <1>3, <1>4 DEF Typed

\* The rows come back from the index before the marker says that they are there,
\* and the marker stops saying so before they are removed.
LEMMA MaintainsKeepsRows ==
    ASSUME PublicationInvariant, RowsAreKept, Maintains
    PROVE  RowsAreKept'
<1>0. pending = NoJournal
  BY NoJournalOutside
     DEF Maintains, Rebuild, MarkRebuilt, SkipRebuild, MarkReleasing, Prune, MarkReleased, Finishing
<1>1. CASE Fail
  BY <1>1, RowsUntouched DEF Fail, Goto, Rest, files, history, NeedsRows
<1>2. CASE Rebuild /\ ~Fail
  <2>1. /\ store' = [p \in Records |-> IF store[p] = 0 THEN index.files[p] ELSE store[p]]
        /\ step' = "rebuilt" /\ UNCHANGED <<publication, pending, cache, forgotten>>
    BY <1>2 DEF Rebuild, Goto, files, history
  <2>2. index = publication
    BY <1>0 DEF PublicationInvariant, Protocol, GapsAreJournaled
  <2>3. \A p \in Records : store'[p] = 0 => store[p] = 0 /\ publication.files[p] = 0
    BY <2>1, <2>2
  <2>4. (cache = "ready" => RowsAreThere)'
    BY <1>0, <2>1, <2>3 DEF RowsAreKept, RowsAreThere
  <2> QED BY <1>0, <2>1, <2>3, <2>4 DEF RowsAreKept, NeedsRows
<1>3. CASE MarkRebuilt
  <2>1. /\ step = "rebuilt" /\ step' \in {"idle", "examining"} /\ cache' = "ready"
        /\ UNCHANGED <<store, publication, pending, forgotten>>
    BY <1>3 DEF MarkRebuilt, Goto, Rest, files, history
  <2>2. RowsAreThere'
    BY <1>0, <2>1 DEF RowsAreKept, RowsAreThere
  <2> QED BY <1>0, <2>1, <2>2 DEF RowsAreKept
<1>4. CASE SkipRebuild
  <2>1. cache = "ready"
    BY <1>4 DEF SkipRebuild, NeedsRebuild, PublicationInvariant, TypeOK
  <2> QED BY <1>4, <2>1, RowsUntouched DEF SkipRebuild, Goto, files, history
<1>5. CASE MarkReleasing /\ ~Fail
  <2>1. step' = "pruning" /\ cache' = "releasing" /\ pending' = NoJournal
    BY <1>0, <1>5 DEF MarkReleasing, Goto, files
  <2> QED BY <2>1 DEF RowsAreKept, NeedsRows
<1>6. CASE Prune
  <2>1. step' = "pruned" /\ cache' = "releasing" /\ pending' = NoJournal
    BY <1>0, <1>6 DEF Prune, Goto, files, RowsAreKept
  <2> QED BY <2>1 DEF RowsAreKept, NeedsRows
<1>7. CASE MarkReleased
  <2>1. step' = "idle" /\ cache' = "released" /\ pending' = NoJournal
    BY <1>0, <1>7 DEF MarkReleased, Goto, Rest, files
  <2> QED BY <2>1 DEF RowsAreKept, NeedsRows
<1> QED BY <1>1, <1>2, <1>3, <1>4, <1>5, <1>6, <1>7 DEF Maintains

LEMMA ImportsKeepRows ==
    ASSUME PublicationInvariant, RowsAreKept, Imports
    PROVE  RowsAreKept'
<1>0. step \in {"examining", "importing", "revising", "restoring"} => cache = "ready"
  BY DEF RowsAreKept, NeedsRows
<1>1. CASE Examine
  BY <1>0, <1>1, RowsUntouched DEF Examine, Import, Goto, Rest, files, history
<1>2. ASSUME NEW q \in Records, KeepImported(q) PROVE RowsAreKept'
  BY <1>0, <1>2, RowsUntouched DEF KeepImported, Fail, Goto, Rest, files, history
<1>3. ASSUME NEW q \in Records, ReviseImported(q) PROVE RowsAreKept'
  <2>1. CASE Fail
    BY <2>1, RowsUntouched DEF Fail, Goto, Rest, files, history, NeedsRows
  <2>2. CASE ~Fail
    <3>1. step = "revising" /\ step' = "restoring" /\ store' = [store EXCEPT ![q] = store[q] + 1]
          /\ UNCHANGED <<publication, pending, cache, forgotten>>
      BY <1>3, <2>2 DEF ReviseImported, Goto, files, history
    <3>2. store[q] \in Nat /\ \A p \in Records : store'[p] = IF p = q THEN store[p] + 1 ELSE store[p]
      BY <3>1, WorkspacePublicationAssumption DEF PublicationInvariant, TypeOK, Revisions
    <3>3. \A p \in Records : store'[p] = 0 => store[p] = 0
      BY <3>2
    <3> QED BY <1>0, <3>1, <3>3, RowsUntouched
  <2> QED BY <2>1, <2>2
<1>4. ASSUME NEW q \in Records, RestoreBaseline(q) PROVE RowsAreKept'
  BY <1>0, <1>4, RowsUntouched DEF RestoreBaseline, history
<1> QED BY <1>1, <1>2, <1>3, <1>4 DEF Imports

\* What is rendered, and what replaces it, drops no record whose row is there.
LEMMA RenderingKeepsRows ==
    ASSUME PublicationInvariant, RowsAreKept, Render \/ Verify \/ Journal
    PROVE  RowsAreKept'
<1>0. pending = NoJournal /\ cache = "ready" /\ RowsAreThere
  BY NoJournalOutside DEF Render, Verify, Journal, Finishing, RowsAreKept, NeedsRows
<1>1. CASE Render
  <2>1. /\ step' = "verifying" /\ \A p \in Records : goal'.files[p] = store[p]
        /\ UNCHANGED <<store, publication, pending, cache, forgotten>>
    BY <1>1 DEF Render, files, history
  <2>2. Drops(goal)' \subseteq forgotten
    BY <1>0, <2>1 DEF Drops, RowsAreThere
  <2>3. RowsAreThere'
    BY <1>0, <2>1 DEF RowsAreThere
  <2> QED BY <1>0, <2>1, <2>2, <2>3 DEF RowsAreKept
<1>2. CASE Verify /\ step' # "journaling"
  BY <1>2, RowsUntouched DEF Verify, Goto, Rest, files, history, NeedsRows
<1>3. CASE Verify /\ step' = "journaling"
  <2>1. /\ step = "verifying" /\ goal' = WithPins(goal)
        /\ UNCHANGED <<store, publication, pending, cache, forgotten>>
    BY <1>3 DEF Verify, Goto, Rest, files, history
  <2>2. \A p \in Records : goal'.files[p] = 0 <=> goal.files[p] = 0
    BY <2>1 DEF WithPins, Replaced, Written
  <2>3. Drops(goal)' \subseteq forgotten
    BY <2>1, <2>2 DEF Drops, RowsAreKept
  <2>4. RowsAreThere'
    BY <1>0, <1>3, <2>1, <2>2 DEF RowsAreThere
  <2> QED BY <1>0, <1>3, <2>1, <2>3, <2>4 DEF RowsAreKept
<1>4. CASE Journal
  <2>1. /\ step = "journaling" /\ step' = "writing" /\ pending' = goal
        /\ UNCHANGED <<store, publication, cache, forgotten>>
    BY <1>4 DEF Journal, Finish, history
  <2>2. Drops(pending)' \subseteq forgotten
    BY <2>1 DEF RowsAreKept, Drops
  <2>3. RowsAreThere'
    BY <1>0, <2>1 DEF RowsAreThere
  <2> QED BY <1>0, <2>1, <2>2, <2>3 DEF RowsAreKept, NeedsRows
<1> QED BY <1>1, <1>2, <1>3, <1>4

LEMMA FinishingKeepsRows ==
    ASSUME PublicationInvariant, RowsAreKept,
           \/ \E q \in Records : KeepBaseline(q) \/ WriteFile(q) \/ Preserve(q) \/ Remove(q)
           \/ FilesWritten \/ FilesRemoved \/ WriteIndex \/ WriteState \/ DropJournal \/ MarkReady
    PROVE  RowsAreKept'
<1>1. CASE \/ \E q \in Records : KeepBaseline(q) \/ WriteFile(q) \/ Preserve(q) \/ Remove(q)
           \/ FilesWritten \/ FilesRemoved \/ WriteIndex
  BY <1>1, RowsUntouched
     DEF KeepBaseline, WriteFile, Preserve, Remove, FilesWritten, FilesRemoved, WriteIndex, Goto, files, history, NeedsRows
<1>2. CASE WriteState
  <2>1. /\ step = "stating" /\ step' = "clearing" /\ publication' = goal
        /\ UNCHANGED <<store, pending, cache, forgotten>>
    BY <1>2 DEF WriteState, Goto, history
  <2>2. pending = goal /\ goal # NoJournal
    BY <2>1, JournalAssumption DEF PublicationInvariant, TypeOK, Protocol, JournalIsGoal, Finishing
  <2>3. cache = "ready" /\ RowsAreThere
    BY <2>2 DEF RowsAreKept
  <2>4. Drops(pending)' = {}
    BY <2>1, <2>2 DEF Drops
  <2>5. RowsAreThere'
    BY <2>1, <2>2, <2>3 DEF RowsAreThere
  <2> QED BY <2>1, <2>3, <2>4, <2>5 DEF RowsAreKept
<1>3. CASE DropJournal
  <2>1. /\ step = "clearing" /\ step' \in {"checking", "published"} /\ pending' = NoJournal
        /\ UNCHANGED <<store, publication, cache, forgotten>>
    BY <1>3 DEF DropJournal, history, PublicationInvariant, TypeOK
  <2>2. pending # NoJournal
    BY <2>1, JournalAssumption DEF PublicationInvariant, TypeOK, Protocol, JournalIsGoal, Finishing
  <2>3. cache = "ready" /\ RowsAreThere
    BY <2>2 DEF RowsAreKept
  <2>4. RowsAreThere'
    BY <2>1, <2>3 DEF RowsAreThere
  <2> QED BY <2>1, <2>3, <2>4 DEF RowsAreKept
<1>4. CASE MarkReady
  <2>1. cache = "ready"
    BY <1>4 DEF MarkReady, RowsAreKept, NeedsRows
  <2> QED BY <1>4, <2>1, RowsUntouched DEF MarkReady, Goto, Rest, files, history
<1> QED BY <1>1, <1>2, <1>3, <1>4

LEMMA RowsStayKept == PublicationInvariant /\ RowsAreKept /\ [Next]_vars => RowsAreKept'
BY OutsideKeepsRows, MaintainsKeepsRows, ImportsKeepRows, RenderingKeepsRows, FinishingKeepsRows
   DEF Next, Work, Publishes

\* What OnlyForgottenRecordsLeave says of one step.
LeavingWasForgotten ==
    \A p \in Records : publication.files[p] # 0 /\ publication'.files[p] = 0 => p \in forgotten

LEMMA StepDropsForgotten ==
    ASSUME PublicationInvariant, RowsAreKept, [Next]_vars
    PROVE  LeavingWasForgotten
<1>1. CASE publication' = publication
  BY <1>1 DEF LeavingWasForgotten
<1>2. CASE publication' # publication
  <2>1. step = "stating" /\ publication' = goal
    BY <1>2, PublicationChanges DEF WriteState
  <2>2. pending = goal /\ goal # NoJournal
    BY <2>1, JournalAssumption DEF PublicationInvariant, TypeOK, Protocol, JournalIsGoal, Finishing
  <2>3. Drops(goal) \subseteq forgotten
    BY <2>2 DEF RowsAreKept
  <2> QED BY <2>1, <2>3 DEF LeavingWasForgotten, Drops
<1> QED BY <1>1, <1>2

\* Released rows are absent, not deleted.  Whatever step a release, a rebuild or
\* a publication stops at, and whatever typed operations come between, a record
\* leaves the publication only when its row was deleted
\* (workspace-research-index.ts 377-379).
THEOREM OnlyDeletedRowsLeave == Spec => OnlyForgottenRecordsLeave
<1>1. Init => RowsAreKept
  BY DEF Init, RowsAreKept, NeedsRows
<1>2. PublicationInvariant /\ RowsAreKept /\ [Next]_vars => RowsAreKept'
  BY RowsStayKept
<1>3. PublicationInvariant /\ RowsAreKept /\ [Next]_vars => LeavingWasForgotten
  BY StepDropsForgotten
<1>4. Spec => []RowsAreKept
  BY <1>1, <1>2, InvariantHolds, PTL DEF Spec
<1>5. Spec => [][LeavingWasForgotten]_vars
  BY <1>3, <1>4, InvariantHolds, PTL DEF Spec
<1> QED BY <1>5 DEF OnlyForgottenRecordsLeave, LeavingWasForgotten
=============================================================================
